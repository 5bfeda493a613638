--------------------------- MODULE DialStdioProofs ---------------------------
(* Theorems about Serve and DialStdio, for every deployment with at most one  *)
(* child, and every number of servers, connections and crashes.              *)
EXTENDS DialStdio, TLAPS

USE DeploymentsAssumption, ClientsAssumption, CapAssumption, ServeNoneAssumption,
    LaunchersAssumption, OneChildAssumption

-----------------------------------------------------------------------------
(* The invariant.                                                           *)

InUse == {"accepted", "handshake", "served"}

(* What is served was accepted while Serve ran, and both ways to stop account  *)
(* for it before they end.                                                  *)
Untouched(s) == stage[s] \in {"idle", "binding"} => lis[s] = "none" /\ \A c \in Conns : at[c] # s
OverUnix(s) == stage[s] = "binding" \/ path = s => scheme[s] = "unix"
NotServing(s) ==
  stage[s] \in {"listening", "returned"} => \A c \in Conns : at[c] = s => conn[c] \notin InUse
Stopping(s) ==
  \A k \in Kinds : stop[s][k] \in {"conns", "done"} =>
    /\ stage[s] # "accept"
    /\ \A c \in Conns : at[c] = s => conn[c] \notin {"accepted", "handshake"}
    /\ stop[s][k] = "done" => \A c \in Conns : at[c] = s => conn[c] # "served"
Queued(s) == \A i \in DOMAIN queue[s] : at[queue[s][i]] = s
ServerFits(s) == Untouched(s) /\ OverUnix(s) /\ NotServing(s) /\ Stopping(s) /\ Queued(s)

(* A listener that is closed though nobody stops the server is that of stdin,  *)
(* whose only connection is over.                                            *)
ListenerFits(s) ==
  /\ scheme[s] = "stdio" => \A c, d \in Conns : at[c] = s /\ at[d] = s => c = d
  /\ stage[s] \in {"listening", "accept"} /\ lis[s] = "closed" =>
       Quit(s) \/ \A c \in Conns : at[c] = s => conn[c] = "closed"

ConnFits(c) == conn[c] = "idle" <=> at[c] = None

ServeInv == /\ \A s \in Servers : ServerFits(s) /\ ListenerFits(s)
            /\ \A c \in Conns : ConnFits(c)

DialInv == /\ TypeOK /\ ServeInv /\ NoChildLeft
           /\ dial = "idle" => child = "none" /\ \A s \in Servers : Stdio(s) => Pipe(s) = {}

-----------------------------------------------------------------------------
(* Types.                                                                   *)

Stages == {"idle", "binding", "listening", "accept", "waiting", "returned", "dead"}
ConnStates == {"idle", "upgraded", "queued", "accepted", "handshake", "served", "closed"}

RunType == /\ scheme \in [Servers -> Schemes] /\ scheme \in Deployments
           /\ stage \in [Servers -> Stages]
           /\ result \in [Servers -> Results \cup {None}] /\ crashes \in 0..MaxCrashes
LisType == /\ lis \in [Servers -> {"none", "open", "closed"}]
           /\ queue \in [Servers -> Seq(Conns)]
           /\ \A s \in Servers : scheme[s] = "ws" => Len(queue[s]) <= Cap
           /\ path \in Servers \cup {None}
ConnType == /\ conn \in [Conns -> ConnStates]
            /\ at \in [Conns -> Servers \cup {None}]
            /\ left \subseteq Conns /\ cut \subseteq Conns
StopType == /\ signal \in [Servers -> {"none", "sent", "taken"}]
            /\ stop \in [Servers -> [Kinds -> {"off", "setup", "conns", "done"}]]
DialType == /\ launcher \in BOOLEAN /\ ctx \in {"live", "ended"}
            /\ dial \in {"idle", "byte", "handshake", "retry", "connected", "failed", "closed"}
            /\ child \in {"none", "running", "killed", "reaped"}
            /\ reader \in {"none", "reading", "byte", "error"}
            /\ stdout \in {"empty", "written"}
ServeType == RunType /\ LisType /\ ConnType /\ StopType

LEMMA TypeParts == /\ TypeOK <=> ServeType /\ DialType
                   /\ TypeOK' <=> ServeType' /\ DialType'
BY DEF TypeOK, ServeTypeOK, ServeType, RunType, LisType, ConnType, StopType, DialType, Stages,
   ConnStates

LEMMA TypeSame ==
  /\ RunType /\ UNCHANGED <<scheme, stage, result, crashes>> => RunType'
  /\ LisType /\ UNCHANGED <<scheme, lis, queue, path>> => LisType'
  /\ ConnType /\ UNCHANGED <<conn, at, left, cut>> => ConnType'
  /\ StopType /\ UNCHANGED <<signal, stop>> => StopType'
  /\ DialType /\ UNCHANGED <<launcher, ctx, dial, child, reader, stdout>> => DialType'
BY DEF RunType, LisType, ConnType, StopType, DialType

LEMMA TypeInit == Init => TypeOK
<1> SUFFICES ASSUME Init PROVE ServeType /\ DialType
  BY TypeParts
<1>1. RunType /\ LisType
  BY DEF Init, ServeInit, RunType, LisType, Stages
<1>2. ConnType /\ StopType /\ DialType
  BY DEF Init, ServeInit, ConnType, StopType, DialType, ConnStates
<1> QED
  BY <1>1, <1>2 DEF ServeType

LEMMA CloseListenerType ==
  ASSUME ServeType, NEW s \in Servers, CloseListener(s), UNCHANGED <<scheme, at, left, cut>>
  PROVE  LisType' /\ ConnType'
<1>1. LisType'
  <2>1. CASE UNCHANGED queue
    BY <2>1 DEF ServeType, LisType, CloseListener
  <2>2. CASE queue' = [queue EXCEPT ![s] = <<>>] /\ path' = None
    <3>1. queue' \in [Servers -> Seq(Conns)] /\ lis' \in [Servers -> {"none", "open", "closed"}]
      BY <2>2 DEF ServeType, LisType, CloseListener
    <3>2. \A t \in Servers : queue'[t] = IF t = s THEN <<>> ELSE queue[t]
      BY <2>2 DEF ServeType, LisType
    <3>3. Len(<<>>) = 0
      OBVIOUS
    <3> QED
      BY <2>2, <3>1, <3>2, <3>3 DEF ServeType, LisType
  <2> QED
    BY <2>1, <2>2 DEF CloseListener
<1>2. ConnType'
  BY DEF ServeType, ConnType, CloseListener, ConnStates
<1> QED
  BY <1>1, <1>2

LEMMA DiesType ==
  ASSUME ServeType, NEW s \in Servers, Dies(s), UNCHANGED <<scheme, result, path, at, cut>>,
         left' \subseteq Conns, crashes' \in 0..MaxCrashes
  PROVE  RunType' /\ LisType' /\ ConnType'
<1>1. RunType'
  BY DEF ServeType, RunType, Dies, Stages
<1>2. LisType'
  BY DEF ServeType, LisType, Dies
<1>3. ConnType'
  BY DEF ServeType, ConnType, Dies, ConnStates
<1> QED
  BY <1>1, <1>2, <1>3

LEMMA ServeTypeStep ==
  ASSUME ServeType, ServeInv, Serving \/ \E s \in Servers : ListenStdio(s)
  PROVE  ServeType'
<1>0. RunType /\ LisType /\ ConnType /\ StopType
  BY DEF ServeType
<1>1. ASSUME NEW s \in Servers, RemoveStale(s) \/ RemoveFails(s) \/ Bind(s) \/ BindFails(s) PROVE ServeType'
  <2>1. RunType' /\ LisType'
    BY <1>0, <1>1 DEF RunType, LisType, Stages, Results, RemoveStale, RemoveFails, Bind, BindFails, StageAt, lisVars
  <2> QED
    BY <1>0, <1>1, <2>1, TypeSame DEF RemoveStale, RemoveFails, Bind, BindFails, connVars, stopVars, ServeType
<1>2. ASSUME NEW s \in Servers, ListenStdio(s) PROVE ServeType'
  <2>1. PICK c \in Conns : /\ ConnAt(c, "idle", "queued") /\ at' = [at EXCEPT ![c] = s]
                           /\ queue' = [queue EXCEPT ![s] = <<c>>]
    BY <1>2 DEF ListenStdio, Schemes
  <2>2. RunType' /\ ConnType'
    BY <1>0, <1>2, <2>1 DEF RunType, ConnType, Stages, ConnStates, ListenStdio, StageAt, ConnAt
  <2>3. LisType'
    BY <1>0, <1>2, <2>1 DEF LisType, ListenStdio
  <2> QED
    BY <1>0, <1>2, <2>2, <2>3, TypeSame DEF ListenStdio, stopVars, ServeType
<1>3. ASSUME NEW c \in Conns, Connect(c) PROVE ServeType'
  <2>1. PICK s \in Servers :
          /\ at' = [at EXCEPT ![c] = s]
          /\ \/ scheme[s] = "ws" /\ ConnAt(c, "idle", "upgraded") /\ UNCHANGED queue
             \/ path = s /\ ConnAt(c, "idle", "queued") /\ queue' = [queue EXCEPT ![s] = Append(@, c)]
          /\ UNCHANGED <<scheme, runVars, lis, path, left, cut, stopVars, crashes>>
    BY <1>3 DEF Connect
  <2>2. ConnType'
    BY <1>0, <2>1 DEF ConnType, ConnStates, ConnAt
  <2>3. LisType'
    <3>1. CASE UNCHANGED queue
      BY <1>0, <2>1, <3>1 DEF LisType
    <3>2. CASE path = s /\ queue' = [queue EXCEPT ![s] = Append(@, c)]
      <4>1. scheme[s] = "unix"
        BY <3>2 DEF ServeInv, ServerFits, OverUnix
      <4>2. \A t \in Servers : scheme[t] = "ws" => queue'[t] = queue[t]
        BY <1>0, <3>2, <4>1 DEF LisType
      <4>3. queue' \in [Servers -> Seq(Conns)]
        BY <1>0, <3>2 DEF LisType
      <4> QED
        BY <1>0, <2>1, <4>2, <4>3 DEF LisType
    <3> QED
      BY <2>1, <3>1, <3>2
  <2> QED
    BY <1>0, <2>1, <2>2, <2>3, TypeSame DEF runVars, stopVars, ServeType
<1>4. ASSUME NEW c \in Conns, Leave(c) \/ RefuseUpgrade(c) \/ Handshake(c) PROVE ServeType'
  <2>1. ConnType'
    BY <1>0, <1>4 DEF ConnType, ConnStates, ConnAt, Leave, RefuseUpgrade, Handshake
  <2> QED
    BY <1>0, <1>4, <2>1, TypeSame
       DEF Leave, RefuseUpgrade, Handshake, runVars, lisVars, stopVars, ServeType
<1>5. ASSUME NEW c \in Conns, Enqueue(c) PROVE ServeType'
  <2>1. ConnType'
    BY <1>0, <1>5 DEF ConnType, ConnStates, ConnAt, Enqueue
  <2>2. LisType'
    <3>1. PICK s \in Servers : s = at[c]
      BY <1>0, <1>5 DEF Enqueue, ConnAt, ServeInv, ConnFits, ConnType
    <3>2. queue' = [queue EXCEPT ![s] = Append(@, c)] /\ Len(queue[s]) < Cap
      BY <1>5, <3>1 DEF Enqueue
    <3>3. queue' \in [Servers -> Seq(Conns)]
      BY <1>0, <3>2 DEF LisType
    <3>4. \A t \in Servers : /\ t # s => queue'[t] = queue[t]
                            /\ t = s => Len(queue'[t]) = Len(queue[s]) + 1 /\ Len(queue[s]) \in Nat
      BY <1>0, <3>2 DEF LisType
    <3> QED
      BY <1>0, <1>5, <3>2, <3>3, <3>4 DEF LisType, Enqueue
  <2> QED
    BY <1>0, <1>5, <2>1, <2>2, TypeSame DEF Enqueue, runVars, stopVars, ServeType
<1>6. ASSUME NEW s \in Servers, StartServe(s) PROVE ServeType'
  <2>1. RunType'
    BY <1>0, <1>6 DEF RunType, Stages, Results, StartServe, StageAt
  <2>2. LisType' /\ ConnType'
    <3>1. CASE CloseListener(s)
      BY <1>6, <3>1, CloseListenerType DEF StartServe
    <3>2. CASE UNCHANGED <<lisVars, conn>>
      BY <1>0, <1>6, <3>2, TypeSame DEF StartServe, lisVars
    <3> QED
      BY <1>6, <3>1, <3>2 DEF StartServe
  <2> QED
    BY <1>0, <1>6, <2>1, <2>2, TypeSame DEF StartServe, stopVars, ServeType
<1>7. ASSUME NEW s \in Servers, Accept(s) PROVE ServeType'
  <2>1. PICK t : t = queue[s]
    OBVIOUS
  <2>2. t \in Seq(Conns) /\ t # <<>> /\ queue' = [queue EXCEPT ![s] = Tail(t)]
    BY <1>0, <1>7, <2>1 DEF LisType, Accept
  <2>3. Tail(t) \in Seq(Conns) /\ Len(Tail(t)) <= Len(t) /\ Len(t) \in Nat /\ Len(Tail(t)) \in Nat
    BY <2>2
  <2>4. LisType'
    <3>1. queue' \in [Servers -> Seq(Conns)]
      BY <1>0, <2>2, <2>3 DEF LisType
    <3>2. \A u \in Servers : queue'[u] = IF u = s THEN Tail(t) ELSE queue[u]
      BY <1>0, <2>2 DEF LisType
    <3> QED
      BY <1>0, <1>7, <2>1, <2>3, <3>1, <3>2 DEF LisType, Accept
  <2>5. ConnType'
    BY <1>0, <1>7 DEF ConnType, ConnStates, ConnAt, Accept
  <2> QED
    BY <1>0, <1>7, <2>4, <2>5, TypeSame DEF Accept, runVars, stopVars, ServeType
<1>8. ASSUME NEW s \in Servers, AcceptFails(s) \/ ServeReturns(s) PROVE ServeType'
  <2>1. RunType'
    BY <1>0, <1>8 DEF RunType, Stages, Results, AcceptFails, ServeReturns, StageAt
  <2> QED
    BY <1>0, <1>8, <2>1, TypeSame DEF AcceptFails, ServeReturns, lisVars, connVars, stopVars, ServeType
<1>9. ASSUME NEW c \in Conns, SetUp(c) \/ HandshakeFails(c) \/ ReadEnds(c) PROVE ServeType'
  <2>1. ConnType'
    BY <1>0, <1>9 DEF ConnType, ConnStates, ConnAt, SetUp, HandshakeFails, ReadEnds, CloseConn
  <2>2. LisType'
    BY <1>0, <1>9 DEF LisType, SetUp, HandshakeFails, ReadEnds, CloseConn
  <2> QED
    BY <1>0, <1>9, <2>1, <2>2, TypeSame
       DEF SetUp, HandshakeFails, ReadEnds, runVars, stopVars, ServeType
<1>10. ASSUME NEW s \in Servers, SendSignal(s) PROVE ServeType'
  BY <1>0, <1>10, TypeSame DEF StopType, SendSignal, runVars, lisVars, connVars, ServeType
<1>11. ASSUME NEW s \in Servers, TakeSignal(s) \/ ForceStop(s) PROVE ServeType'
  <2>1. PICK k \in Kinds : BeginStop(s, k) /\ signal' \in [Servers -> {"none", "sent", "taken"}]
    BY <1>0, <1>11 DEF StopType, TakeSignal, ForceStop, Kinds
  <2>2. StopType'
    BY <1>0, <2>1 DEF StopType, BeginStop
  <2>3. LisType' /\ ConnType'
    <3>1. CASE CloseListener(s)
      BY <2>1, <3>1, CloseListenerType DEF BeginStop
    <3>2. CASE UNCHANGED <<lisVars, conn>>
      BY <1>0, <2>1, <3>2, TypeSame DEF BeginStop, lisVars
    <3> QED
      BY <2>1, <3>1, <3>2 DEF BeginStop
  <2> QED
    BY <1>0, <2>1, <2>2, <2>3, TypeSame DEF BeginStop, runVars, ServeType
<1>12. ASSUME NEW s \in Servers, NEW k \in Kinds, StopConns(s, k) \/ StopEnds(s, k) PROVE ServeType'
  <2>1. StopType' /\ ConnType'
    <3>1. \E v \in {"conns", "done"} : stop' = [stop EXCEPT ![s][k] = v]
      BY <1>12 DEF StopConns, StopEnds
    <3>2. StopType'
      BY <1>0, <1>12, <3>1 DEF StopType, StopConns, StopEnds
    <3>3. ConnType'
      BY <1>0, <1>12 DEF ConnType, StopConns, StopEnds, ConnsAt, connVars
    <3> QED
      BY <3>2, <3>3
  <2> QED
    BY <1>0, <1>12, <2>1, TypeSame DEF StopConns, StopEnds, runVars, lisVars, ServeType
<1>13. ASSUME NEW s \in Servers, Crash(s) PROVE ServeType'
  <2>1. crashes' \in 0..MaxCrashes /\ left' \subseteq Conns
    BY <1>0, <1>13 DEF RunType, ConnType, Crash
  <2> QED
    BY <1>0, <1>13, <2>1, DiesType, TypeSame DEF Crash, stopVars, ServeType
<1> QED
  BY <1>1, <1>2, <1>3, <1>4, <1>5, <1>6, <1>7, <1>8, <1>9, <1>10, <1>11, <1>12, <1>13
     DEF Serving, ListenStep, RunStep, StopStep, UpgradeStep, ConnStep

-----------------------------------------------------------------------------
(* Servers, their listeners and their connections.                          *)

fitsVars == <<scheme, stage, lis, queue, path, conn, at, stop>>

LEMMA FitsSame == ServeInv /\ UNCHANGED fitsVars => ServeInv'
BY DEF ServeInv, ServerFits, Untouched, OverUnix, NotServing, Stopping, Queued, ListenerFits,
   ConnFits, Quit, fitsVars

LEMMA QuitSame == \A s \in Servers : UNCHANGED stop => (Quit(s)' <=> Quit(s))
BY DEF Quit

(* Connections that go on from one state to the next, at the server they have. *)
LEMMA MovesFit ==
  ASSUME ServeType, ServeInv, NEW c \in Conns, NEW from, NEW to \in ConnStates, ConnAt(c, from, to),
         from \notin {"idle", "closed"}, to # "idle", UNCHANGED <<scheme, stage, queue, path, at, stop>>,
         \/ to \in {"queued", "closed"}
         \/ from = "handshake" /\ to = "served"
         \/ from = "accepted" /\ to = "handshake",
         \/ UNCHANGED lis
         \/ to = "closed" /\ scheme[at[c]] = "stdio" /\ lis' = [lis EXCEPT ![at[c]] = "closed"]
  PROVE  ServeInv'
<1>0. ConnType /\ LisType
  BY DEF ServeType
<1>1. \A d \in Conns : conn'[d] = IF d = c THEN to ELSE conn[d]
  BY <1>0 DEF ConnType, ConnAt
<1>2. conn[c] = from /\ at[c] \in Servers
  BY <1>0 DEF ConnAt, ConnType, ServeInv, ConnFits
<1>6. PICK s \in Servers : s = at[c]
  BY <1>2
<1>7. /\ \A t \in Servers : t # s => lis'[t] = lis[t]
      /\ lis'[s] = lis[s] \/ (to = "closed" /\ scheme[s] = "stdio")
  BY <1>0, <1>6 DEF LisType
<1>3. ASSUME NEW t \in Servers PROVE ServerFits(t)'
  <2>0. Untouched(t) /\ OverUnix(t) /\ NotServing(t) /\ Stopping(t) /\ Queued(t)
    BY DEF ServeInv, ServerFits
  <2>1. Untouched(t)'
    BY <2>0, <1>6, <1>7 DEF Untouched
  <2>2. OverUnix(t)' /\ Queued(t)'
    BY <2>0 DEF OverUnix, Queued
  <2>3. NotServing(t)'
    BY <2>0, <1>1, <1>2 DEF NotServing, InUse
  <2>4. Stopping(t)'
    BY <2>0, <1>1, <1>2 DEF Stopping
  <2> QED
    BY <2>1, <2>2, <2>3, <2>4 DEF ServerFits
<1>4. ASSUME NEW t \in Servers PROVE ListenerFits(t)'
  <2>0. ListenerFits(t) /\ (Quit(t)' <=> Quit(t))
    BY QuitSame DEF ServeInv
  <2>1. CASE lis'[t] = lis[t]
    BY <2>0, <2>1, <1>1, <1>2 DEF ListenerFits
  <2>2. CASE t = s /\ to = "closed" /\ scheme[s] = "stdio"
    <3>1. \A d \in Conns : at[d] = s => d = c
      BY <2>0, <2>2, <1>6 DEF ListenerFits
    <3> QED
      BY <2>0, <2>2, <3>1, <1>1 DEF ListenerFits
  <2> QED
    BY <2>1, <2>2, <1>7
<1>5. ASSUME NEW d \in Conns PROVE ConnFits(d)'
  BY <1>1, <1>2 DEF ServeInv, ConnFits
<1> QED
  BY <1>3, <1>4, <1>5 DEF ServeInv

LEMMA DiesFits ==
  ASSUME ServeType, ServeInv, NEW s \in Servers, Dies(s), UNCHANGED <<scheme, path, at, stop>>
  PROVE  ServeInv'
<1>0. RunType /\ ConnType /\ LisType
  BY DEF ServeType
<1>1. \A d \in Conns : conn'[d] = IF at[d] = s THEN "closed" ELSE conn[d]
  BY DEF Dies
<1>2. \A t \in Servers : t # s => stage'[t] = stage[t] /\ lis'[t] = lis[t] /\ queue'[t] = queue[t]
  BY <1>0 DEF Dies, RunType, LisType
<1>3. stage'[s] = "dead" /\ queue'[s] = <<>>
  BY <1>0 DEF Dies, RunType, LisType
<1>4. ASSUME NEW t \in Servers PROVE ServerFits(t)'
  <2>0. Untouched(t) /\ OverUnix(t) /\ NotServing(t) /\ Stopping(t) /\ Queued(t)
    BY DEF ServeInv, ServerFits
  <2>1. Untouched(t)' /\ OverUnix(t)' /\ NotServing(t)'
    BY <2>0, <1>1, <1>2, <1>3 DEF Untouched, OverUnix, NotServing, InUse
  <2>2. Stopping(t)'
    BY <2>0, <1>1, <1>2, <1>3 DEF Stopping
  <2>3. Queued(t)'
    <3>1. CASE t = s
      <4>1. DOMAIN queue'[t] = {}
        BY <1>3, <3>1
      <4> QED
        BY <4>1 DEF Queued
    <3>2. CASE t # s
      BY <2>0, <1>2, <3>2 DEF Queued
    <3> QED
      BY <3>1, <3>2
  <2> QED
    BY <2>1, <2>2, <2>3 DEF ServerFits
<1>5. ASSUME NEW t \in Servers PROVE ListenerFits(t)'
  BY <1>1, <1>2, <1>3, QuitSame DEF ServeInv, ListenerFits
<1>6. ASSUME NEW d \in Conns PROVE ConnFits(d)'
  BY <1>1 DEF ServeInv, ConnFits
<1> QED
  BY <1>4, <1>5, <1>6 DEF ServeInv

(* The stages of a server that its listener and its connections allow.        *)
LEMMA StageFits ==
  ASSUME ServeType, ServeInv, NEW s \in Servers, NEW from, NEW to, StageAt(s, from, to),
         UNCHANGED <<scheme, lis, queue, conn, at, stop>>, to \notin {"idle", "binding", "listening", "accept"},
         path' \in {path, None},
         to = "returned" => \A c \in Conns : at[c] = s => conn[c] \notin InUse
  PROVE  ServeInv'
<1>0. RunType
  BY DEF ServeType
<1>1. \A t \in Servers : stage'[t] = IF t = s THEN to ELSE stage[t]
  BY <1>0 DEF RunType, StageAt
<1>2. ASSUME NEW t \in Servers PROVE ServerFits(t)'
  BY <1>1 DEF ServeInv, ServerFits, Untouched, OverUnix, NotServing, Stopping, Queued
<1>3. ASSUME NEW t \in Servers PROVE ListenerFits(t)'
  BY <1>1, QuitSame DEF ServeInv, ListenerFits
<1> QED
  BY <1>2, <1>3 DEF ServeInv, ConnFits

(* Closing a listener when the server is being stopped.                       *)
LEMMA CloseListenerFits ==
  ASSUME ServeType, ServeInv, NEW s \in Servers,
         CloseListener(s) \/ UNCHANGED <<lis, queue, path, conn>>, UNCHANGED <<scheme, at>>,
         stage[s] \notin {"idle", "binding"} \/ UNCHANGED <<lis, queue, path, conn>>,
         \A t \in Servers : t # s => stage'[t] = stage[t],
         stage'[s] = stage[s] \/ (stage[s] = "listening" /\ stage'[s] = "returned"),
         \A t \in Servers, k \in Kinds : stop'[t][k] \in {stop[t][k], "setup"},
         \A t \in Servers : Quit(t) => Quit(t)',
         Quit(s)' \/ UNCHANGED lis
  PROVE  ServeInv'
<1>0. RunType /\ LisType /\ ConnType
  BY DEF ServeType
<1>1. \A d \in Conns : conn'[d] = conn[d] \/ (conn[d] = "queued" /\ conn'[d] = "closed")
  BY <1>0 DEF ConnType, CloseListener, ConnsAt
<1>2. \A t \in Servers : queue'[t] = queue[t] \/ DOMAIN queue'[t] = {}
  <2>1. \A t \in Servers : queue'[t] = queue[t] \/ queue'[t] = <<>>
    BY <1>0 DEF LisType, CloseListener
  <2> QED
    BY <2>1
<1>3. path' \in {path, None} /\ \A t \in Servers : t # s => lis'[t] = lis[t]
  BY <1>0 DEF LisType, CloseListener
<1>4. ASSUME NEW t \in Servers PROVE ServerFits(t)'
  <2>0. Untouched(t) /\ OverUnix(t) /\ NotServing(t) /\ Stopping(t) /\ Queued(t)
    BY DEF ServeInv, ServerFits
  <2>1. Untouched(t)' /\ OverUnix(t)'
    BY <2>0, <1>3 DEF Untouched, OverUnix
  <2>2. NotServing(t)'
    BY <2>0, <1>1 DEF NotServing, InUse
  <2>3. Stopping(t)'
    BY <2>0, <1>1 DEF Stopping
  <2>4. Queued(t)'
    BY <2>0, <1>2 DEF Queued
  <2> QED
    BY <2>1, <2>2, <2>3, <2>4 DEF ServerFits
<1>5. ASSUME NEW t \in Servers PROVE ListenerFits(t)'
  BY <1>1, <1>3 DEF ServeInv, ListenerFits
<1>6. ASSUME NEW d \in Conns PROVE ConnFits(d)'
  BY <1>1 DEF ServeInv, ConnFits
<1> QED
  BY <1>4, <1>5, <1>6 DEF ServeInv

(* New connections, and listeners that open.                                  *)
LEMMA ListenFits ==
  ASSUME ServeType, ServeInv, NEW s \in Servers, RemoveStale(s) \/ Bind(s) \/ ListenStdio(s)
  PROVE  ServeInv'
<1>0. RunType /\ LisType /\ ConnType
  BY DEF ServeType
<1>1. /\ stage[s] \in {"idle", "binding"} /\ stage'[s] \in {"binding", "listening"} /\ UNCHANGED <<scheme, stop>>
      /\ \A t \in Servers : t # s => stage'[t] = stage[t] /\ lis'[t] = lis[t]
      /\ stage'[s] = "binding" => lis'[s] = lis[s] /\ scheme[s] = "unix"
      /\ stage'[s] = "listening" => lis'[s] = "open"
      /\ path' \in {path, None} \/ (path' = s /\ stage[s] = "binding")
  BY <1>0 DEF RunType, LisType, RemoveStale, Bind, ListenStdio, StageAt, stopVars
<1>2. \A c \in Conns : at[c] # s
  BY <1>1 DEF ServeInv, ServerFits, Untouched
<1>3. \/ UNCHANGED <<conn, at, queue>>
      \/ \E c \in Conns : /\ ConnAt(c, "idle", "queued") /\ at' = [at EXCEPT ![c] = s]
                          /\ queue' = [queue EXCEPT ![s] = <<c>>] /\ scheme[s] = "stdio"
                          /\ stage'[s] = "listening"
  BY <1>0 DEF RemoveStale, Bind, ListenStdio, connVars, Schemes, StageAt, RunType
<1>4. CASE UNCHANGED <<conn, at, queue>>
  <2>1. ASSUME NEW t \in Servers PROVE ServerFits(t)'
    BY <1>1, <1>2, <1>4, <2>1
       DEF ServeInv, ServerFits, Untouched, OverUnix, NotServing, Stopping, Queued
  <2>2. ASSUME NEW t \in Servers PROVE ListenerFits(t)'
    BY <1>1, <1>2, <1>4, QuitSame DEF ServeInv, ListenerFits
  <2> QED
    BY <1>4, <2>1, <2>2 DEF ServeInv, ConnFits
<1>5. ASSUME NEW c \in Conns, ConnAt(c, "idle", "queued"), at' = [at EXCEPT ![c] = s],
             queue' = [queue EXCEPT ![s] = <<c>>], scheme[s] = "stdio", stage'[s] = "listening"
      PROVE  ServeInv'
  <2>1. /\ conn'[c] = "queued" /\ at'[c] = s /\ at[c] = None
        /\ \A d \in Conns : d # c => conn'[d] = conn[d] /\ at'[d] = at[d]
    BY <1>0, <1>5 DEF ConnType, ConnAt, ServeInv, ConnFits
  <2>2. /\ \A t \in Servers : t # s => queue'[t] = queue[t]
        /\ \A i \in DOMAIN queue'[s] : queue'[s][i] = c
    BY <1>0, <1>5 DEF LisType
  <2>3. ASSUME NEW t \in Servers PROVE ServerFits(t)'
    <3>0. Untouched(t) /\ OverUnix(t) /\ NotServing(t) /\ Stopping(t) /\ Queued(t)
      BY DEF ServeInv, ServerFits
    <3>1. Untouched(t)' /\ OverUnix(t)' /\ NotServing(t)'
      BY <3>0, <1>1, <1>2, <1>5, <2>1 DEF Untouched, OverUnix, NotServing, InUse
    <3>2. Stopping(t)'
      BY <3>0, <1>1, <2>1 DEF Stopping
    <3>3. Queued(t)'
      <4>1. CASE t = s
        BY <2>1, <2>2, <4>1 DEF Queued
      <4>2. CASE t # s
        <5>1. \A i \in DOMAIN queue[t] : queue[t][i] # c
          BY <3>0, <2>1 DEF Queued
        <5>2. \A i \in DOMAIN queue[t] : queue[t][i] \in Conns
          BY <1>0 DEF LisType
        <5> QED
          BY <3>0, <2>1, <2>2, <4>2, <5>1, <5>2 DEF Queued
      <4> QED
        BY <4>1, <4>2
    <3> QED
      BY <3>1, <3>2, <3>3 DEF ServerFits
  <2>4. ASSUME NEW t \in Servers PROVE ListenerFits(t)'
    BY <1>1, <1>2, <2>1, QuitSame DEF ServeInv, ListenerFits
  <2>5. ASSUME NEW d \in Conns PROVE ConnFits(d)'
    BY <2>1 DEF ServeInv, ConnFits
  <2> QED
    BY <2>3, <2>4, <2>5 DEF ServeInv
<1> QED
  BY <1>3, <1>4, <1>5

LEMMA ConnectFits ==
  ASSUME ServeType, ServeInv, NEW c \in Conns, Connect(c)
  PROVE  ServeInv'
<1>0. RunType /\ LisType /\ ConnType
  BY DEF ServeType
<1>1. PICK s \in Servers :
        /\ lis[s] = "open" /\ at' = [at EXCEPT ![c] = s] /\ (scheme[s] = "ws" \/ path = s)
        /\ UNCHANGED <<scheme, stage, lis, path, stop>>
        /\ conn[c] = "idle" /\ \E to \in {"upgraded", "queued"} : conn' = [conn EXCEPT ![c] = to]
        /\ UNCHANGED queue \/ queue' = [queue EXCEPT ![s] = Append(@, c)]
  BY DEF Connect, ConnAt, runVars, stopVars
<1>2. /\ stage[s] \notin {"idle", "binding"} /\ scheme[s] # "stdio" /\ at[c] = None
  BY <1>1 DEF ServeInv, ServerFits, Untouched, OverUnix, ConnFits
<1>3. /\ conn'[c] \in {"upgraded", "queued"} /\ at'[c] = s
      /\ \A d \in Conns : d # c => conn'[d] = conn[d] /\ at'[d] = at[d]
  BY <1>0, <1>1 DEF ConnType
<1>4. \A t \in Servers : \A i \in DOMAIN queue[t] : queue[t][i] \in Conns /\ queue[t][i] # c
  BY <1>0, <1>2 DEF LisType, ServeInv, ServerFits, Queued
<1>5. ASSUME NEW t \in Servers PROVE ServerFits(t)'
  <2>0. Untouched(t) /\ OverUnix(t) /\ NotServing(t) /\ Stopping(t) /\ Queued(t)
    BY DEF ServeInv, ServerFits
  <2>1. Untouched(t)' /\ OverUnix(t)'
    BY <2>0, <1>1, <1>2, <1>3 DEF Untouched, OverUnix
  <2>2. NotServing(t)'
    BY <2>0, <1>1, <1>3 DEF NotServing, InUse
  <2>3. Stopping(t)'
    BY <2>0, <1>1, <1>3 DEF Stopping
  <2>4. Queued(t)'
    <3>1. CASE queue'[t] = queue[t]
      BY <2>0, <1>3, <1>4, <3>1 DEF Queued
    <3>2. CASE t = s /\ queue'[t] = Append(queue[t], c)
      <4>1. \A i \in DOMAIN queue'[t] : \/ i \in DOMAIN queue[t] /\ queue'[t][i] = queue[t][i]
                                        \/ queue'[t][i] = c
        <5>1. queue[t] \in Seq(Conns)
          BY <1>0 DEF LisType
        <5> QED
          BY <3>2, <5>1
      <4> QED
        BY <2>0, <1>3, <1>4, <3>2, <4>1 DEF Queued
    <3> QED
      BY <1>0, <1>1, <3>1, <3>2 DEF LisType
  <2> QED
    BY <2>1, <2>2, <2>3, <2>4 DEF ServerFits
<1>6. ASSUME NEW t \in Servers PROVE ListenerFits(t)'
  <2>0. ListenerFits(t) /\ (Quit(t)' <=> Quit(t))
    BY <1>1, QuitSame DEF ServeInv
  <2>1. CASE t = s
    BY <1>1, <1>2, <2>0, <2>1 DEF ListenerFits
  <2>2. CASE t # s
    BY <1>1, <1>3, <2>0, <2>2 DEF ListenerFits
  <2> QED
    BY <2>1, <2>2
<1>7. ASSUME NEW d \in Conns PROVE ConnFits(d)'
  BY <1>3 DEF ServeInv, ConnFits
<1> QED
  BY <1>5, <1>6, <1>7 DEF ServeInv

(* A connection enters the queue of its server, or leaves it for Accept.       *)
LEMMA QueueFits ==
  ASSUME ServeType, ServeInv,
         (\E c \in Conns : Enqueue(c)) \/ (\E s \in Servers : Accept(s))
  PROVE  ServeInv'
<1>0. RunType /\ LisType /\ ConnType
  BY DEF ServeType
<1>1. PICK c \in Conns, s \in Servers :
        /\ at[c] = s /\ UNCHANGED <<scheme, stage, lis, path, at, stop>>
        /\ \/ /\ ConnAt(c, "upgraded", "queued")
              /\ queue' = [queue EXCEPT ![s] = Append(@, c)]
           \/ /\ ConnAt(c, "queued", "accepted") /\ stage[s] = "accept"
              /\ queue[s] # <<>> /\ queue' = [queue EXCEPT ![s] = Tail(@)]
  <2>1. ASSUME NEW c \in Conns, Enqueue(c)
        PROVE  at[c] \in Servers
    BY <1>0, <2>1 DEF Enqueue, ConnAt, ServeInv, ConnFits, ConnType
  <2>2. ASSUME NEW s \in Servers, Accept(s)
        PROVE  Head(queue[s]) \in Conns /\ at[Head(queue[s])] = s
    <3>1. queue[s] \in Seq(Conns) /\ queue[s] # <<>>
      BY <1>0, <2>2 DEF LisType, Accept
    <3>2. 1 \in DOMAIN queue[s] /\ Head(queue[s]) = queue[s][1] /\ queue[s][1] \in Conns
      BY <3>1
    <3> QED
      BY <3>2 DEF ServeInv, ServerFits, Queued
  <2> QED
    BY <2>1, <2>2 DEF Enqueue, Accept, runVars, stopVars
<1>2. /\ conn'[c] \in {"queued", "accepted"} /\ conn[c] \notin {"idle", "closed"}
      /\ conn'[c] = "accepted" => stage[s] = "accept"
      /\ \A d \in Conns : d # c => conn'[d] = conn[d]
  BY <1>0, <1>1 DEF ConnType, ConnAt
<1>3. ASSUME NEW t \in Servers PROVE ServerFits(t)'
  <2>0. Untouched(t) /\ OverUnix(t) /\ NotServing(t) /\ Stopping(t) /\ Queued(t)
    BY DEF ServeInv, ServerFits
  <2>1. Untouched(t)' /\ OverUnix(t)'
    BY <2>0, <1>1 DEF Untouched, OverUnix
  <2>2. NotServing(t)'
    BY <2>0, <1>1, <1>2 DEF NotServing, InUse
  <2>3. Stopping(t)'
    BY <2>0, <1>1, <1>2 DEF Stopping
  <2>4. Queued(t)'
    <3>1. CASE queue'[t] = queue[t]
      BY <2>0, <1>1, <3>1 DEF Queued
    <3>2. CASE t = s
      <4>1. queue[s] \in Seq(Conns) /\ (queue'[s] = Append(queue[s], c)
                                        \/ (queue[s] # <<>> /\ queue'[s] = Tail(queue[s])))
        BY <1>0, <1>1 DEF LisType
      <4>2. \A i \in DOMAIN queue'[s] : \/ queue'[s][i] = c
                                        \/ \E j \in DOMAIN queue[s] : queue'[s][i] = queue[s][j]
        <5>1. CASE queue'[s] = Append(queue[s], c)
          BY <4>1, <5>1
        <5>2. CASE queue[s] # <<>> /\ queue'[s] = Tail(queue[s])
          <6>1. \A i \in DOMAIN queue'[s] : i + 1 \in DOMAIN queue[s] /\ queue'[s][i] = queue[s][i + 1]
            BY <4>1, <5>2
          <6> QED
            BY <6>1
        <5> QED
          BY <4>1, <5>1, <5>2
      <4> QED
        BY <1>1, <2>0, <3>2, <4>2 DEF Queued
    <3> QED
      BY <1>0, <1>1, <3>1, <3>2 DEF LisType
  <2> QED
    BY <2>1, <2>2, <2>3, <2>4 DEF ServerFits
<1>4. ASSUME NEW t \in Servers PROVE ListenerFits(t)'
  BY <1>1, <1>2, QuitSame DEF ServeInv, ListenerFits
<1>5. ASSUME NEW d \in Conns PROVE ConnFits(d)'
  BY <1>1, <1>2 DEF ServeInv, ConnFits
<1> QED
  BY <1>3, <1>4, <1>5 DEF ServeInv

LEMMA StopFits ==
  ASSUME ServeType, ServeInv, NEW s \in Servers, NEW k \in Kinds, StopConns(s, k) \/ StopEnds(s, k)
  PROVE  ServeInv'
<1>0. StopType
  BY DEF ServeType
<1>1. /\ UNCHANGED <<scheme, stage, lis, queue, path, conn, at>>
      /\ \E v \in {"conns", "done"} :
           /\ stop' = [stop EXCEPT ![s][k] = v]
           /\ v = "conns" => /\ stop[s][k] = "setup" /\ stage[s] # "accept"
                             /\ \A c \in Conns : at[c] = s => conn[c] \notin {"accepted", "handshake"}
           /\ v = "done" => /\ stop[s][k] = "conns"
                            /\ \A c \in Conns : at[c] = s => conn[c] # "served"
  BY DEF StopConns, StopEnds, ConnsAt, runVars, lisVars, connVars
<1>2. PICK v \in {"conns", "done"} :
        /\ stop' = [stop EXCEPT ![s][k] = v]
        /\ v = "conns" => /\ stop[s][k] = "setup" /\ stage[s] # "accept"
                          /\ \A c \in Conns : at[c] = s => conn[c] \notin {"accepted", "handshake"}
        /\ v = "done" => /\ stop[s][k] = "conns"
                         /\ \A c \in Conns : at[c] = s => conn[c] # "served"
  BY <1>1
<1>3. \A t \in Servers, l \in Kinds : stop'[t][l] = IF t = s /\ l = k THEN v ELSE stop[t][l]
  <2>1. stop'[s] = [stop[s] EXCEPT ![k] = v] /\ \A t \in Servers : t # s => stop'[t] = stop[t]
    BY <1>0, <1>2 DEF StopType
  <2>2. stop[s] \in [Kinds -> {"off", "setup", "conns", "done"}]
    BY <1>0 DEF StopType
  <2> QED
    BY <2>1, <2>2
<1>4. ASSUME NEW t \in Servers PROVE ServerFits(t)'
  <2>0. Untouched(t) /\ OverUnix(t) /\ NotServing(t) /\ Stopping(t) /\ Queued(t)
    BY DEF ServeInv, ServerFits
  <2>1. Untouched(t)' /\ OverUnix(t)' /\ NotServing(t)' /\ Queued(t)'
    BY <2>0, <1>1 DEF Untouched, OverUnix, NotServing, Queued
  <2>2. Stopping(t)'
    BY <2>0, <1>1, <1>2, <1>3 DEF Stopping
  <2> QED
    BY <2>1, <2>2 DEF ServerFits
<1>5. ASSUME NEW t \in Servers PROVE ListenerFits(t)'
  <2>1. Quit(t) => Quit(t)'
    BY <1>3 DEF Quit
  <2> QED
    BY <1>1, <2>1 DEF ServeInv, ListenerFits
<1> QED
  BY <1>1, <1>4, <1>5 DEF ServeInv, ConnFits

LEMMA ServingFits ==
  ASSUME ServeType, ServeInv, Serving \/ \E s \in Servers : ListenStdio(s)
  PROVE  ServeInv'
<1>0. RunType /\ LisType /\ ConnType /\ StopType
  BY DEF ServeType
<1>1. ASSUME NEW s \in Servers, RemoveStale(s) \/ Bind(s) \/ ListenStdio(s) PROVE ServeInv'
  BY <1>1, ListenFits
<1>2. ASSUME NEW s \in Servers, RemoveFails(s) \/ BindFails(s) PROVE ServeInv'
  <2>1. \A c \in Conns : at[c] # s
    BY <1>2 DEF RemoveFails, BindFails, StageAt, ServeInv, ServerFits, Untouched
  <2> QED
    BY <1>2, <2>1, StageFits DEF RemoveFails, BindFails, lisVars, connVars, stopVars
<1>3. ASSUME NEW s \in Servers, AcceptFails(s) \/ ServeReturns(s) PROVE ServeInv'
  <2>1. CASE AcceptFails(s) /\ StageAt(s, "accept", "waiting")
    BY <2>1, StageFits DEF AcceptFails, lisVars, connVars, stopVars
  <2>2. CASE AcceptFails(s) /\ ~Quit(s) /\ StageAt(s, "accept", "returned")
    <3>1. \A c \in Conns : at[c] = s => conn[c] = "closed"
      BY <2>2 DEF AcceptFails, StageAt, ServeInv, ListenerFits
    <3> QED
      BY <2>2, <3>1, StageFits DEF AcceptFails, lisVars, connVars, stopVars, InUse
  <2>3. CASE ServeReturns(s)
    <3>1. \A c \in Conns : at[c] = s => conn[c] \notin InUse
      BY <2>3 DEF ServeReturns, Done, ServeInv, ServerFits, Stopping, InUse
    <3> QED
      BY <2>3, <3>1, StageFits DEF ServeReturns, lisVars, connVars, stopVars
  <2> QED
    BY <1>3, <2>1, <2>2, <2>3 DEF AcceptFails
<1>4. ASSUME NEW c \in Conns, Connect(c) PROVE ServeInv'
  BY <1>4, ConnectFits
<1>5. ASSUME NEW c \in Conns, Leave(c) PROVE ServeInv'
  BY <1>5, FitsSame DEF Leave, fitsVars, runVars, lisVars, stopVars
<1>6. ASSUME NEW c \in Conns, RefuseUpgrade(c) \/ Handshake(c) PROVE ServeInv'
  <2>1. "closed" \in ConnStates /\ "served" \in ConnStates
    BY DEF ConnStates
  <2>2. CASE RefuseUpgrade(c)
    BY <2>1, <2>2, MovesFit DEF RefuseUpgrade, runVars, lisVars, stopVars
  <2>3. CASE Handshake(c)
    BY <2>1, <2>3, MovesFit DEF Handshake, runVars, lisVars, stopVars
  <2> QED
    BY <1>6, <2>2, <2>3
<1>7. ASSUME NEW c \in Conns, SetUp(c) \/ HandshakeFails(c) \/ ReadEnds(c) PROVE ServeInv'
  <2>1. "closed" \in ConnStates /\ "handshake" \in ConnStates
    BY DEF ConnStates
  <2>2. UNCHANGED <<scheme, stage, queue, path, at, stop>>
    BY <1>7 DEF SetUp, HandshakeFails, ReadEnds, runVars, stopVars
  <2>3. ASSUME NEW from \in {"accepted", "handshake", "served"}, CloseConn(c, from) PROVE ServeInv'
    <3>1. ConnAt(c, from, "closed") /\ (UNCHANGED lis \/ (scheme[at[c]] = "stdio" /\ lis' = [lis EXCEPT ![at[c]] = "closed"]))
      BY <2>3 DEF CloseConn
    <3> QED
      BY <2>1, <2>2, <3>1, MovesFit
  <2>4. CASE ConnAt(c, "accepted", "handshake") /\ UNCHANGED lis
    BY <2>1, <2>2, <2>4, MovesFit
  <2> QED
    BY <1>7, <2>3, <2>4 DEF SetUp, HandshakeFails, ReadEnds
<1>8. ASSUME NEW s \in Servers, StartServe(s) PROVE ServeInv'
  <2>1. UNCHANGED <<scheme, at, stop>> /\ stage[s] = "listening" /\ \A t \in Servers : t # s => stage'[t] = stage[t]
    BY <1>0, <1>8 DEF StartServe, StageAt, stopVars, RunType
  <2>2. CASE Quit(s) /\ StageAt(s, "listening", "returned") /\ CloseListener(s)
    <3>1. stage'[s] = "returned" /\ Quit(s)' /\ \A t \in Servers : Quit(t) => Quit(t)'
      BY <1>0, <2>1, <2>2, QuitSame DEF StageAt, RunType
    <3> QED
      BY <2>1, <2>2, <3>1, CloseListenerFits
  <2>3. CASE ~Quit(s) /\ StageAt(s, "listening", "accept") /\ UNCHANGED <<result, lisVars, conn>>
    <3>1. stage'[s] = "accept"
      BY <1>0, <2>3 DEF StageAt, RunType
    <3>2. \A k \in Kinds : stop[s][k] = "off"
      BY <2>3 DEF Quit
    <3>3. ASSUME NEW t \in Servers PROVE ServerFits(t)'
      BY <2>1, <2>3, <3>1, <3>2 DEF lisVars, ServeInv, ServerFits, Untouched, OverUnix, NotServing,
         Stopping, Queued
    <3>4. ASSUME NEW t \in Servers PROVE ListenerFits(t)'
      BY <2>1, <2>3, <3>1, QuitSame DEF lisVars, ServeInv, ListenerFits
    <3> QED
      BY <2>1, <2>3, <3>3, <3>4 DEF ServeInv, ConnFits
  <2> QED
    BY <1>8, <2>2, <2>3 DEF StartServe
<1>9. ASSUME (\E c \in Conns : Enqueue(c)) \/ \E s \in Servers : Accept(s) PROVE ServeInv'
  BY <1>9, QueueFits
<1>10. ASSUME NEW s \in Servers, SendSignal(s) PROVE ServeInv'
  BY <1>10, FitsSame DEF SendSignal, fitsVars, runVars, lisVars, connVars
<1>11. ASSUME NEW s \in Servers, TakeSignal(s) \/ ForceStop(s) PROVE ServeInv'
  <2>1. PICK k \in Kinds : BeginStop(s, k)
    BY <1>11 DEF TakeSignal, ForceStop, Kinds
  <2>2. stop' = [stop EXCEPT ![s][k] = "setup"] /\ stop[s][k] = "off" /\ UNCHANGED <<scheme, stage, at>>
    BY <2>1 DEF BeginStop, runVars
  <2>3. \A t \in Servers, l \in Kinds :
          stop'[t][l] = IF t = s /\ l = k THEN "setup" ELSE stop[t][l]
    <3>1. stop'[s] = [stop[s] EXCEPT ![k] = "setup"] /\ \A t \in Servers : t # s => stop'[t] = stop[t]
      BY <1>0, <2>2 DEF StopType
    <3>2. stop[s] \in [Kinds -> {"off", "setup", "conns", "done"}]
      BY <1>0 DEF StopType
    <3> QED
      BY <3>1, <3>2
  <2>4. Quit(s)' /\ \A t \in Servers : Quit(t) => Quit(t)'
    BY <2>3 DEF Quit
  <2>5. \/ CloseListener(s) /\ stage[s] = "accept"
        \/ UNCHANGED <<lis, queue, path, conn>>
    BY <2>1 DEF BeginStop, lisVars
  <2> QED
    BY <2>2, <2>3, <2>4, <2>5, CloseListenerFits
<1>12. ASSUME NEW s \in Servers, NEW k \in Kinds, StopConns(s, k) \/ StopEnds(s, k) PROVE ServeInv'
  BY <1>12, StopFits
<1>13. ASSUME NEW s \in Servers, Crash(s) PROVE ServeInv'
  BY <1>13, DiesFits DEF Crash, stopVars
<1> QED
  BY <1>1, <1>2, <1>3, <1>4, <1>5, <1>6, <1>7, <1>8, <1>9, <1>10, <1>11, <1>12, <1>13
     DEF Serving, ListenStep, RunStep, StopStep, UpgradeStep, ConnStep

-----------------------------------------------------------------------------
(* The parent and its child.                                                *)

LEMMA OneChild == ASSUME ServeType, NEW s \in Servers, NEW t \in Servers, Stdio(s), Stdio(t)
                  PROVE  s = t
BY DEF ServeType, RunType, Stdio

(* What the servers do by themselves leaves the parent's pipes alone.          *)
LEMMA PipesKept ==
  ASSUME ServeType, ServeInv, Serving
  PROVE  /\ UNCHANGED scheme /\ left \subseteq left'
         /\ \A s \in Servers, c \in Conns : Stdio(s) => (at'[c] = s <=> at[c] = s)
<1>1. CASE UNCHANGED <<scheme, at>> /\ left \subseteq left'
  BY <1>1
<1>2. ASSUME NEW c \in Conns, Connect(c)
      PROVE  /\ UNCHANGED <<scheme, left>>
             /\ \A s \in Servers, d \in Conns : Stdio(s) => (at'[d] = s <=> at[d] = s)
  <2>1. PICK s \in Servers :
          /\ at' = [at EXCEPT ![c] = s] /\ conn[c] = "idle"
          /\ scheme[s] = "ws" \/ path = s
          /\ UNCHANGED <<scheme, left>>
    BY <1>2 DEF Connect, ConnAt
  <2>2. scheme[s] # "stdio" /\ at[c] = None
    BY <2>1 DEF ServeInv, ServerFits, OverUnix, ConnFits
  <2>3. \A d \in Conns : d # c => at'[d] = at[d]
    BY <2>1 DEF ServeType, ConnType
  <2>4. at'[c] = s
    BY <2>1 DEF ServeType, ConnType
  <2> QED
    BY <1>2, <2>2, <2>3, <2>4 DEF Connect, Stdio
<1>3. ASSUME NEW s \in Servers, RemoveStale(s) \/ RemoveFails(s) \/ Bind(s) \/ BindFails(s) \/ RunStep(s) \/ Crash(s)
      PROVE  UNCHANGED <<scheme, at, left>>
  BY <1>3 DEF RemoveStale, RemoveFails, Bind, BindFails, RunStep, StartServe, Accept, AcceptFails, ServeReturns,
     Crash, connVars
<1>4. ASSUME NEW s \in Servers, SendSignal(s) \/ StopStep(s) PROVE UNCHANGED <<scheme, at, left>>
  BY <1>4 DEF SendSignal, StopStep, TakeSignal, ForceStop, BeginStop, StopConns, StopEnds, connVars
<1>5. ASSUME NEW c \in Conns, UpgradeStep(c) \/ ConnStep(c) \/ Handshake(c) \/ Leave(c)
      PROVE  UNCHANGED <<scheme, at>> /\ left \subseteq left'
  BY <1>5 DEF UpgradeStep, Enqueue, RefuseUpgrade, ConnStep, SetUp, HandshakeFails, ReadEnds,
     Handshake, Leave
<1>6. ASSUME NEW s \in Servers, ~Stdio(s), ListenStdio(s) PROVE FALSE
  BY <1>6 DEF ListenStdio, Stdio
<1> QED
  BY <1>1, <1>2, <1>3, <1>4, <1>5, <1>6 DEF Serving, ListenStep

LEMMA KillFits ==
  ASSUME ServeType, ServeInv, NEW s \in Servers,
         Kill(s) \/ UNCHANGED <<stage, lis, queue, conn>>,
         UNCHANGED <<scheme, result, path, at, cut, stopVars, crashes>>, left' \subseteq Conns
  PROVE  ServeType' /\ ServeInv'
<1>0. RunType /\ LisType /\ ConnType /\ StopType
  BY DEF ServeType
<1>1. StopType'
  BY <1>0, TypeSame DEF stopVars
<1>2. CASE Dies(s)
  <2>1. crashes' \in 0..MaxCrashes
    BY <1>0 DEF RunType
  <2> QED
    BY <1>1, <1>2, <2>1, DiesType, DiesFits DEF ServeType, stopVars
<1>3. CASE UNCHANGED <<stage, lis, queue, conn>>
  <2>1. ConnType'
    BY <1>0, <1>3 DEF ConnType
  <2>2. UNCHANGED fitsVars
    BY <1>3 DEF fitsVars, stopVars
  <2> QED
    BY <1>0, <1>1, <1>3, <2>1, <2>2, TypeSame, FitsSame DEF ServeType
<1> QED
  BY <1>2, <1>3 DEF Kill

Parts == ServeType /\ DialType /\ ServeInv /\ NoChildLeft
         /\ (dial = "idle" => child = "none" /\ \A s \in Servers : Stdio(s) => Pipe(s) = {})

LEMMA InvParts == (DialInv <=> Parts) /\ (DialInv' <=> Parts')
BY TypeParts DEF DialInv, Parts

LEMMA ServingKeeps == Parts /\ Serving /\ UNCHANGED dialVars /\ Prints => Parts'
<1> SUFFICES ASSUME Parts, Serving, UNCHANGED dialVars, Prints PROVE Parts'
  OBVIOUS
<1>0. DialType'
  BY DEF Parts, DialType, dialVars, Prints
<1>1. ServeType' /\ ServeInv' /\ DialType'
  BY <1>0, ServeTypeStep, ServingFits DEF Parts
<1>2. /\ UNCHANGED scheme /\ left \subseteq left'
      /\ \A s \in Servers : Stdio(s) => Pipe(s)' = Pipe(s)
  BY PipesKept DEF Parts, Pipe
<1>3. NoChildLeft'
  BY <1>2 DEF Parts, NoChildLeft, Stdio, dialVars
<1> QED
  BY <1>1, <1>2, <1>3 DEF Parts, Stdio, dialVars

LEMMA StartKeeps == ASSUME Parts, NEW s \in Servers, StartChild(s) PROVE Parts'
<1>1. ServeType' /\ ServeInv'
  BY ServeTypeStep, ServingFits DEF Parts, StartChild
<1>2. DialType' /\ dial' = "byte"
  BY DEF Parts, DialType, StartChild, DialAt
<1> QED
  BY <1>1, <1>2 DEF Parts, NoChildLeft

(* DialStdio's own steps leave the servers alone.                             *)
LEMMA DialKeeps ==
  ASSUME Parts, UNCHANGED <<serveVars, child>>, DialType',
         dial' # "idle" \/ dial = "idle", dial' = "failed" => dial = "failed"
  PROVE  Parts'
<1>1. UNCHANGED fitsVars /\ UNCHANGED <<signal, result, crashes, left, cut>>
  BY DEF serveVars, fitsVars, runVars, lisVars, connVars, stopVars
<1>2. ServeType' /\ ServeInv'
  BY <1>1, FitsSame, TypeSame DEF Parts, ServeType, fitsVars
<1> QED
  BY <1>1, <1>2 DEF Parts, NoChildLeft, Stdio, Pipe, fitsVars

LEMMA KillKeeps ==
  ASSUME Parts, NEW s \in Servers,
         (\E from \in {"byte", "handshake", "retry"} : Fails(s, from))
           \/ CloseConnection(s) \/ ContextEnds(s) \/ HandshakeBreaks(s)
  PROVE  Parts'
<1>0. ConnType /\ DialType
  BY DEF Parts, ServeType
<1>1. left' \subseteq Conns
  BY <1>0 DEF ConnType, Fails, CloseConnection, ContextEnds, HandshakeBreaks, killAndWait, Pipe
<1>2. ServeType' /\ ServeInv'
  BY <1>1, KillFits DEF Parts, Fails, CloseConnection, ContextEnds, HandshakeBreaks, killAndWait, runVars, lisVars
<1>3. DialType' /\ dial' # "idle"
  BY <1>0 DEF DialType, Fails, CloseConnection, ContextEnds, HandshakeBreaks, killAndWait, DialAt
<1>4. NoChildLeft'
  <2>1. CASE \E from \in {"byte", "handshake", "retry"} : Fails(s, from)
    <3>1. /\ UNCHANGED <<scheme, at>> /\ child' = "reaped" /\ left' = left \cup Pipe(s) /\ Stdio(s)
      BY <2>1 DEF Fails, killAndWait
    <3>2. \A t \in Servers : Stdio(t)' => t = s
      BY <3>1, OneChild DEF Parts, Stdio
    <3> QED
      BY <3>1, <3>2 DEF NoChildLeft, Pipe
  <2>2. CASE CloseConnection(s)
    BY <2>2 DEF NoChildLeft, CloseConnection, DialAt
  <2>3. CASE ContextEnds(s)
    BY <2>3 DEF Parts, NoChildLeft, ContextEnds, Stdio, Pipe
  <2>4. CASE HandshakeBreaks(s)
    BY <2>4 DEF NoChildLeft, HandshakeBreaks, DialAt
  <2> QED
    BY <2>1, <2>2, <2>3, <2>4
<1> QED
  BY <1>2, <1>3, <1>4 DEF Parts

LEMMA InvNext == DialInv /\ [Next]_vars => DialInv'
<1> SUFFICES ASSUME Parts, [Next]_vars PROVE Parts'
  BY InvParts
<1>0. DialType
  BY DEF Parts
<1>1. CASE Serving /\ UNCHANGED dialVars /\ Prints
  BY <1>1, ServingKeeps
<1>2. ASSUME NEW s \in Servers, StartChild(s) PROVE Parts'
  BY <1>2, StartKeeps
<1>3. ASSUME NEW s \in Servers, ReaderEnds(s) \/ Connected(s) PROVE Parts'
  BY <1>0, <1>3, DialKeeps DEF DialType, ReaderEnds, Connected, DialAt
<1>4. CASE FirstByte
  BY <1>0, <1>4, DialKeeps DEF DialType, FirstByte, DialAt
<1>5. ASSUME NEW s \in Servers, CloseConnection(s) \/ ContextEnds(s) \/ HandshakeBreaks(s) PROVE Parts'
  BY <1>5, KillKeeps
<1>6. ASSUME NEW s \in Servers, StartFails(s) \/ StartTimesOut(s) \/ HandshakeTimesOut(s) PROVE Parts'
  BY <1>6, KillKeeps DEF StartFails, StartTimesOut, HandshakeTimesOut
<1>7. CASE UNCHANGED vars
  BY <1>0, <1>7, DialKeeps, TypeSame DEF vars, dialVars
<1> QED
  BY <1>1, <1>2, <1>3, <1>4, <1>5, <1>6, <1>7 DEF Next, DialStep

LEMMA InvInit == Init => DialInv
<1> SUFFICES ASSUME Init PROVE DialInv
  OBVIOUS
<1>1. TypeOK
  BY TypeInit
<1>2. ServeInv
  BY DEF Init, ServeInit, ServeInv, ServerFits, Untouched, OverUnix, NotServing, Stopping, Queued,
     ListenerFits, ConnFits, Kinds
<1>3. \A s \in Servers : Pipe(s) = {}
  BY DEF Init, ServeInit, Pipe
<1> QED
  BY <1>1, <1>2, <1>3 DEF DialInv, NoChildLeft, Init

-----------------------------------------------------------------------------
(* The theorems.                                                            *)

(* The servers, their listeners, their connections and the two ways to stop    *)
(* fit together in every state (serve.go, the listeners of pkg/transport).    *)
THEOREM DialCorrect == Spec => []DialInv
BY InvInit, InvNext, PTL DEF Spec

(* Every variable keeps to its values; a ws listener's queue to its capacity.  *)
THEOREM DialTypeCorrect == Spec => []TypeOK
<1>1. DialInv => TypeOK
  BY DEF DialInv
<1> QED
  BY <1>1, DialCorrect, PTL

(* RunWithOptions returns only when nothing is served or set up any more,      *)
(* whichever of the two ways to stop ended first (serve.go:76-90).            *)
THEOREM NothingServedCorrect == Spec => []NothingServedAfterReturn
<1>1. DialInv => NothingServedAfterReturn
  BY DEF DialInv, ServeInv, ServerFits, NotServing, NothingServedAfterReturn, ConnsAt, InUse
<1> QED
  BY <1>1, DialCorrect, PTL

(* A DialStdio that fails has reaped what it started, and closed the pipes     *)
(* (grpcclient/client.go:62-135).                                            *)
THEOREM NoChildCorrect == Spec => []NoChildLeft
<1>1. DialInv => NoChildLeft
  BY DEF DialInv
<1> QED
  BY <1>1, DialCorrect, PTL

-----------------------------------------------------------------------------
(* The unix path.                                                           *)

Ended(s) == stage[s] \in {"returned", "dead"}

(* What a step may do to a server, and to the path while it binds.            *)
Advances(s) ==
  /\ Ended(s) => stage'[s] = stage[s]
  /\ stage'[s] = "idle" => stage[s] = "idle" /\ result'[s] = result[s]
  /\ stage'[s] = "binding" => \/ path' = None
                              \/ stage[s] = "binding" /\ path' = path
                              \/ \E u \in Servers \ {s} : stage[u] = "binding"
  /\ result'[s] = "in use" => result[s] = "in use" \/ (stage[s] = "binding" /\ path # None)

LEMMA SameAdvances ==
  ASSUME UNCHANGED <<stage, result>>, path' = path \/ path' = None, NEW s \in Servers
  PROVE  Advances(s)
BY DEF Advances

LEMMA MovesAdvance ==
  ASSUME RunType, NEW r \in Servers, NEW from \in Stages \ {"returned", "dead"},
         NEW to \in Stages \ {"idle", "binding"}, StageAt(r, from, to),
         \/ UNCHANGED result
         \/ \E x \in Results \ {"in use"} : result' = [result EXCEPT ![r] = x],
         path' = path \/ path' = None, NEW s \in Servers
  PROVE  Advances(s)
BY DEF RunType, StageAt, Advances, Ended, Stages, Results

LEMMA DiesAdvance ==
  ASSUME RunType, NEW r \in Servers, Dies(r), UNCHANGED <<result, path>>, NEW s \in Servers
  PROVE  Advances(s)
BY DEF RunType, Dies, Alive, Advances, Ended, Stages

LEMMA NextAdvances ==
  ASSUME RunType, [Next]_vars, NEW s \in Servers
  PROVE  Advances(s)
<1>1. ASSUME NEW r \in Servers, RemoveStale(r) PROVE Advances(s)
  BY <1>1 DEF RunType, RemoveStale, StageAt, Advances, Ended
<1>2. ASSUME NEW r \in Servers, Bind(r) PROVE Advances(s)
  <2>1. UNCHANGED result
    BY <1>2 DEF Bind
  <2>2. CASE StageAt(r, "idle", "listening") /\ UNCHANGED path
    BY <2>1, <2>2, MovesAdvance DEF Stages
  <2>3. CASE StageAt(r, "binding", "listening")
    BY <2>1, <2>3 DEF RunType, StageAt, Advances, Ended
  <2> QED
    BY <1>2, <2>2, <2>3 DEF Bind
<1>3. ASSUME NEW r \in Servers, BindFails(r) PROVE Advances(s)
  BY <1>3 DEF RunType, BindFails, StageAt, lisVars, Advances, Ended
<1>4. ASSUME NEW r \in Servers, RemoveFails(r) \/ ListenStdio(r) PROVE Advances(s)
  <2>1. CASE RemoveFails(r)
    BY <2>1, MovesAdvance DEF RemoveFails, Stages, Results, lisVars
  <2>2. CASE ListenStdio(r)
    BY <2>2, MovesAdvance DEF ListenStdio, Stages
  <2> QED
    BY <1>4, <2>1, <2>2
<1>5. ASSUME NEW r \in Servers, RunStep(r) PROVE Advances(s)
  <2>1. CASE StartServe(r) /\ StageAt(r, "listening", "accept") /\ UNCHANGED <<result, path>>
    BY <2>1, MovesAdvance DEF Stages
  <2>2. CASE StartServe(r) /\ StageAt(r, "listening", "returned") /\ CloseListener(r)
             /\ result' = [result EXCEPT ![r] = "server stopped"]
    BY <2>2, MovesAdvance DEF Stages, Results, CloseListener
  <2>3. CASE Accept(r)
    BY <2>3, SameAdvances DEF Accept, runVars
  <2>4. CASE AcceptFails(r)
    BY <2>4, MovesAdvance DEF AcceptFails, Stages, Results, lisVars
  <2>5. CASE ServeReturns(r)
    BY <2>5, MovesAdvance DEF ServeReturns, Stages, Results, lisVars
  <2> QED
    BY <1>5, <2>1, <2>2, <2>3, <2>4, <2>5 DEF RunStep, StartServe, lisVars
<1>6. ASSUME NEW r \in Servers, SendSignal(r) \/ StopStep(r) PROVE Advances(s)
  <2>1. UNCHANGED <<stage, result>>
    BY <1>6 DEF SendSignal, StopStep, TakeSignal, ForceStop, BeginStop, StopConns, StopEnds, runVars
  <2>2. path' = path \/ path' = None
    BY <1>6 DEF SendSignal, StopStep, TakeSignal, ForceStop, BeginStop, StopConns, StopEnds,
       CloseListener, lisVars
  <2> QED
    BY <2>1, <2>2, SameAdvances
<1>7. ASSUME NEW r \in Servers, Crash(r) PROVE Advances(s)
  BY <1>7, DiesAdvance DEF Crash
<1>8. ASSUME NEW c \in Conns, \/ Connect(c) \/ UpgradeStep(c) \/ ConnStep(c)
                              \/ Handshake(c) \/ Leave(c)
      PROVE  Advances(s)
  <2>1. UNCHANGED <<stage, result, path>>
    BY <1>8 DEF Connect, UpgradeStep, Enqueue, RefuseUpgrade, ConnStep, SetUp, HandshakeFails,
       ReadEnds, Handshake, Leave, runVars, lisVars
  <2> QED
    BY <2>1, SameAdvances
<1>9. CASE Serving
  BY <1>1, <1>2, <1>3, <1>4, <1>5, <1>6, <1>7, <1>8, <1>9 DEF Serving, ListenStep
<1>10. ASSUME NEW r \in Servers, Kill(r), UNCHANGED <<result, path>> PROVE Advances(s)
  BY <1>10, DiesAdvance, SameAdvances DEF Kill
<1>11. ASSUME NEW r \in Servers, \/ StartFails(r) \/ StartTimesOut(r) \/ HandshakeTimesOut(r)
       PROVE  Advances(s)
  BY <1>10, <1>11 DEF StartFails, StartTimesOut, HandshakeTimesOut, Fails, killAndWait
<1>12. ASSUME NEW r \in Servers, CloseConnection(r) \/ ContextEnds(r) PROVE Advances(s)
  BY <1>10, <1>12, SameAdvances DEF CloseConnection, ContextEnds, killAndWait
<1>13. ASSUME NEW r \in Servers, ReaderEnds(r) \/ Connected(r) \/ HandshakeBreaks(r) PROVE Advances(s)
  BY <1>13, SameAdvances DEF ReaderEnds, Connected, HandshakeBreaks, serveVars, runVars, lisVars
<1>14. CASE FirstByte \/ UNCHANGED vars
  BY <1>14, SameAdvances DEF FirstByte, vars, serveVars, runVars, lisVars
<1> QED
  BY <1>4, <1>9, <1>11, <1>12, <1>13, <1>14 DEF Next, DialStep, StartChild

(* A server that is the only one left, and has removed what was at its path,    *)
(* finds nothing there (transport.go:42).                                    *)
Unhindered(s) ==
  /\ \A t \in Servers \ {s} : Ended(t)
  /\ stage[s] = "binding" => path = None
  /\ result[s] # "in use"

(* However the servers before it ended, one that starts alone gets its path     *)
(* (transport.go:42).                                                        *)
THEOREM PathCorrect == Spec => CrashesDoNotBlockPath
<1> DEFINE Fresh(s) == stage[s] = "idle" => result[s] # "in use"
           Starts(s) == stage[s] = "idle" /\ \A t \in Servers \ {s} : stage[t] \in {"returned", "dead"}
<1>1. ASSUME NEW s \in Servers
      PROVE  Spec => [](Starts(s) => [](result[s] # "in use"))
  <2>1. Init => Fresh(s)
    <3>1. None # "in use"
      BY DEF Results
    <3>2. Init => result[s] = None
      BY DEF Init, ServeInit
    <3> QED
      BY <3>1, <3>2
  <2>2. DialInv /\ Fresh(s) /\ [Next]_vars => Fresh(s)'
    BY NextAdvances, TypeParts DEF DialInv, ServeType, Advances
  <2>3. Fresh(s) /\ Starts(s) => Unhindered(s)
    BY DEF Unhindered, Ended
  <2>4. DialInv /\ Unhindered(s) /\ [Next]_vars => Unhindered(s)'
    <3> SUFFICES ASSUME DialInv, Unhindered(s), [Next]_vars PROVE Unhindered(s)'
      OBVIOUS
    <3>1. RunType
      BY TypeParts DEF DialInv, ServeType
    <3>2. \A t \in Servers : Advances(t)
      BY <3>1, NextAdvances
    <3>3. \A t \in Servers \ {s} : Ended(t)'
      BY <3>2 DEF Unhindered, Advances, Ended
    <3>4. \A u \in Servers \ {s} : stage[u] # "binding"
      BY DEF Unhindered, Ended
    <3> QED
      BY <3>2, <3>3, <3>4 DEF Unhindered, Advances
  <2>5. Unhindered(s) => result[s] # "in use"
    BY DEF Unhindered
  <2> HIDE DEF Fresh, Starts
  <2> QED
    BY <2>1, <2>2, <2>3, <2>4, <2>5, DialCorrect, PTL DEF Spec
<1>2. ASSUME NEW s \in Servers
      PROVE  Spec => []((stage[s] = "idle" /\ \A t \in Servers \ {s} : stage[t] \in {"returned", "dead"})
                          => [](result[s] # "in use"))
  BY <1>1
<1> QED
  BY <1>2 DEF CrashesDoNotBlockPath

-----------------------------------------------------------------------------
(* Liveness.  The provers know neither ENABLED nor that fairness, once        *)
(* assumed, holds from every state on: see Turns, below.                      *)

(* A listener is open as long as it is to be served, and what it accepts is    *)
(* its own; only ws connections are upgraded.  A server that waits for its end  *)
(* is being stopped.                                                         *)
OpenFits(s) ==
  /\ lis[s] = "open" => stage[s] \in {"listening", "accept"}
  /\ lis[s] = "none" => \A c \in Conns : at[c] # s
  /\ \A c \in Conns : at[c] = s /\ conn[c] = "upgraded" => scheme[s] = "ws"
  /\ stage[s] = "waiting" => Quit(s)

(* The child has its one connection, which its listener ends with.            *)
PipeFits(s) ==
  Stdio(s) => /\ stage[s] # "idle" => \E c \in Conns : at[c] = s
              /\ \A c \in Conns : at[c] = s =>
                   /\ conn[c] # "upgraded"
                   /\ conn[c] = "closed" => lis[s] = "closed"
                   /\ conn[c] = "queued" => queue[s] # <<>>
DialFits == /\ dial # "idle" => reader # "none" /\ \E s \in Servers : Stdio(s) /\ stage[s] # "idle"
            /\ ctx = "ended" => dial # "idle"
            /\ dial \in {"failed", "closed"} => \A s \in Servers : Stdio(s) => Pipe(s) \subseteq left
LiveInv == DialInv /\ DialFits /\ \A s \in Servers : OpenFits(s) /\ PipeFits(s)

(* How far either way to stop is from its end, and both are.                  *)
KindLeft(s, k) == CASE stop[s][k] = "off" -> 3 [] stop[s][k] = "setup" -> 2
                    [] stop[s][k] = "conns" -> 1 [] OTHER -> 0
StopLeft(s) == KindLeft(s, "graceful") + KindLeft(s, "forced")

(* What a step may do to a server and to a connection it has.                 *)
ServerMoves(s) ==
  /\ lis'[s] \in {lis[s], "closed"}
  /\ stage[s] \in {"listening", "accept"} /\ stage'[s] \notin {"listening", "accept"} => lis'[s] = "closed"
  /\ \A k \in Kinds : KindLeft(s, k)' \leq KindLeft(s, k)
  /\ \/ Ended(s)'
     \/ stage'[s] = stage[s]
     \/ stage[s] = "listening" /\ stage'[s] = "accept"
     \/ stage[s] = "accept" /\ stage'[s] = "waiting" /\ Quit(s)'
ConnMoves(s, c) ==
  /\ at'[c] = s /\ (c \in left => c \in left')
  /\ \/ Ended(s)' /\ conn'[c] = "closed" /\ lis'[s] = "closed"
     \/ conn'[c] = conn[c] /\ (conn[c] = "queued" /\ queue[s] # <<>> => queue'[s] # <<>>)
     \/ conn[c] = "queued" /\ conn'[c] = "accepted" /\ stage[s] = "accept"
     \/ conn[c] = "accepted" /\ conn'[c] = "handshake"
     \/ conn[c] = "handshake" /\ conn'[c] = "served" /\ c \notin left
     \/ conn[c] \in InUse /\ conn'[c] = "closed" /\ lis'[s] = "closed"

LEMMA StopsMove ==
  ASSUME StopType, StopType', NEW s \in Servers,
         \/ UNCHANGED stop
         \/ \E t \in Servers, k \in Kinds :
              \/ stop[t][k] = "off" /\ stop' = [stop EXCEPT ![t][k] = "setup"]
              \/ stop[t][k] = "setup" /\ stop' = [stop EXCEPT ![t][k] = "conns"]
              \/ stop[t][k] = "conns" /\ stop' = [stop EXCEPT ![t][k] = "done"]
  PROVE  \A k \in Kinds : KindLeft(s, k)' \leq KindLeft(s, k)
<1>1. CASE UNCHANGED stop
  BY <1>1 DEF KindLeft
<1>2. ASSUME NEW t \in Servers, NEW k \in Kinds, NEW from, NEW to, stop[t][k] = from,
             stop' = [stop EXCEPT ![t][k] = to],
             <<from, to>> \in {<<"off", "setup">>, <<"setup", "conns">>, <<"conns", "done">>}
      PROVE  \A l \in Kinds : KindLeft(s, l)' \leq KindLeft(s, l)
  <2>1. ASSUME NEW l \in Kinds PROVE stop'[s][l] = stop[s][l] \/ (stop[s][l] = from /\ stop'[s][l] = to)
    BY <1>2 DEF StopType
  <2> QED
    BY <1>2, <2>1 DEF KindLeft
<1> QED
  BY <1>1, <1>2

LEMMA SameServer ==
  ASSUME StopType, StopType', NEW s \in Servers, UNCHANGED <<stage, stop>>,
         lis'[s] \in {lis[s], "closed"}
  PROVE  ServerMoves(s)
BY StopsMove DEF ServerMoves

(* A crash, the parent and the context all end the server, or leave it alone.   *)
Ends(t) == \/ Crash(t) \/ CloseConnection(t) \/ ContextEnds(t) \/ HandshakeBreaks(t)
           \/ \E from \in {"byte", "handshake", "retry"} : Fails(t, from)

LEMMA EndsShape ==
  ASSUME NEW t \in Servers, Ends(t)
  PROVE  /\ Dies(t) \/ UNCHANGED <<stage, lis, queue, conn>>
         /\ UNCHANGED <<scheme, result, path, at, cut, signal, stop>> /\ left \subseteq left'
<1>1. CASE Crash(t)
  BY <1>1 DEF Crash, stopVars
<1>2. ASSUME NEW from, Fails(t, from)
      PROVE  /\ Dies(t) \/ UNCHANGED <<stage, lis, queue, conn>>
             /\ UNCHANGED <<scheme, result, path, at, cut, signal, stop>> /\ left \subseteq left'
  BY <1>2 DEF Fails, killAndWait, Kill, stopVars
<1>3. CASE CloseConnection(t)
  BY <1>3 DEF CloseConnection, killAndWait, Kill, stopVars
<1>4. CASE ContextEnds(t)
  BY <1>4 DEF ContextEnds, Kill, stopVars
<1>5. CASE HandshakeBreaks(t)
  BY <1>5 DEF HandshakeBreaks, runVars, lisVars, stopVars
<1> QED
  BY <1>1, <1>2, <1>3, <1>4, <1>5 DEF Ends

LEMMA DiesMoves ==
  ASSUME ServeType, ServeType', NEW t \in Servers, Dies(t) \/ UNCHANGED <<stage, lis, queue, conn>>,
         UNCHANGED <<scheme, at, stop>>, left \subseteq left', NEW s \in Servers
  PROVE  ServerMoves(s) /\ \A c \in Conns : at[c] = s => ConnMoves(s, c)
<1>1. CASE UNCHANGED <<stage, lis, queue, conn>>
  BY <1>1, SameServer DEF ServeType, ConnMoves
<1>2. CASE Dies(t) /\ t = s
  <2>1. /\ Ended(s)' /\ lis'[s] = "closed"
        /\ \A c \in Conns : at[c] = s => conn'[c] = "closed"
    BY <1>2 DEF Dies, Ended, ServeType, RunType, LisType
  <2> QED
    BY <2>1, StopsMove DEF ServerMoves, ConnMoves, ServeType
<1>3. CASE Dies(t) /\ t # s
  <2>1. stage'[s] = stage[s] /\ lis'[s] = lis[s] /\ queue'[s] = queue[s]
        /\ \A c \in Conns : at[c] = s => conn'[c] = conn[c]
    BY <1>3 DEF Dies, ServeType, RunType, LisType
  <2> QED
    BY <2>1, StopsMove DEF ServerMoves, ConnMoves, ServeType
<1> QED
  BY <1>1, <1>2, <1>3

(* A listener that is closed is not opened again.                             *)
LEMMA ServerSteps ==
  ASSUME DialInv, DialInv', [Next]_vars, NEW s \in Servers, stage[s] \notin {"idle", "binding"}
  PROVE  ServerMoves(s)
<1>0. ServeType /\ ServeType' /\ StopType /\ StopType' /\ RunType /\ LisType
  BY TypeParts DEF DialInv, ServeType
<1>1. ASSUME NEW t \in Servers, RemoveStale(t) \/ RemoveFails(t) \/ Bind(t) \/ BindFails(t) \/ ListenStdio(t)
      PROVE  ServerMoves(s)
  <2>1. stage'[s] = stage[s] /\ lis'[s] \in {lis[s], "closed"} /\ UNCHANGED stop
    BY <1>0, <1>1 DEF RunType, LisType, RemoveStale, RemoveFails, Bind, BindFails, ListenStdio, StageAt, lisVars, stopVars
  <2> QED
    BY <1>0, <2>1, StopsMove DEF ServerMoves
<1>2. ASSUME NEW t \in Servers, RunStep(t) PROVE ServerMoves(s)
  <2>1. UNCHANGED stop /\ lis'[s] \in {lis[s], "closed"}
    BY <1>0, <1>2 DEF LisType, RunStep, StartServe, Accept, AcceptFails, ServeReturns, CloseListener, lisVars, stopVars
  <2>2. stage'[s] = stage[s] \/ (t = s /\ ~UNCHANGED stage)
    BY <1>0, <1>2 DEF RunType, RunStep, StartServe, Accept, AcceptFails, ServeReturns, StageAt, runVars
  <2>3. ASSUME t = s, ~UNCHANGED stage
        PROVE  /\ \/ Ended(s)' \/ (stage[s] = "listening" /\ stage'[s] = "accept")
                  \/ (stage[s] = "accept" /\ stage'[s] = "waiting" /\ Quit(s)')
               /\ stage[s] \in {"listening", "accept"} /\ stage'[s] # "accept" => lis'[s] = "closed"
    <3>1. CASE StartServe(s)
      BY <1>0, <2>3, <3>1 DEF RunType, LisType, StartServe, CloseListener, StageAt, Ended
    <3>2. CASE AcceptFails(s)
      BY <1>0, <2>1, <2>3, <3>2, QuitSame DEF RunType, AcceptFails, StageAt, Ended, lisVars
    <3>3. CASE ServeReturns(s)
      BY <1>0, <2>3, <3>3 DEF RunType, ServeReturns, StageAt, Ended
    <3> QED
      BY <1>2, <2>3, <3>1, <3>2, <3>3 DEF RunStep, Accept, runVars
  <2> QED
    BY <1>0, <2>1, <2>2, <2>3, StopsMove DEF ServerMoves
<1>3. ASSUME NEW t \in Servers, StopStep(t) \/ SendSignal(t) PROVE ServerMoves(s)
  <2>1. UNCHANGED stage /\ lis'[s] \in {lis[s], "closed"}
    BY <1>0, <1>3 DEF LisType, StopStep, TakeSignal, ForceStop, BeginStop, StopConns, StopEnds, SendSignal,
       CloseListener, lisVars, runVars
  <2>2. \/ UNCHANGED stop
        \/ \E k \in Kinds :
             \/ stop[t][k] = "off" /\ stop' = [stop EXCEPT ![t][k] = "setup"]
             \/ stop[t][k] = "setup" /\ stop' = [stop EXCEPT ![t][k] = "conns"]
             \/ stop[t][k] = "conns" /\ stop' = [stop EXCEPT ![t][k] = "done"]
    BY <1>3 DEF StopStep, TakeSignal, ForceStop, BeginStop, StopConns, StopEnds, SendSignal, Kinds
  <2>3. \A k \in Kinds : KindLeft(s, k)' \leq KindLeft(s, k)
    BY <1>0, <2>2, StopsMove
  <2> QED
    BY <2>1, <2>3 DEF ServerMoves
<1>4. ASSUME NEW c \in Conns, Connect(c) \/ UpgradeStep(c) \/ ConnStep(c) \/ Handshake(c) \/ Leave(c)
      PROVE  ServerMoves(s)
  <2>1. UNCHANGED <<stage, stop>> /\ lis'[s] \in {lis[s], "closed"}
    BY <1>0, <1>4 DEF LisType, Connect, UpgradeStep, Enqueue, RefuseUpgrade, ConnStep, SetUp, HandshakeFails, ReadEnds,
       CloseConn, Handshake, Leave, runVars, lisVars, stopVars
  <2> QED
    BY <1>0, <2>1, SameServer
<1>5. ASSUME NEW t \in Servers, Ends(t) PROVE ServerMoves(s)
  BY <1>0, <1>5, EndsShape, DiesMoves
<1>6. ASSUME NEW t \in Servers, ReaderEnds(t) \/ Connected(t) PROVE ServerMoves(s)
  BY <1>0, <1>6, SameServer DEF ReaderEnds, Connected, serveVars, runVars, lisVars, stopVars
<1>7. CASE FirstByte \/ UNCHANGED vars
  BY <1>0, <1>7, SameServer DEF FirstByte, vars, serveVars, runVars, lisVars, stopVars
<1> QED
  BY <1>1, <1>2, <1>3, <1>4, <1>5, <1>6, <1>7
     DEF Next, Serving, ListenStep, StartChild, DialStep, StartFails, StartTimesOut, HandshakeTimesOut, Ends

(* The only connection of the child.                                         *)
LEMMA ConnSteps ==
  ASSUME DialInv, DialInv', [Next]_vars, NEW s \in Servers, NEW c \in Conns,
         Stdio(s), at[c] = s, PipeFits(s)
  PROVE  ConnMoves(s, c)
<1>0. ServeType /\ ServeType' /\ RunType /\ LisType /\ ConnType /\ ServeInv
  BY TypeParts DEF DialInv, ServeType
<1>1. /\ scheme[s] = "stdio" /\ conn[c] \notin {"idle", "upgraded"} /\ path # s
      /\ stage[s] \notin {"idle", "binding"}
      /\ \A d \in Conns : at[d] = s => d = c
  BY <1>0, ServeNoneAssumption
     DEF Stdio, PipeFits, ServeInv, ServerFits, ListenerFits, ConnFits, OverUnix, Untouched
<1>2. ASSUME conn'[c] = conn[c], at'[c] = at[c], c \in left => c \in left',
             queue'[s] = queue[s] \/ queue'[s] # <<>>
      PROVE  ConnMoves(s, c)
  BY <1>1, <1>2 DEF ConnMoves
<1>3. ASSUME NEW t \in Servers, RemoveStale(t) \/ RemoveFails(t) \/ Bind(t) \/ BindFails(t) PROVE ConnMoves(s, c)
  BY <1>2, <1>3 DEF RemoveStale, RemoveFails, Bind, BindFails, lisVars, connVars
<1>4. ASSUME NEW t \in Servers, CloseListener(t) \/ UNCHANGED <<lisVars, conn>>, UNCHANGED <<at, left>>
      PROVE  ConnMoves(s, c)
  <2>1. CASE UNCHANGED <<queue, conn>>
    BY <1>2, <1>4, <2>1
  <2>2. CASE scheme[t] = "unix" /\ CloseListener(t) /\ queue' = [queue EXCEPT ![t] = <<>>]
             /\ conn' = [d \in Conns |-> IF d \in ConnsAt(t, {"queued"}) THEN "closed" ELSE conn[d]]
    <3>1. t # s /\ c \notin ConnsAt(t, {"queued"})
      BY <1>1, <2>2 DEF ConnsAt
    <3>2. conn'[c] = conn[c] /\ queue'[s] = queue[s]
      BY <1>0, <2>2, <3>1 DEF LisType
    <3> QED
      BY <1>2, <1>4, <3>2
  <2> QED
    BY <1>4, <2>1, <2>2 DEF CloseListener, lisVars
<1>5. ASSUME NEW t \in Servers, Accept(t) PROVE ConnMoves(s, c)
  <2>1. queue[t] \in Seq(Conns) /\ queue[t] # <<>> /\ queue' = [queue EXCEPT ![t] = Tail(queue[t])]
    BY <1>0, <1>5 DEF LisType, Accept
  <2>2. 1 \in DOMAIN queue[t] /\ Head(queue[t]) = queue[t][1] /\ queue[t][1] \in Conns
    BY <2>1
  <2>3. at[Head(queue[t])] = t
    BY <1>0, <2>2 DEF ServeInv, ServerFits, Queued
  <2>4. UNCHANGED <<at, left>> /\ ConnAt(Head(queue[t]), "queued", "accepted") /\ stage[t] = "accept"
    BY <1>5 DEF Accept
  <2>5. CASE t = s
    <3>1. Head(queue[t]) = c
      BY <1>1, <2>2, <2>3, <2>5
    <3>2. conn[c] = "queued" /\ conn'[c] = "accepted"
      BY <1>0, <2>4, <3>1 DEF ConnAt, ConnType
    <3> QED
      BY <2>4, <2>5, <3>2 DEF ConnMoves
  <2>6. CASE t # s
    <3>1. Head(queue[t]) # c
      BY <2>3, <2>6
    <3>2. conn'[c] = conn[c] /\ queue'[s] = queue[s]
      BY <1>0, <2>1, <2>4, <2>6, <3>1 DEF ConnAt, ConnType, LisType
    <3> QED
      BY <1>2, <2>4, <3>2
  <2> QED
    BY <2>5, <2>6
<1>6. ASSUME NEW t \in Servers, RunStep(t) PROVE ConnMoves(s, c)
  BY <1>4, <1>5, <1>6 DEF RunStep, StartServe, AcceptFails, ServeReturns, lisVars, connVars
<1>7. ASSUME NEW t \in Servers, SendSignal(t) \/ StopStep(t) PROVE ConnMoves(s, c)
  BY <1>4, <1>7 DEF SendSignal, StopStep, TakeSignal, ForceStop, BeginStop, StopConns, StopEnds,
     lisVars, connVars
<1>8. ASSUME NEW d \in Conns, Connect(d) PROVE ConnMoves(s, c)
  <2>1. PICK t \in Servers :
          /\ at' = [at EXCEPT ![d] = t] /\ conn[d] = "idle" /\ UNCHANGED left
          /\ \/ ConnAt(d, "idle", "upgraded") /\ UNCHANGED queue
             \/ path = t /\ ConnAt(d, "idle", "queued") /\ queue' = [queue EXCEPT ![t] = Append(@, d)]
    BY <1>8 DEF Connect, ConnAt
  <2>2. d # c
    BY <1>1, <2>1
  <2>3. conn'[c] = conn[c] /\ at'[c] = at[c]
    BY <1>0, <2>1, <2>2 DEF ConnAt, ConnType
  <2>4. queue'[s] = queue[s]
    BY <1>0, <1>1, <2>1 DEF LisType
  <2> QED
    BY <1>2, <2>1, <2>3, <2>4
<1>9. ASSUME NEW d \in Conns, UpgradeStep(d) PROVE ConnMoves(s, c)
  <2>1. d # c /\ at[d] # s
    BY <1>1, <1>9 DEF UpgradeStep, Enqueue, RefuseUpgrade, ConnAt
  <2>2. conn'[c] = conn[c] /\ UNCHANGED <<at, left>>
    BY <1>0, <1>9, <2>1 DEF UpgradeStep, Enqueue, RefuseUpgrade, ConnAt, ConnType
  <2>3. queue'[s] = queue[s]
    BY <1>0, <1>9, <2>1 DEF UpgradeStep, Enqueue, RefuseUpgrade, LisType, lisVars
  <2> QED
    BY <1>2, <2>2, <2>3
<1>10. ASSUME NEW d \in Conns, ConnStep(d) \/ Handshake(d) \/ Leave(d) PROVE ConnMoves(s, c)
  <2>1. UNCHANGED <<queue, at>> /\ left \subseteq left'
    BY <1>10 DEF ConnStep, SetUp, HandshakeFails, ReadEnds, Handshake, Leave, lisVars
  <2>2. CASE d # c
    <3>1. conn'[c] = conn[c]
      BY <1>0, <1>10, <2>2 DEF ConnStep, SetUp, HandshakeFails, ReadEnds, CloseConn, Handshake, Leave, ConnAt, ConnType
    <3> QED
      BY <1>2, <2>1, <3>1
  <2>3. CASE d = c /\ Leave(c)
    BY <1>2, <2>1, <2>3 DEF Leave
  <2>4. CASE Handshake(c)
    <3>1. c \notin left /\ conn[c] = "handshake" /\ conn'[c] = "served"
      BY <1>0, <2>4 DEF Handshake, ConnAt, ConnType
    <3> QED
      BY <2>1, <3>1 DEF ConnMoves
  <2>5. ASSUME NEW from \in InUse, CloseConn(c, from) PROVE ConnMoves(s, c)
    <3>1. conn[c] = from /\ conn'[c] = "closed"
      BY <1>0, <2>5 DEF CloseConn, ConnAt, ConnType
    <3>2. lis'[s] = "closed"
      BY <1>0, <1>1, <2>5, ServeNoneAssumption DEF CloseConn, LisType
    <3> QED
      BY <2>1, <3>1, <3>2 DEF ConnMoves
  <2>6. CASE ConnAt(c, "accepted", "handshake")
    <3>1. conn[c] = "accepted" /\ conn'[c] = "handshake"
      BY <1>0, <2>6 DEF ConnAt, ConnType
    <3> QED
      BY <2>1, <3>1 DEF ConnMoves
  <2> QED
    BY <1>10, <2>2, <2>3, <2>4, <2>5, <2>6 DEF ConnStep, SetUp, HandshakeFails, ReadEnds, InUse
<1>11. ASSUME NEW t \in Servers, StartChild(t) PROVE ConnMoves(s, c)
  BY <1>0, <1>1, <1>11, OneChild DEF StartChild, ListenStdio, StageAt
<1>12. ASSUME NEW t \in Servers, Ends(t) PROVE ConnMoves(s, c)
  BY <1>0, <1>12, EndsShape, DiesMoves
<1>13. ASSUME NEW t \in Servers, ReaderEnds(t) \/ Connected(t) PROVE ConnMoves(s, c)
  BY <1>2, <1>13 DEF ReaderEnds, Connected, serveVars, lisVars, connVars
<1>14. CASE FirstByte \/ UNCHANGED vars
  BY <1>2, <1>14 DEF FirstByte, vars, serveVars, lisVars, connVars
<1>15. ASSUME NEW t \in Servers, ~Stdio(t), ListenStdio(t) PROVE FALSE
  BY <1>15 DEF ListenStdio, Stdio
<1> QED
  BY <1>3, <1>6, <1>7, <1>8, <1>9, <1>10, <1>11, <1>12, <1>13, <1>14, <1>15
     DEF Next, Serving, ListenStep, DialStep, StartFails, StartTimesOut, HandshakeTimesOut, Ends

-----------------------------------------------------------------------------
(* The invariant of the runs.                                                *)

(* Only a server that has listened waits for its end.                        *)
LEMMA StagesMove ==
  ASSUME RunType, [Next]_vars, NEW s \in Servers, stage'[s] = "waiting"
  PROVE  stage[s] \in {"accept", "waiting"}
<1>1. ASSUME NEW t \in Servers, ListenStep(t) PROVE stage[s] \in {"accept", "waiting"}
  BY <1>1 DEF ListenStep, RemoveStale, RemoveFails, Bind, BindFails, ListenStdio, StageAt, RunType
<1>2. ASSUME NEW t \in Servers, RunStep(t) PROVE stage[s] \in {"accept", "waiting"}
  BY <1>2 DEF RunStep, StartServe, Accept, AcceptFails, ServeReturns, StageAt, RunType, runVars
<1>3. ASSUME NEW t \in Servers, SendSignal(t) \/ StopStep(t) PROVE stage[s] \in {"accept", "waiting"}
  BY <1>3 DEF SendSignal, StopStep, TakeSignal, ForceStop, BeginStop, StopConns, StopEnds, runVars
<1>4. ASSUME NEW c \in Conns, Connect(c) \/ UpgradeStep(c) \/ ConnStep(c) \/ Handshake(c) \/ Leave(c)
      PROVE  stage[s] \in {"accept", "waiting"}
  BY <1>4 DEF Connect, UpgradeStep, Enqueue, RefuseUpgrade, ConnStep, SetUp, HandshakeFails, ReadEnds,
     Handshake, Leave, runVars
<1>5. ASSUME NEW t \in Servers, Ends(t) PROVE stage[s] \in {"accept", "waiting"}
  BY <1>5, EndsShape DEF Dies, RunType
<1>6. ASSUME NEW t \in Servers, ReaderEnds(t) \/ Connected(t) PROVE stage[s] \in {"accept", "waiting"}
  BY <1>6 DEF ReaderEnds, Connected, serveVars, runVars
<1>7. CASE FirstByte \/ UNCHANGED vars
  BY <1>7 DEF FirstByte, vars, serveVars, runVars
<1> QED
  BY <1>1, <1>2, <1>3, <1>4, <1>5, <1>6, <1>7
     DEF Next, Serving, ListenStep, StartChild, DialStep, StartFails, StartTimesOut, HandshakeTimesOut, Ends

(* The child gets its connection as it starts, and no other.                  *)
LEMMA StartShape ==
  ASSUME DialInv, [Next]_vars
  PROVE  /\ UNCHANGED scheme
         /\ \A s \in Servers :
              Stdio(s) => \/ StartChild(s)
                          \/ /\ \A c \in Conns : at'[c] = s <=> at[c] = s
                             /\ stage[s] = "idle" => stage'[s] = "idle"
<1>0. ServeType /\ ServeInv /\ RunType
  BY TypeParts DEF DialInv, ServeType
<1>1. CASE Serving
  <2>1. UNCHANGED scheme /\ \A s \in Servers, c \in Conns : Stdio(s) => (at'[c] = s <=> at[c] = s)
    BY <1>0, <1>1, PipesKept
  <2>2. ASSUME NEW s \in Servers, Stdio(s), stage[s] = "idle" PROVE stage'[s] = "idle"
    <3>1. ASSUME NEW t \in Servers, ~Stdio(t), ListenStep(t) PROVE stage'[s] = "idle"
      BY <1>0, <2>2, <3>1 DEF ListenStep, RemoveStale, RemoveFails, Bind, BindFails, ListenStdio, StageAt, RunType, Stdio
    <3>2. ASSUME NEW t \in Servers, RunStep(t) \/ SendSignal(t) \/ StopStep(t) PROVE stage'[s] = "idle"
      BY <1>0, <2>2, <3>2 DEF RunStep, StartServe, Accept, AcceptFails, ServeReturns, StageAt, RunType, runVars,
         SendSignal, StopStep, TakeSignal, ForceStop, BeginStop, StopConns, StopEnds
    <3>3. ASSUME NEW t \in Servers, Crash(t) PROVE stage'[s] = "idle"
      BY <1>0, <2>2, <3>3 DEF Crash, Dies, Alive, RunType
    <3>4. ASSUME NEW c \in Conns, Connect(c) \/ UpgradeStep(c) \/ ConnStep(c) \/ Handshake(c) \/ Leave(c)
          PROVE  stage'[s] = "idle"
      BY <2>2, <3>4 DEF Connect, UpgradeStep, Enqueue, RefuseUpgrade, ConnStep, SetUp, HandshakeFails, ReadEnds,
         Handshake, Leave, runVars
    <3> QED
      BY <1>1, <3>1, <3>2, <3>3, <3>4 DEF Serving
  <2> QED
    BY <2>1, <2>2
<1>2. ASSUME NEW t \in Servers, StartChild(t)
      PROVE  UNCHANGED scheme /\ \A s \in Servers : Stdio(s) => StartChild(s)
  BY <1>0, <1>2, OneChild DEF StartChild, ListenStdio
<1>3. ASSUME NEW t \in Servers, Ends(t)
      PROVE  UNCHANGED <<scheme, at>> /\ \A s \in Servers : stage[s] = "idle" => stage'[s] = "idle"
  BY <1>0, <1>3, EndsShape DEF Dies, Alive, RunType
<1>4. ASSUME NEW t \in Servers, ReaderEnds(t) \/ Connected(t) PROVE UNCHANGED <<scheme, at, stage>>
  BY <1>4 DEF ReaderEnds, Connected, serveVars, runVars, connVars
<1>5. CASE FirstByte \/ UNCHANGED vars
  BY <1>5 DEF FirstByte, vars, serveVars, runVars, connVars
<1> QED
  BY <1>1, <1>2, <1>3, <1>4, <1>5
     DEF Next, DialStep, StartFails, StartTimesOut, HandshakeTimesOut, Ends

(* An end that is gone stays gone.                                            *)
LEMMA LeftKept == ASSUME DialInv, [Next]_vars PROVE left \subseteq left'
<1>1. CASE Serving
  BY <1>1, PipesKept, TypeParts DEF DialInv
<1>2. ASSUME NEW t \in Servers, Ends(t) PROVE left \subseteq left'
  BY <1>2, EndsShape
<1>3. ASSUME NEW t \in Servers, StartChild(t) \/ ReaderEnds(t) \/ Connected(t) PROVE UNCHANGED left
  BY <1>3 DEF StartChild, ListenStdio, ReaderEnds, Connected, serveVars, connVars
<1>4. CASE FirstByte \/ UNCHANGED vars
  BY <1>4 DEF FirstByte, vars, serveVars, connVars
<1> QED
  BY <1>1, <1>2, <1>3, <1>4 DEF Next, DialStep, StartFails, StartTimesOut, HandshakeTimesOut, Ends

LEMMA PipesFit ==
  ASSUME LiveInv, DialInv', [Next]_vars, NEW s \in Servers
  PROVE  PipeFits(s)'
<1>0. DialInv /\ PipeFits(s) /\ RunType /\ ServeType /\ StopType /\ StopType' /\ ServeType'
  BY TypeParts DEF LiveInv, DialInv, ServeType
<1>2. ASSUME Stdio(s)' PROVE Stdio(s)
  BY <1>0, <1>2, StartShape DEF Stdio
<1>3. ASSUME Stdio(s), stage'[s] # "idle" PROVE \E c \in Conns : at'[c] = s
  <2>1. CASE StartChild(s)
    BY <1>0, <2>1 DEF StartChild, ListenStdio, ServeType, ConnType, Schemes
  <2>2. CASE ~StartChild(s)
    BY <1>0, <1>3, <2>2, StartShape DEF PipeFits
  <2> QED
    BY <2>1, <2>2
<1>4. ASSUME Stdio(s), NEW c \in Conns, at'[c] = s
      PROVE  /\ conn'[c] # "upgraded"
             /\ conn'[c] = "closed" => lis'[s] = "closed"
             /\ conn'[c] = "queued" => queue'[s] # <<>>
  <2>1. CASE at[c] = s
    <3>1. ConnMoves(s, c) /\ stage[s] \notin {"idle", "binding"}
      BY <1>0, <1>4, <2>1, ConnSteps DEF DialInv, ServeInv, ServerFits, Untouched
    <3>2. ServerMoves(s)
      BY <1>0, <3>1, ServerSteps
    <3> QED
      BY <1>0, <1>4, <2>1, <3>1, <3>2 DEF ConnMoves, ServerMoves, PipeFits
  <2>2. CASE at[c] # s
    <3>1. StartChild(s)
      BY <1>0, <1>4, <2>2, StartShape
    <3>2. PICK d \in Conns : /\ ConnAt(d, "idle", "queued") /\ at' = [at EXCEPT ![d] = s]
                             /\ queue' = [queue EXCEPT ![s] = <<d>>]
      BY <3>1 DEF StartChild, ListenStdio, Schemes
    <3>3. c = d
      BY <1>0, <1>4, <2>2, <3>2 DEF ServeType, ConnType
    <3>4. conn'[c] = "queued" /\ queue'[s] # <<>>
      BY <1>0, <3>2, <3>3 DEF ConnAt, ServeType, ConnType, LisType
    <3> QED
      BY <3>4
  <2> QED
    BY <2>1, <2>2
<1> QED
  BY <1>2, <1>3, <1>4 DEF PipeFits

(* Only a connection that is not made yet is given a server, one that listens.  *)
LEMMA AtMoves ==
  ASSUME DialInv, [Next]_vars, NEW c \in Conns
  PROVE  at'[c] = at[c] \/ (conn[c] = "idle" /\ lis'[at'[c]] = "open")
<1>0. ServeType /\ ConnType /\ LisType
  BY TypeParts DEF DialInv, ServeType
<1>1. ASSUME NEW d \in Conns, Connect(d) PROVE at'[c] = at[c] \/ (conn[c] = "idle" /\ lis'[at'[c]] = "open")
  BY <1>0, <1>1 DEF Connect, ConnAt, ConnType
<1>2. ASSUME NEW s \in Servers, ListenStdio(s)
      PROVE  at'[c] = at[c] \/ (conn[c] = "idle" /\ lis'[at'[c]] = "open")
  BY <1>0, <1>2 DEF ListenStdio, ConnAt, ConnType, LisType
<1>3. ASSUME NEW s \in Servers, RemoveStale(s) \/ RemoveFails(s) \/ Bind(s) \/ BindFails(s) \/ RunStep(s) \/ SendSignal(s) \/ StopStep(s)
      PROVE  UNCHANGED at
  BY <1>3 DEF RemoveStale, RemoveFails, Bind, BindFails, RunStep, StartServe, Accept, AcceptFails, ServeReturns, SendSignal,
     StopStep, TakeSignal, ForceStop, BeginStop, StopConns, StopEnds, connVars
<1>4. ASSUME NEW d \in Conns, UpgradeStep(d) \/ ConnStep(d) \/ Handshake(d) \/ Leave(d) PROVE UNCHANGED at
  BY <1>4 DEF UpgradeStep, Enqueue, RefuseUpgrade, ConnStep, SetUp, HandshakeFails, ReadEnds, Handshake, Leave
<1>5. ASSUME NEW t \in Servers, Ends(t) PROVE UNCHANGED at
  BY <1>5, EndsShape
<1>6. ASSUME NEW t \in Servers, ReaderEnds(t) \/ Connected(t) PROVE UNCHANGED at
  BY <1>6 DEF ReaderEnds, Connected, serveVars, connVars
<1>7. CASE FirstByte \/ UNCHANGED vars
  BY <1>7 DEF FirstByte, vars, serveVars, connVars
<1> QED
  BY <1>1, <1>2, <1>3, <1>4, <1>5, <1>6, <1>7
     DEF Next, Serving, ListenStep, StartChild, DialStep, StartFails, StartTimesOut, HandshakeTimesOut, Ends

(* A server that does not listen yet has a listener only if it does from now on. *)
LEMMA FreshMoves ==
  ASSUME DialInv, DialInv', [Next]_vars, NEW s \in Servers, stage[s] \in {"idle", "binding"}
  PROVE  /\ lis'[s] = "open" => stage'[s] = "listening"
         /\ lis'[s] = "none" => \A c \in Conns : at'[c] # s
<1>0. ServeType /\ RunType /\ LisType /\ ServeInv
  BY TypeParts DEF DialInv, ServeType
<1>1. lis[s] = "none" /\ \A c \in Conns : at[c] # s
  BY <1>0 DEF ServeInv, ServerFits, Untouched
<1>2. lis'[s] = "none" => \A c \in Conns : at'[c] # s
  BY <1>1, AtMoves
<1>3. ASSUME NEW t \in Servers, ListenStep(t) PROVE lis'[s] = "open" => stage'[s] = "listening"
  BY <1>0, <1>1, <1>3 DEF ListenStep, RemoveStale, RemoveFails, Bind, BindFails, ListenStdio, StageAt, RunType, LisType, lisVars
<1>4. ASSUME NEW t \in Servers, RunStep(t) \/ SendSignal(t) \/ StopStep(t) PROVE lis'[s] # "open"
  BY <1>0, <1>1, <1>4 DEF RunStep, StartServe, Accept, AcceptFails, ServeReturns, SendSignal, StopStep, TakeSignal,
     ForceStop, BeginStop, StopConns, StopEnds, CloseListener, LisType, lisVars
<1>5. ASSUME NEW c \in Conns, Connect(c) \/ UpgradeStep(c) \/ ConnStep(c) \/ Handshake(c) \/ Leave(c)
      PROVE  lis'[s] # "open"
  BY <1>0, <1>1, <1>5 DEF Connect, UpgradeStep, Enqueue, RefuseUpgrade, ConnStep, SetUp, HandshakeFails, ReadEnds,
     CloseConn, Handshake, Leave, LisType, lisVars
<1>6. ASSUME NEW t \in Servers, Ends(t) PROVE lis'[s] # "open"
  BY <1>0, <1>1, <1>6, EndsShape DEF Dies, LisType
<1>7. ASSUME NEW t \in Servers, ReaderEnds(t) \/ Connected(t) PROVE UNCHANGED lis
  BY <1>7 DEF ReaderEnds, Connected, serveVars, lisVars
<1>8. CASE FirstByte \/ UNCHANGED vars
  BY <1>1, <1>2, <1>8 DEF FirstByte, vars, serveVars, lisVars
<1> QED
  BY <1>1, <1>2, <1>3, <1>4, <1>5, <1>6, <1>7, <1>8
     DEF Next, Serving, ListenStep, StartChild, DialStep, StartFails, StartTimesOut, HandshakeTimesOut, Ends

(* Only ws connections are upgraded.                                         *)
LEMMA UpgradesMove ==
  ASSUME DialInv, [Next]_vars, NEW c \in Conns, conn'[c] = "upgraded"
  PROVE  (conn[c] = "upgraded" /\ at'[c] = at[c]) \/ (at'[c] \in Servers /\ scheme[at'[c]] = "ws")
<1>0. ServeType /\ ConnType /\ ServeInv
  BY TypeParts DEF DialInv, ServeType
<1>1. ASSUME NEW d \in Conns, Connect(d)
      PROVE  (conn[c] = "upgraded" /\ at'[c] = at[c]) \/ (at'[c] \in Servers /\ scheme[at'[c]] = "ws")
  BY <1>0, <1>1 DEF Connect, ConnAt, ConnType, ServeInv, ServerFits, OverUnix
<1>2. ASSUME NEW s \in Servers, ListenStep(s) PROVE conn[c] = "upgraded"
  BY <1>0, <1>2 DEF ListenStep, RemoveStale, RemoveFails, Bind, BindFails, ListenStdio, ConnAt, ConnType, connVars
<1>3. ASSUME NEW s \in Servers, RunStep(s) \/ SendSignal(s) \/ StopStep(s) PROVE conn[c] = "upgraded"
  BY <1>0, <1>3 DEF RunStep, StartServe, Accept, AcceptFails, ServeReturns, SendSignal, StopStep, TakeSignal,
     ForceStop, BeginStop, StopConns, StopEnds, CloseListener, ConnAt, ConnType, connVars
<1>4. ASSUME NEW d \in Conns, UpgradeStep(d) \/ ConnStep(d) \/ Handshake(d) \/ Leave(d) PROVE conn[c] = "upgraded"
  BY <1>0, <1>4 DEF UpgradeStep, Enqueue, RefuseUpgrade, ConnStep, SetUp, HandshakeFails, ReadEnds, CloseConn,
     Handshake, Leave, ConnAt, ConnType
<1>5. ASSUME NEW t \in Servers, Ends(t) PROVE conn[c] = "upgraded"
  BY <1>0, <1>5, EndsShape DEF Dies, ConnType
<1>6. ASSUME NEW t \in Servers, ReaderEnds(t) \/ Connected(t) PROVE conn[c] = "upgraded"
  BY <1>6 DEF ReaderEnds, Connected, serveVars, connVars
<1>7. CASE FirstByte \/ UNCHANGED vars
  BY <1>7 DEF FirstByte, vars, serveVars, connVars
<1> QED
  BY <1>1, <1>2, <1>3, <1>4, <1>5, <1>6, <1>7, AtMoves
     DEF Next, Serving, ListenStep, StartChild, DialStep, StartFails, StartTimesOut, HandshakeTimesOut, Ends

LEMMA OpenFit ==
  ASSUME DialInv, DialInv', [Next]_vars, NEW s \in Servers, OpenFits(s)
  PROVE  OpenFits(s)'
<1>0. RunType
  BY TypeParts DEF DialInv, ServeType
<1>3. \A c \in Conns : at'[c] = s /\ conn'[c] = "upgraded" => scheme'[s] = "ws"
  BY UpgradesMove, StartShape DEF OpenFits
<1>1. CASE stage[s] \in {"idle", "binding"}
  BY <1>0, <1>1, <1>3, FreshMoves, StagesMove DEF OpenFits
<1>2. CASE stage[s] \notin {"idle", "binding"}
  <2>1. ServerMoves(s)
    BY <1>2, ServerSteps
  <2>2. Quit(s) => Quit(s)'
    BY <2>1 DEF ServerMoves, Quit, KindLeft
  <2>3. lis'[s] = "open" => stage'[s] \in {"listening", "accept"}
    BY <2>1 DEF ServerMoves, OpenFits
  <2>4. lis'[s] = "none" => \A c \in Conns : at'[c] # s
    BY <2>1, AtMoves DEF ServerMoves, OpenFits
  <2>5. stage'[s] = "waiting" => Quit(s)'
    BY <2>1, <2>2 DEF ServerMoves, OpenFits, Ended
  <2> QED
    BY <1>3, <2>3, <2>4, <2>5 DEF OpenFits
<1> QED
  BY <1>1, <1>2

LEMMA DialFitsNext == ASSUME LiveInv, [Next]_vars PROVE DialFits'
<1>0. DialInv /\ DialFits /\ ServeType /\ RunType /\ DialType
  BY TypeParts DEF LiveInv, DialInv, ServeType
<1>1. dial # "idle" => dial' # "idle"
  BY DEF Next, dialVars, StartChild, ReaderEnds, CloseConnection, ContextEnds, DialStep, FirstByte, Connected,
     StartFails, StartTimesOut, HandshakeBreaks, HandshakeTimesOut, Fails, DialAt, vars
<1>2. \/ \E s \in Servers : StartChild(s)
      \/ dial' # "idle" => dial # "idle"
  BY DEF Next, dialVars, StartChild, ReaderEnds, CloseConnection, ContextEnds, DialStep, FirstByte, Connected,
     StartFails, StartTimesOut, HandshakeBreaks, HandshakeTimesOut, Fails, DialAt, vars
<1>3. reader # "none" => reader' # "none"
  BY DEF Next, dialVars, StartChild, ReaderEnds, CloseConnection, ContextEnds, DialStep, FirstByte, Connected,
     StartFails, StartTimesOut, HandshakeBreaks, HandshakeTimesOut, Fails, vars
<1>4. ctx' = "ended" => ctx = "ended" \/ dial # "idle"
  BY DEF Next, dialVars, StartChild, ReaderEnds, CloseConnection, ContextEnds, DialStep, FirstByte, Connected,
     StartFails, StartTimesOut, HandshakeBreaks, HandshakeTimesOut, Fails, vars
<1>5. ASSUME NEW s \in Servers, Stdio(s), stage[s] # "idle" PROVE Stdio(s)' /\ stage'[s] # "idle"
  BY <1>0, <1>5, StartShape, NextAdvances DEF Stdio, Advances
<1>7. ASSUME dial' \in {"failed", "closed"}, NEW s \in Servers, Stdio(s)' PROVE Pipe(s)' \subseteq left'
  <2>1. Stdio(s) /\ UNCHANGED scheme
    BY <1>0, <1>7, StartShape DEF Stdio
  <2>2. CASE dial \in {"failed", "closed"}
    <3>1. ~StartChild(s) /\ Pipe(s)' = Pipe(s)
      BY <1>0, <2>1, <2>2, StartShape DEF StartChild, DialAt, Pipe
    <3>2. left \subseteq left'
      BY <1>0, LeftKept
    <3> QED
      BY <1>0, <2>1, <2>2, <3>1, <3>2 DEF DialFits
  <2>3. CASE dial \notin {"failed", "closed"}
    <3>1. PICK t \in Servers : CloseConnection(t) \/ \E from \in {"byte", "handshake", "retry"} : Fails(t, from)
      BY <1>7, <2>3 DEF Next, dialVars, StartChild, ReaderEnds, ContextEnds, DialStep, FirstByte, Connected,
         StartFails, StartTimesOut, HandshakeBreaks, HandshakeTimesOut, DialAt, vars
    <3>2. Stdio(t) /\ left' = left \cup Pipe(t) /\ UNCHANGED at
      BY <3>1 DEF CloseConnection, Fails, killAndWait
    <3>3. t = s
      BY <1>0, <2>1, <3>2, OneChild DEF DialInv
    <3> QED
      BY <3>2, <3>3 DEF Pipe
  <2> QED
    BY <2>2, <2>3
<1>6. ASSUME NEW s \in Servers, StartChild(s)
      PROVE  reader' # "none" /\ Stdio(s)' /\ stage'[s] # "idle" /\ dial' # "idle"
  BY <1>0, <1>6 DEF StartChild, ListenStdio, StageAt, RunType, Stdio, DialAt
<1> QED
  BY <1>0, <1>1, <1>2, <1>3, <1>4, <1>5, <1>6, <1>7 DEF DialFits

LEMMA LiveCorrect == Spec => []LiveInv
<1>1. Init => LiveInv
  <2>1. Init => DialInv
    BY InvInit
  <2>2. Init => DialFits /\ \A s \in Servers : OpenFits(s) /\ PipeFits(s)
    BY ServeNoneAssumption DEF Init, ServeInit, DialFits, OpenFits, PipeFits
  <2> QED
    BY <2>1, <2>2 DEF LiveInv
<1>2. LiveInv /\ [Next]_vars => LiveInv'
  <2> SUFFICES ASSUME LiveInv, [Next]_vars PROVE LiveInv'
    OBVIOUS
  <2>1. DialInv'
    BY InvNext DEF LiveInv
  <2>2. DialFits' /\ \A s \in Servers : OpenFits(s)' /\ PipeFits(s)'
    BY <2>1, DialFitsNext, OpenFit, PipesFit DEF LiveInv
  <2> QED
    BY <2>1, <2>2 DEF LiveInv
<1> QED
  BY <1>1, <1>2, PTL DEF Spec

-----------------------------------------------------------------------------
(* How the child ends with its parent.                                       *)

(* When the steps that wait for something can be taken, the guards of these    *)
(* steps: Serve waits for its listener, and then for either way to stop; these  *)
(* for the connections they account for; a handler for room in the queue or    *)
(* the listener's end; a connection for its other end, a deadline or Stop;      *)
(* DialStdio for the first byte, and from then on for its context.            *)
RunReady(s) == \/ stage[s] = "listening"
               \/ stage[s] = "accept" /\ (queue[s] # <<>> \/ lis[s] = "closed")
               \/ stage[s] = "waiting" /\ Done(s)
StopReady(s) ==
  /\ Alive(s)
  /\ \/ signal[s] = "sent" /\ stop[s]["graceful"] = "off"
     \/ stop[s]["graceful"] \notin {"off", "done"} /\ stop[s]["forced"] = "off"
     \/ \E k \in Kinds :
          \/ stop[s][k] = "setup" /\ stage[s] # "accept" /\ ConnsAt(s, {"accepted", "handshake"}) = {}
          \/ stop[s][k] = "conns" /\ ConnsAt(s, {"served"}) = {}
UpgradeReady(c) == conn[c] = "upgraded" /\ (Len(queue[at[c]]) < Cap \/ lis[at[c]] = "closed")
ConnReady(c) == \/ conn[c] = "accepted"
                \/ conn[c] = "handshake" /\ (c \in left \/ scheme[at[c]] # "stdio")
                \/ conn[c] = "served" /\ (c \in left \/ (c \in cut /\ scheme[at[c]] # "stdio"))
DialReady == \/ dial = "byte" /\ (reader # "reading" \/ ctx = "ended")
             \/ dial \in {"handshake", "retry"} /\ ctx = "ended"
ReaderReady(s) == reader = "reading" /\ Stdio(s) /\ (stdout = "written" \/ Eof(s) \/ child = "reaped")

(* A step that stays ready is taken, and an Upgrade that is ready again and     *)
(* again: what Fairness says, with the guards in the place of ENABLED.  It is   *)
(* assumed from every state on, as fairness holds.                            *)
RunTurn(s)     == []<>~RunReady(s) \/ []<><<RunStep(s)>>_serveVars
StopTurn(s)    == []<>~StopReady(s) \/ []<><<StopStep(s)>>_serveVars
UpgradeTurn(c) == <>[]~UpgradeReady(c) \/ []<><<UpgradeStep(c)>>_serveVars
ConnTurn(c)    == []<>~ConnReady(c) \/ []<><<ConnStep(c)>>_serveVars
DialTurn       == []<>~DialReady \/ []<><<DialStep>>_vars
ReaderTurn(s)  == []<>~ReaderReady(s) \/ []<><<ReaderEnds(s)>>_vars
Turns == /\ \A s \in Servers : RunTurn(s) /\ StopTurn(s) /\ ReaderTurn(s)
         /\ \A c \in Conns : UpgradeTurn(c) /\ ConnTurn(c)
         /\ DialTurn

Runs == [][Next]_vars /\ []LiveInv /\ []Turns

(* The parent's end of connection c to its child is gone; and where the child   *)
(* and the connection are: it is set up or served, or it is at rest.          *)
Orphan(s, c, states) == Stdio(s) /\ at[c] = s /\ c \in left /\ conn[c] \in states
At(s, c, where, states) == Orphan(s, c, states) /\ stage[s] = where
Rest == {"queued", "closed"}
Drained(s, c) == At(s, c, "waiting", Rest) /\ Done(s)
Draining(s, c, n) == At(s, c, "waiting", Rest) /\ ~Done(s) /\ StopLeft(s) \leq n
DrainsTo(s, c, n) == <>(Draining(s, c, n) \/ Drained(s, c) \/ Ended(s))
IsServed(s, c, x) == <>(At(s, c, "accept", {x}) \/ Ended(s))

LEMMA EndedKept == ASSUME LiveInv, [Next]_vars, NEW s \in Servers, Ended(s) PROVE Ended(s)'
BY NextAdvances, TypeParts DEF LiveInv, DialInv, ServeType, Advances, Ended

LEMMA OrphanKept ==
  ASSUME LiveInv, LiveInv', [Next]_vars, NEW s \in Servers, NEW c \in Conns, Orphan(s, c, ConnStates)
  PROVE  /\ ServerMoves(s) /\ ConnMoves(s, c) /\ Orphan(s, c, ConnStates)'
         /\ conn[c] = "closed" => lis[s] = "closed"
         /\ conn[c] = "queued" => queue[s] # <<>>
         /\ stage[s] \in {"listening", "accept", "waiting"} \/ Ended(s)
         /\ \A d \in Conns : at[d] = s => d = c
<1>0. DialInv /\ DialInv' /\ RunType /\ ConnType /\ ConnType'
  BY TypeParts DEF LiveInv, DialInv, ServeType
<1>1. stage[s] \notin {"idle", "binding"} /\ Stdio(s) /\ at[c] = s /\ PipeFits(s)
  BY DEF LiveInv, DialInv, ServeInv, ServerFits, Untouched, Orphan
<1>2. ServerMoves(s) /\ ConnMoves(s, c)
  BY <1>0, <1>1, ServerSteps, ConnSteps
<1>3. Stdio(s)'
  BY <1>0, <1>1, StartShape DEF Stdio
<1>4. Orphan(s, c, ConnStates)'
  BY <1>0, <1>2, <1>3 DEF ConnMoves, Orphan, ConnType
<1>5. \A d \in Conns : at[d] = s => d = c
  BY <1>0, <1>1 DEF DialInv, ServeInv, ListenerFits, Stdio
<1> QED
  BY <1>0, <1>1, <1>2, <1>4, <1>5 DEF PipeFits, RunType, Stages, Ended

(* Its goroutine ends, as the Read of stdin does (stdio.go, serve.go).         *)
LEMMA OrphanProgress ==
  ASSUME NEW s \in Servers, NEW c \in Conns
  PROVE  /\ Runs /\ Orphan(s, c, {"accepted"}) => <>Orphan(s, c, {"handshake", "closed"})
         /\ Runs /\ Orphan(s, c, {"handshake"}) => <>Orphan(s, c, {"closed"})
         /\ Runs /\ Orphan(s, c, {"served"}) => <>Orphan(s, c, {"closed"})
<1>0. Turns => ConnTurn(c)
  BY DEF Turns
<1>1. ASSUME NEW from \in InUse, Orphan(s, c, {from}), LiveInv, LiveInv', [Next]_vars
      PROVE  /\ Orphan(s, c, {from})' \/ Orphan(s, c, {"closed"})'
                  \/ (from = "accepted" /\ Orphan(s, c, {"handshake"})')
             /\ ConnStep(c) => conn'[c] # from
  <2>1. Orphan(s, c, ConnStates) /\ conn[c] = from /\ ConnType
    BY <1>1, TypeParts DEF Orphan, InUse, ConnStates, LiveInv, DialInv, ServeType
  <2>2. ConnMoves(s, c) /\ Orphan(s, c, ConnStates)'
    BY <1>1, <2>1, OrphanKept
  <2>3. ConnStep(c) => conn'[c] # from
    BY <2>1 DEF ConnStep, SetUp, HandshakeFails, ReadEnds, CloseConn, ConnAt, ConnType, InUse
  <2> QED
    BY <2>1, <2>2, <2>3 DEF Orphan, ConnMoves, InUse
<1>2. ASSUME NEW from \in InUse
      PROVE  LiveInv /\ Orphan(s, c, {from}) => ConnReady(c)
  BY DEF ConnReady, Orphan, InUse
<1>3. Runs /\ Orphan(s, c, {"accepted"}) => <>Orphan(s, c, {"handshake", "closed"})
  <2>1. LiveInv /\ LiveInv' /\ Orphan(s, c, {"accepted"}) /\ [Next]_vars =>
          Orphan(s, c, {"accepted"})' \/ Orphan(s, c, {"handshake", "closed"})'
    BY <1>1 DEF InUse, Orphan
  <2>2. LiveInv /\ LiveInv' /\ Orphan(s, c, {"accepted"}) /\ [Next]_vars /\ <<ConnStep(c)>>_serveVars =>
          Orphan(s, c, {"handshake", "closed"})'
    BY <1>1 DEF InUse, Orphan
  <2>3. LiveInv /\ Orphan(s, c, {"accepted"}) => ConnReady(c)
    BY <1>2 DEF InUse
  <2> QED
    BY <1>0, <2>1, <2>2, <2>3, PTL DEF Runs, ConnTurn
<1>4. ASSUME NEW from \in {"handshake", "served"}
      PROVE  Runs /\ Orphan(s, c, {from}) => <>Orphan(s, c, {"closed"})
  <2>1. LiveInv /\ LiveInv' /\ Orphan(s, c, {from}) /\ [Next]_vars =>
          Orphan(s, c, {from})' \/ Orphan(s, c, {"closed"})'
    BY <1>1, <1>4 DEF InUse, Orphan
  <2>2. LiveInv /\ LiveInv' /\ Orphan(s, c, {from}) /\ [Next]_vars /\ <<ConnStep(c)>>_serveVars =>
          Orphan(s, c, {"closed"})'
    BY <1>1, <1>4 DEF InUse, Orphan
  <2>3. LiveInv /\ Orphan(s, c, {from}) => ConnReady(c)
    BY <1>2, <1>4 DEF InUse
  <2> QED
    BY <1>0, <2>1, <2>2, <2>3, PTL DEF Runs, ConnTurn
<1> QED
  BY <1>3, <1>4

(* Serve accepts it, or its listener fails, and then waits for its end.        *)
LEMMA ServeProgress ==
  ASSUME NEW s \in Servers, NEW c \in Conns
  PROVE  /\ \A x \in Rest : Runs /\ At(s, c, "listening", {x}) => IsServed(s, c, x)
         /\ Runs /\ At(s, c, "accept", {"queued"}) =>
              <>(Orphan(s, c, {"accepted"}) \/ At(s, c, "waiting", Rest) \/ Ended(s))
         /\ Runs /\ At(s, c, "accept", {"closed"}) => <>(At(s, c, "waiting", Rest) \/ Ended(s))
         /\ Runs /\ Drained(s, c) => <>Ended(s)
<1>0. Turns => RunTurn(s)
  BY DEF Turns
<1>1. ASSUME NEW x \in Rest, Orphan(s, c, {x}), LiveInv, LiveInv', [Next]_vars
      PROVE  /\ ServerMoves(s) /\ ConnMoves(s, c) /\ Orphan(s, c, ConnStates)'
             /\ x = "closed" => lis[s] = "closed"
             /\ x = "queued" => queue[s] # <<>>
             /\ \A d \in Conns : at[d] = s => d = c
             /\ ServeType
  <2>1. Orphan(s, c, ConnStates)
    BY <1>1 DEF Orphan, Rest, ConnStates
  <2> QED
    BY <1>1, <2>1, OrphanKept, TypeParts DEF LiveInv, DialInv, Orphan
<1>2. ASSUME NEW x \in Rest
      PROVE  Runs /\ At(s, c, "listening", {x}) => IsServed(s, c, x)
  <2>1. LiveInv /\ LiveInv' /\ At(s, c, "listening", {x}) /\ [Next]_vars =>
          At(s, c, "listening", {x})' \/ At(s, c, "accept", {x})' \/ Ended(s)'
    BY <1>1, <1>2 DEF At, Orphan, ServerMoves, ConnMoves, Rest, InUse
  <2>2. LiveInv /\ LiveInv' /\ At(s, c, "listening", {x}) /\ [Next]_vars /\ <<RunStep(s)>>_serveVars =>
          At(s, c, "accept", {x})' \/ Ended(s)'
    <3> SUFFICES ASSUME LiveInv, LiveInv', At(s, c, "listening", {x}), [Next]_vars, RunStep(s)
                 PROVE  At(s, c, "accept", {x})' \/ Ended(s)'
      OBVIOUS
    <3>1. RunType
      BY TypeParts DEF LiveInv, DialInv, ServeType
    <3>2. stage'[s] # "listening"
      BY <3>1 DEF At, RunStep, StartServe, Accept, AcceptFails, ServeReturns, StageAt, RunType
    <3> QED
      BY <2>1, <3>2 DEF At
  <2>3. At(s, c, "listening", {x}) => RunReady(s)
    BY DEF RunReady, At
  <2> QED
    BY <1>0, <2>1, <2>2, <2>3, PTL DEF Runs, RunTurn, IsServed
<1>3. Runs /\ At(s, c, "accept", {"queued"}) =>
        <>(Orphan(s, c, {"accepted"}) \/ At(s, c, "waiting", Rest) \/ Ended(s))
  <2>1. LiveInv /\ LiveInv' /\ At(s, c, "accept", {"queued"}) /\ [Next]_vars =>
          \/ At(s, c, "accept", {"queued"})'
          \/ Orphan(s, c, {"accepted"})' \/ At(s, c, "waiting", Rest)' \/ Ended(s)'
    BY <1>1 DEF At, Orphan, ServerMoves, ConnMoves, Rest, InUse
  <2>2. LiveInv /\ LiveInv' /\ At(s, c, "accept", {"queued"}) /\ [Next]_vars /\ <<RunStep(s)>>_serveVars =>
          Orphan(s, c, {"accepted"})' \/ At(s, c, "waiting", Rest)' \/ Ended(s)'
    <3> SUFFICES ASSUME LiveInv, LiveInv', At(s, c, "accept", {"queued"}), [Next]_vars, RunStep(s)
                 PROVE  Orphan(s, c, {"accepted"})' \/ At(s, c, "waiting", Rest)' \/ Ended(s)'
      OBVIOUS
    <3>1. ServeType /\ ServeInv /\ RunType /\ LisType /\ ConnType /\ \A d \in Conns : at[d] = s => d = c
      BY <1>1, TypeParts DEF LiveInv, DialInv, ServeType, At, Rest
    <3>2. CASE Accept(s)
      <4>1. queue[s] \in Seq(Conns) /\ queue[s] # <<>>
        BY <3>1, <3>2 DEF LisType, Accept
      <4>2. 1 \in DOMAIN queue[s] /\ Head(queue[s]) = queue[s][1] /\ queue[s][1] \in Conns
        BY <4>1
      <4>3. Head(queue[s]) = c
        BY <3>1, <4>2 DEF ServeInv, ServerFits, Queued
      <4>4. conn'[c] # "queued"
        BY <3>1, <3>2, <4>3 DEF Accept, ConnAt, ConnType
      <4> QED
        BY <2>1, <4>4 DEF At, Orphan
    <3>3. CASE ~Accept(s)
      <4>1. stage'[s] # "accept"
        BY <3>1, <3>3 DEF At, RunStep, StartServe, AcceptFails, ServeReturns, StageAt, RunType
      <4> QED
        BY <2>1, <4>1 DEF At
    <3> QED
      BY <3>2, <3>3
  <2>3. LiveInv /\ At(s, c, "accept", {"queued"}) => RunReady(s)
    BY DEF LiveInv, PipeFits, At, Orphan, RunReady
  <2> QED
    BY <1>0, <2>1, <2>2, <2>3, PTL DEF Runs, RunTurn
<1>4. Runs /\ At(s, c, "accept", {"closed"}) => <>(At(s, c, "waiting", Rest) \/ Ended(s))
  <2>1. LiveInv /\ LiveInv' /\ At(s, c, "accept", {"closed"}) /\ [Next]_vars =>
          At(s, c, "accept", {"closed"})' \/ At(s, c, "waiting", Rest)' \/ Ended(s)'
    BY <1>1 DEF At, Orphan, ServerMoves, ConnMoves, Rest, InUse
  <2>2. LiveInv /\ LiveInv' /\ At(s, c, "accept", {"closed"}) /\ [Next]_vars /\ <<RunStep(s)>>_serveVars =>
          At(s, c, "waiting", Rest)' \/ Ended(s)'
    <3> SUFFICES ASSUME LiveInv, LiveInv', At(s, c, "accept", {"closed"}), [Next]_vars, RunStep(s)
                 PROVE  At(s, c, "waiting", Rest)' \/ Ended(s)'
      OBVIOUS
    <3>1. ServeType /\ ServeInv /\ RunType /\ LisType /\ ConnType /\ \A d \in Conns : at[d] = s => d = c
      BY <1>1, TypeParts DEF LiveInv, DialInv, ServeType, At, Rest
    <3>2. ASSUME Accept(s) PROVE FALSE
      <4>1. queue[s] \in Seq(Conns) /\ queue[s] # <<>>
        BY <3>1, <3>2 DEF LisType, Accept
      <4>2. 1 \in DOMAIN queue[s] /\ Head(queue[s]) = queue[s][1] /\ queue[s][1] \in Conns
        BY <4>1
      <4>3. Head(queue[s]) = c
        BY <3>1, <4>2 DEF ServeInv, ServerFits, Queued
      <4> QED
        BY <3>2, <4>3 DEF Accept, ConnAt, At, Orphan
    <3>3. stage'[s] # "accept"
      BY <3>1, <3>2 DEF At, RunStep, StartServe, AcceptFails, ServeReturns, StageAt, RunType
    <3> QED
      BY <2>1, <3>3 DEF At
  <2>3. LiveInv /\ At(s, c, "accept", {"closed"}) => RunReady(s)
    BY DEF LiveInv, PipeFits, At, Orphan, RunReady
  <2> QED
    BY <1>0, <2>1, <2>2, <2>3, PTL DEF Runs, RunTurn
<1>5. Runs /\ Drained(s, c) => <>Ended(s)
  <2>1. LiveInv /\ LiveInv' /\ Drained(s, c) /\ [Next]_vars => Drained(s, c)' \/ Ended(s)'
    <3> SUFFICES ASSUME LiveInv, LiveInv', Drained(s, c), [Next]_vars PROVE Drained(s, c)' \/ Ended(s)'
      OBVIOUS
    <3>1. PICK x \in Rest : Orphan(s, c, {x})
      BY DEF Drained, At, Orphan
    <3>2. ServerMoves(s) /\ ConnMoves(s, c) /\ Orphan(s, c, ConnStates)'
      BY <1>1, <3>1
    <3>3. Done(s)'
      BY <3>2, TypeParts DEF ServerMoves, Done, KindLeft, Drained, LiveInv, DialInv, ServeType, StopType
    <3> QED
      BY <3>1, <3>2, <3>3 DEF Drained, At, Orphan, ServerMoves, ConnMoves, Rest, InUse
  <2>2. LiveInv /\ LiveInv' /\ Drained(s, c) /\ [Next]_vars /\ <<RunStep(s)>>_serveVars => Ended(s)'
    <3> SUFFICES ASSUME LiveInv, Drained(s, c), RunStep(s) PROVE Ended(s)'
      OBVIOUS
    <3>1. RunType
      BY TypeParts DEF LiveInv, DialInv, ServeType
    <3> QED
      BY <3>1 DEF Drained, At, RunStep, StartServe, Accept, AcceptFails, ServeReturns, StageAt, RunType, Ended
  <2>3. Drained(s, c) => RunReady(s)
    BY DEF RunReady, At, Drained
  <2> QED
    BY <1>0, <2>1, <2>2, <2>3, PTL DEF Runs, RunTurn
<1> QED
  BY <1>2, <1>3, <1>4, <1>5

(* Each step of either way to stop brings its end nearer (serve.go:76-90).     *)
LEMMA StopsShrink ==
  ASSUME StopType, StopType', NEW s \in Servers, StopStep(s)
  PROVE  StopLeft(s)' < StopLeft(s)
<1>1. PICK k \in Kinds, p \in {<<"off", "setup">>, <<"setup", "conns">>, <<"conns", "done">>} :
        stop[s][k] = p[1] /\ stop' = [stop EXCEPT ![s][k] = p[2]]
  BY DEF StopStep, TakeSignal, ForceStop, BeginStop, StopConns, StopEnds, Kinds
<1>2. stop'[s][k] = p[2] /\ \A l \in Kinds : l # k => stop'[s][l] = stop[s][l]
  BY <1>1 DEF StopType
<1>3. KindLeft(s, k)' = KindLeft(s, k) - 1 /\ KindLeft(s, k) \in Nat
  BY <1>1, <1>2 DEF KindLeft
<1>4. \A l \in Kinds : l # k => KindLeft(s, l)' = KindLeft(s, l) /\ KindLeft(s, l) \in Nat
  BY <1>2 DEF KindLeft
<1> QED
  BY <1>3, <1>4 DEF StopLeft, Kinds

LEMMA StopProgress ==
  ASSUME NEW s \in Servers, NEW c \in Conns, NEW n \in Nat, NEW m \in Nat, m = n + 1
  PROVE  Runs /\ Draining(s, c, m) => DrainsTo(s, c, n)
<1>0. Turns => StopTurn(s)
  BY DEF Turns
<1>1. ASSUME LiveInv, LiveInv', Draining(s, c, m), [Next]_vars
      PROVE  /\ At(s, c, "waiting", Rest)' \/ Ended(s)'
             /\ StopLeft(s)' \leq StopLeft(s) /\ StopLeft(s) \in Nat /\ StopLeft(s)' \in Nat
             /\ StopType /\ StopType'
  <2>1. Orphan(s, c, ConnStates) /\ conn[c] \in Rest
    BY <1>1 DEF Draining, At, Orphan, Rest, ConnStates
  <2>2. ServerMoves(s) /\ ConnMoves(s, c) /\ Orphan(s, c, ConnStates)'
    BY <1>1, <2>1, OrphanKept
  <2>3. At(s, c, "waiting", Rest)' \/ Ended(s)'
    BY <1>1, <2>1, <2>2 DEF Draining, At, Orphan, ServerMoves, ConnMoves, Rest, InUse
  <2>4. StopLeft(s)' \leq StopLeft(s) /\ StopLeft(s) \in Nat /\ StopLeft(s)' \in Nat
    <3>1. \A k \in Kinds : KindLeft(s, k) \in Nat /\ KindLeft(s, k)' \in Nat
      BY DEF KindLeft
    <3> QED
      BY <2>2, <3>1 DEF ServerMoves, StopLeft, Kinds
  <2> QED
    BY <1>1, <2>3, <2>4, TypeParts DEF LiveInv, DialInv, ServeType
<1>2. LiveInv /\ LiveInv' /\ Draining(s, c, m) /\ [Next]_vars =>
        Draining(s, c, m)' \/ Draining(s, c, n)' \/ Drained(s, c)' \/ Ended(s)'
  BY <1>1 DEF Draining, Drained
<1>3. LiveInv /\ LiveInv' /\ Draining(s, c, m) /\ [Next]_vars /\ <<StopStep(s)>>_serveVars =>
        Draining(s, c, n)' \/ Drained(s, c)' \/ Ended(s)'
  <2> SUFFICES ASSUME LiveInv, LiveInv', Draining(s, c, m), [Next]_vars, StopStep(s)
               PROVE  Draining(s, c, n)' \/ Drained(s, c)' \/ Ended(s)'
    OBVIOUS
  <2>1. StopLeft(s)' < StopLeft(s) /\ StopLeft(s) \leq m
    BY <1>1, StopsShrink DEF Draining
  <2>2. StopLeft(s)' \leq n
    BY <1>1, <2>1
  <2> QED
    BY <1>1, <2>2 DEF Draining, Drained
<1>4. LiveInv /\ Draining(s, c, m) => StopReady(s)
  <2>1. ASSUME LiveInv, Draining(s, c, m) PROVE StopReady(s)
    <3>1. Alive(s) /\ stage[s] = "waiting"
      BY <2>1 DEF Draining, At, Alive
    <3>2. StopType /\ Quit(s) /\ ~Done(s)
      BY <2>1, TypeParts DEF Draining, At, LiveInv, OpenFits, DialInv, ServeType
    <3>3. PICK k \in Kinds : stop[s][k] \in {"setup", "conns"}
      BY <3>2 DEF Quit, Done, StopType
    <3>4. \A d \in Conns : at[d] = s => conn[d] \in Rest
      BY <2>1 DEF Draining, At, Orphan, LiveInv, DialInv, ServeInv, ListenerFits, Stdio
    <3>5. ConnsAt(s, {"accepted", "handshake"}) = {} /\ ConnsAt(s, {"served"}) = {}
      BY <3>4 DEF ConnsAt, Rest
    <3> QED
      BY <3>1, <3>3, <3>5 DEF StopReady
  <2> QED
    BY <2>1
<1> HIDE DEF Draining, Drained
<1> QED
  BY <1>0, <1>2, <1>3, <1>4, PTL DEF Runs, StopTurn, DrainsTo

LEMMA OrphanEnds ==
  ASSUME NEW s \in Servers, NEW c \in Conns
  PROVE  Runs /\ Orphan(s, c, ConnStates) => <>Ended(s)
<1>1. LiveInv /\ Orphan(s, c, ConnStates) =>
        \/ Orphan(s, c, {"accepted"}) \/ Orphan(s, c, {"handshake"}) \/ Orphan(s, c, {"served"})
        \/ At(s, c, "listening", {"queued"}) \/ At(s, c, "listening", {"closed"})
        \/ At(s, c, "accept", {"queued"}) \/ At(s, c, "accept", {"closed"})
        \/ At(s, c, "waiting", Rest) \/ Ended(s)
  <2> SUFFICES ASSUME LiveInv, Orphan(s, c, ConnStates)
               PROVE  \/ conn[c] \in InUse \/ Ended(s)
                      \/ conn[c] \in Rest /\ stage[s] \in {"listening", "accept", "waiting"}
    BY DEF Orphan, At, InUse, Rest
  <2>1. RunType
    BY TypeParts DEF LiveInv, DialInv, ServeType
  <2>2. stage[s] \notin {"idle", "binding"} /\ conn[c] \notin {"idle", "upgraded"}
    BY ServeNoneAssumption DEF LiveInv, DialInv, ServeInv, ServerFits, ConnFits, Untouched, PipeFits, Orphan
  <2> QED
    BY <2>1, <2>2 DEF Orphan, ConnStates, InUse, Rest, RunType, Stages, Ended
<1>2. /\ Orphan(s, c, {"closed"}) => Orphan(s, c, ConnStates)
      /\ Orphan(s, c, {"handshake", "closed"}) => Orphan(s, c, {"handshake"}) \/ Orphan(s, c, {"closed"})
  BY DEF Orphan, ConnStates
<1>3. LiveInv /\ Orphan(s, c, {"closed"}) =>
        \/ At(s, c, "listening", {"closed"}) \/ At(s, c, "accept", {"closed"})
        \/ At(s, c, "waiting", Rest) \/ Ended(s)
  BY <1>1, <1>2 DEF At, Orphan
<1>4. Runs /\ Orphan(s, c, {"accepted"}) => <>Orphan(s, c, {"handshake", "closed"})
  BY OrphanProgress
<1>5. Runs /\ Orphan(s, c, {"handshake"}) => <>Orphan(s, c, {"closed"})
  BY OrphanProgress
<1>6. Runs /\ Orphan(s, c, {"served"}) => <>Orphan(s, c, {"closed"})
  BY OrphanProgress
<1>7. Runs /\ At(s, c, "listening", {"queued"}) => IsServed(s, c, "queued")
  BY ServeProgress DEF Rest
<1>8. Runs /\ At(s, c, "listening", {"closed"}) => IsServed(s, c, "closed")
  BY ServeProgress DEF Rest
<1>9. Runs /\ At(s, c, "accept", {"queued"}) =>
        <>(Orphan(s, c, {"accepted"}) \/ At(s, c, "waiting", Rest) \/ Ended(s))
  BY ServeProgress
<1>10. Runs /\ At(s, c, "accept", {"closed"}) => <>(At(s, c, "waiting", Rest) \/ Ended(s))
  BY ServeProgress
<1>11. Runs /\ Drained(s, c) => <>Ended(s)
  BY ServeProgress
<1>12. LiveInv /\ At(s, c, "waiting", Rest) => Drained(s, c) \/ Draining(s, c, 6)
  BY DEF Drained, Draining, StopLeft, KindLeft
<1>13. LiveInv => ~Draining(s, c, 0)
  BY TypeParts DEF Draining, StopLeft, KindLeft, Done, Kinds, LiveInv, DialInv, ServeType, StopType
<1>14. Runs /\ Draining(s, c, 6) => DrainsTo(s, c, 5)
  BY StopProgress
<1>15. Runs /\ Draining(s, c, 5) => DrainsTo(s, c, 4)
  BY StopProgress
<1>16. Runs /\ Draining(s, c, 4) => DrainsTo(s, c, 3)
  BY StopProgress
<1>17. Runs /\ Draining(s, c, 3) => DrainsTo(s, c, 2)
  BY StopProgress
<1>18. Runs /\ Draining(s, c, 2) => DrainsTo(s, c, 1)
  BY StopProgress
<1>19. Runs /\ Draining(s, c, 1) => DrainsTo(s, c, 0)
  BY StopProgress
<1>20. Runs /\ At(s, c, "waiting", Rest) => <>Ended(s)
  BY <1>11, <1>12, <1>13, <1>14, <1>15, <1>16, <1>17, <1>18, <1>19, PTL DEF Runs, DrainsTo
<1>21. Runs /\ Orphan(s, c, {"closed"}) => <>Ended(s)
  BY <1>3, <1>8, <1>10, <1>20, PTL DEF Runs, IsServed
<1>22. Runs /\ Orphan(s, c, {"accepted"}) => <>Ended(s)
  BY <1>2, <1>4, <1>5, <1>21, PTL DEF Runs
<1> QED
  BY <1>1, <1>5, <1>6, <1>7, <1>8, <1>9, <1>10, <1>20, <1>21, <1>22, PTL DEF Runs, IsServed

(* A server over stdin and stdout ends with its parent: it reads the end of     *)
(* stdin, its listener fails with its connection, and Serve returns, at once or *)
(* when it has been stopped (stdio.go, serve.go:76-90).                      *)
THEOREM StdioEndsCorrect == Spec /\ []Turns => StdioEndsWithParent
<1>1. ASSUME NEW c \in Conns, NEW s \in Servers
      PROVE  Spec /\ []Turns =>
               (at[c] = s /\ scheme[s] = "stdio" /\ c \in left ~> stage[s] \in {"returned", "dead"})
  <2>1. LiveInv /\ at[c] = s /\ scheme[s] = "stdio" /\ c \in left => Orphan(s, c, ConnStates)
    BY TypeParts DEF LiveInv, DialInv, ServeType, ConnType, Orphan, Stdio
  <2>2. Runs /\ Orphan(s, c, ConnStates) => <>Ended(s)
    BY OrphanEnds
  <2>3. Ended(s) => stage[s] \in {"returned", "dead"}
    BY DEF Ended
  <2> QED
    BY <2>1, <2>2, <2>3, LiveCorrect, PTL DEF Spec, Runs
<1> QED
  BY <1>1 DEF StdioEndsWithParent

-----------------------------------------------------------------------------
(* How DialStdio ends, and what it leaves.                                    *)

LEMMA DialMoves ==
  ASSUME LiveInv, [Next]_vars
  PROVE  /\ ctx = "ended" => ctx' = "ended"
         /\ dial = "byte" => dial' \in {"byte", "handshake", "failed"}
         /\ dial = "handshake" => dial' \in {"handshake", "connected", "retry", "failed"}
         /\ dial = "retry" => dial' \in {"retry", "failed"}
         /\ dial \in {"failed", "closed"} => dial' = dial
         /\ dial # "idle" /\ reader # "reading" => reader' # "reading"
         /\ DialStep => dial' # dial
BY DEF Next, dialVars, StartChild, ReaderEnds, CloseConnection, ContextEnds, DialStep, FirstByte, Connected,
   StartFails, StartTimesOut, HandshakeBreaks, HandshakeTimesOut, Fails, DialAt, vars

(* With its context, and with the child, DialStdio gets on.                    *)
Waiting(from) == dial = from /\ ctx = "ended"
Failing(s) == Stdio(s) /\ Ended(s) /\ dial = "byte" /\ reader = "reading"
GoesOn == dial = "byte" /\ reader # "reading"

LEMMA DialProgress ==
  /\ Runs /\ Waiting("byte") => <>(Waiting("handshake") \/ dial = "failed")
  /\ Runs /\ Waiting("handshake") => <>(Waiting("retry") \/ dial \in {"connected", "failed"})
  /\ Runs /\ Waiting("retry") => <>(dial = "failed")
  /\ Runs /\ GoesOn => <>(dial # "byte")
<1>0. Turns => DialTurn
  BY DEF Turns
<1>1. Runs /\ Waiting("byte") => <>(Waiting("handshake") \/ dial = "failed")
  <2>1. LiveInv /\ Waiting("byte") /\ [Next]_vars =>
          Waiting("byte")' \/ Waiting("handshake")' \/ (dial = "failed")'
    BY DialMoves DEF Waiting
  <2>2. LiveInv /\ Waiting("byte") /\ [Next]_vars /\ <<DialStep>>_vars =>
          Waiting("handshake")' \/ (dial = "failed")'
    BY DialMoves DEF Waiting
  <2>3. Waiting("byte") => DialReady
    BY DEF DialReady, Waiting
  <2> QED
    BY <1>0, <2>1, <2>2, <2>3, PTL DEF Runs, DialTurn
<1>2. Runs /\ Waiting("handshake") => <>(Waiting("retry") \/ dial \in {"connected", "failed"})
  <2>1. LiveInv /\ Waiting("handshake") /\ [Next]_vars =>
          Waiting("handshake")' \/ Waiting("retry")' \/ (dial \in {"connected", "failed"})'
    BY DialMoves DEF Waiting
  <2>2. LiveInv /\ Waiting("handshake") /\ [Next]_vars /\ <<DialStep>>_vars =>
          Waiting("retry")' \/ (dial \in {"connected", "failed"})'
    BY DialMoves DEF Waiting
  <2>3. Waiting("handshake") => DialReady
    BY DEF DialReady, Waiting
  <2> QED
    BY <1>0, <2>1, <2>2, <2>3, PTL DEF Runs, DialTurn
<1>3. Runs /\ Waiting("retry") => <>(dial = "failed")
  <2>1. LiveInv /\ Waiting("retry") /\ [Next]_vars => Waiting("retry")' \/ (dial = "failed")'
    BY DialMoves DEF Waiting
  <2>2. LiveInv /\ Waiting("retry") /\ [Next]_vars /\ <<DialStep>>_vars => (dial = "failed")'
    BY DialMoves DEF Waiting
  <2>3. Waiting("retry") => DialReady
    BY DEF DialReady, Waiting
  <2> QED
    BY <1>0, <2>1, <2>2, <2>3, PTL DEF Runs, DialTurn
<1>4. Runs /\ GoesOn => <>(dial # "byte")
  <2>1. LiveInv /\ GoesOn /\ [Next]_vars => GoesOn' \/ (dial # "byte")'
    BY DialMoves DEF GoesOn
  <2>2. LiveInv /\ GoesOn /\ [Next]_vars /\ <<DialStep>>_vars => (dial # "byte")'
    BY DialMoves DEF GoesOn
  <2>3. GoesOn => DialReady
    BY DEF DialReady, GoesOn
  <2> QED
    BY <1>0, <2>1, <2>2, <2>3, PTL DEF Runs, DialTurn
<1> QED
  BY <1>1, <1>2, <1>3, <1>4

(* DialStdio has failed or closed its connection, and the child is gone.       *)
Over == dial \in {"failed", "closed"}
Gone(s) == Stdio(s) /\ Ended(s)
Clean == reader # "reading" /\ \A s \in Servers : Stdio(s) => ~Alive(s)

LEMMA GoneKept ==
  ASSUME LiveInv, [Next]_vars, NEW s \in Servers, Gone(s)
  PROVE  Gone(s)'
<1>1. Stdio(s)'
  BY StartShape DEF LiveInv, Gone, Stdio
<1> QED
  BY <1>1, EndedKept DEF Gone

(* The goroutine that reads the first byte ends with the child at the latest.   *)
LEMMA ReaderProgress ==
  ASSUME NEW s \in Servers
  PROVE  /\ Runs /\ Failing(s) => <>(dial # "byte" \/ GoesOn)
         /\ Runs /\ Over /\ Gone(s) => <>Clean
<1>0. Turns => ReaderTurn(s)
  BY DEF Turns
<1>1. ReaderEnds(s) => reader' # "reading"
  BY DEF ReaderEnds
<1>2. Gone(s) /\ reader = "reading" => ReaderReady(s)
  BY DEF ReaderReady, Gone, Ended, Eof
<1>3. Runs /\ Failing(s) => <>(dial # "byte" \/ GoesOn)
  <2>1. LiveInv /\ Failing(s) /\ [Next]_vars => Failing(s)' \/ (dial # "byte")' \/ GoesOn'
    BY GoneKept DEF Failing, Gone, GoesOn
  <2>2. LiveInv /\ Failing(s) /\ [Next]_vars /\ <<ReaderEnds(s)>>_vars => (dial # "byte")' \/ GoesOn'
    BY <1>1 DEF GoesOn
  <2>3. Failing(s) => ReaderReady(s)
    BY <1>2 DEF Failing, Gone
  <2> QED
    BY <1>0, <2>1, <2>2, <2>3, PTL DEF Runs, ReaderTurn
<1>4. Runs /\ Over /\ Gone(s) => <>Clean
  <2> DEFINE P == Over /\ Gone(s) /\ reader = "reading"
  <2>1. LiveInv /\ Over /\ Gone(s) => P \/ Clean
    <3> SUFFICES ASSUME LiveInv, Gone(s), NEW t \in Servers, Stdio(t) PROVE ~Alive(t)
      BY DEF Clean
    <3>1. t = s
      BY OneChild, TypeParts DEF LiveInv, DialInv, Gone
    <3> QED
      BY <3>1 DEF Gone, Ended, Alive
  <2>2. LiveInv /\ LiveInv' /\ P /\ [Next]_vars => Over' /\ Gone(s)'
    BY DialMoves, GoneKept DEF Over
  <2>3. LiveInv' /\ Over' /\ Gone(s)' => P' \/ Clean'
    BY <2>1, PTL
  <2>4. LiveInv /\ P /\ [Next]_vars /\ <<ReaderEnds(s)>>_vars => ~P'
    BY <1>1
  <2>5. P => ReaderReady(s)
    BY <1>2
  <2> HIDE DEF P
  <2> QED
    BY <1>0, <2>1, <2>2, <2>3, <2>4, <2>5, PTL DEF Runs, ReaderTurn
<1> QED
  BY <1>3, <1>4

(* However DialStdio ends, its child ends, and the goroutine it started.        *)
LEMMA OverClean == Runs /\ Over => <>Clean
<1>1. LiveInv /\ Over => \E s \in Servers, c \in Conns : Orphan(s, c, ConnStates)
  <2> SUFFICES ASSUME LiveInv, Over PROVE \E s \in Servers, c \in Conns : Orphan(s, c, ConnStates)
    OBVIOUS
  <2>1. PICK s \in Servers : Stdio(s) /\ stage[s] # "idle"
    BY DEF LiveInv, DialFits, Over
  <2>2. PICK c \in Conns : at[c] = s
    BY <2>1 DEF LiveInv, PipeFits
  <2>3. c \in left
    BY <2>1, <2>2 DEF LiveInv, DialFits, Over, Pipe
  <2> QED
    BY <2>1, <2>2, <2>3, TypeParts DEF LiveInv, DialInv, ServeType, ConnType, Orphan
<1>2. ASSUME NEW s \in Servers, NEW c \in Conns
      PROVE  Runs /\ Over /\ Orphan(s, c, ConnStates) => <>Clean
  <2>1. Runs /\ Orphan(s, c, ConnStates) => <>Ended(s)
    BY OrphanEnds
  <2>2. Runs /\ Over /\ Gone(s) => <>Clean
    BY ReaderProgress
  <2>3. LiveInv /\ [Next]_vars /\ Over => Over'
    BY DialMoves DEF Over
  <2>4. LiveInv /\ [Next]_vars /\ Stdio(s) => Stdio(s)'
    BY StartShape DEF LiveInv, Stdio
  <2>5. Orphan(s, c, ConnStates) => Stdio(s)
    BY DEF Orphan
  <2>6. Stdio(s) /\ Ended(s) => Gone(s)
    BY DEF Gone
  <2> QED
    BY <2>1, <2>2, <2>3, <2>4, <2>5, <2>6, PTL DEF Runs
<1>3. Runs => LiveInv
  BY PTL DEF Runs
<1> QED
  BY <1>1, <1>2, <1>3

(* DialStdio ends with its context, wherever it is, and with a child that dies  *)
(* before its first byte; then so do the child, and a launcher's, and the       *)
(* goroutine that reads for that byte (grpcclient/client.go:62-135).           *)
THEOREM DialEndsCorrect == Spec /\ []Turns => DialEnds
<1> DEFINE Fair == Spec /\ []Turns
<1>0. Fair => []Runs
  BY LiveCorrect, PTL DEF Spec, Runs
<1>1. Fair => (ctx = "ended" ~> dial \in {"connected", "failed", "closed"})
  <2>1. LiveInv /\ ctx = "ended" =>
          \/ Waiting("byte") \/ Waiting("handshake") \/ Waiting("retry")
          \/ dial \in {"connected", "failed", "closed"}
    BY TypeParts DEF LiveInv, DialInv, DialType, DialFits, Waiting
  <2>2. Runs /\ Waiting("byte") => <>(Waiting("handshake") \/ dial = "failed")
    BY DialProgress
  <2>3. Runs /\ Waiting("handshake") => <>(Waiting("retry") \/ dial \in {"connected", "failed"})
    BY DialProgress
  <2>4. Runs /\ Waiting("retry") => <>(dial = "failed")
    BY DialProgress
  <2>5. dial = "failed" \/ dial \in {"connected", "failed"} => dial \in {"connected", "failed", "closed"}
    OBVIOUS
  <2> QED
    BY <1>0, <2>1, <2>2, <2>3, <2>4, <2>5, PTL DEF Runs
<1>2. ASSUME NEW s \in Servers
      PROVE  Fair => (Stdio(s) /\ Eof(s) /\ dial = "byte" ~> dial # "byte")
  <2>1. Stdio(s) /\ Eof(s) /\ dial = "byte" => Failing(s) \/ GoesOn
    BY DEF Failing, GoesOn, Eof, Ended
  <2>2. Runs /\ Failing(s) => <>(dial # "byte" \/ GoesOn)
    BY ReaderProgress
  <2>3. Runs /\ GoesOn => <>(dial # "byte")
    BY DialProgress
  <2> QED
    BY <1>0, <2>1, <2>2, <2>3, PTL DEF Runs
<1>3. Fair => (Over ~> Clean)
  BY <1>0, OverClean, PTL DEF Runs
<1>4. Fair => (dial \in {"failed", "closed"} ~>
                 reader # "reading" /\ \A s \in Servers : Stdio(s) => ~Alive(s))
  BY <1>3 DEF Over, Clean
<1> HIDE DEF Fair
<1>5. Fair => DialEnds
  BY <1>1, <1>2, <1>4 DEF DialEnds
<1> QED
  BY <1>5 DEF Fair

-----------------------------------------------------------------------------
(* How the ws listener's handlers end.                                       *)

Upgraded(c, s) == conn[c] = "upgraded" /\ at[c] = s
Blocked(c, s, where) == Upgraded(c, s) /\ ~UpgradeReady(c) /\ stage[s] = where
Unblocked(c) == UpgradeReady(c) \/ conn[c] # "upgraded"

LEMMA UpgradedKept ==
  ASSUME LiveInv, LiveInv', [Next]_vars, NEW c \in Conns, NEW s \in Servers, Upgraded(c, s)
  PROVE  /\ Upgraded(c, s)' \/ conn'[c] # "upgraded"
         /\ ServerMoves(s)
<1>1. at'[c] = s
  BY AtMoves DEF LiveInv, Upgraded
<1>2. stage[s] \notin {"idle", "binding"}
  BY DEF LiveInv, DialInv, ServeInv, ServerFits, Untouched, Upgraded
<1> QED
  BY <1>1, <1>2, ServerSteps DEF LiveInv, Upgraded

(* A handler that cannot go on waits for a full queue that is being accepted.  *)
LEMMA BlockedIs ==
  ASSUME LiveInv, NEW c \in Conns, NEW s \in Servers, Upgraded(c, s), ~UpgradeReady(c)
  PROVE  /\ stage[s] \in {"listening", "accept"} /\ lis[s] = "open"
         /\ queue[s] # <<>> /\ queue[s] \in Seq(Conns) /\ Len(queue[s]) = Cap
<1>1. LisType
  BY TypeParts DEF LiveInv, DialInv, ServeType
<1>2. scheme[s] = "ws" /\ lis[s] \notin {"none", "closed"} /\ ~(Len(queue[s]) < Cap)
  BY DEF LiveInv, OpenFits, Upgraded, UpgradeReady
<1>3. lis[s] = "open" /\ queue[s] \in Seq(Conns) /\ Len(queue[s]) \leq Cap /\ Len(queue[s]) \in Nat
  BY <1>1, <1>2 DEF LisType
<1>4. Len(queue[s]) = Cap /\ Cap # 0
  BY <1>2, <1>3
<1> QED
  BY <1>3, <1>4 DEF LiveInv, OpenFits

LEMMA UpgradeProgress ==
  ASSUME NEW c \in Conns, NEW s \in Servers
  PROVE  /\ Runs /\ Blocked(c, s, "listening") => <>(Blocked(c, s, "accept") \/ Unblocked(c))
         /\ Runs /\ Blocked(c, s, "accept") => <>Unblocked(c)
<1>0. Turns => RunTurn(s)
  BY DEF Turns
<1>4. LiveInv /\ Upgraded(c, s) /\ ~UpgradeReady(c) => stage[s] \in {"listening", "accept"} /\ Len(queue[s]) = Cap
  BY BlockedIs
<1>5. LiveInv' /\ Upgraded(c, s)' /\ ~UpgradeReady(c)' =>
        (stage[s] \in {"listening", "accept"})' /\ (Len(queue[s]) = Cap)'
  BY <1>4, PTL
<1>1. ASSUME LiveInv, LiveInv', [Next]_vars, NEW w \in {"listening", "accept"}, Blocked(c, s, w)
      PROVE  Blocked(c, s, w)' \/ Blocked(c, s, "accept")' \/ Unblocked(c)'
  <2>1. ServerMoves(s) /\ (Upgraded(c, s)' \/ conn'[c] # "upgraded")
    BY <1>1, UpgradedKept DEF Blocked
  <2>2. CASE Upgraded(c, s)' /\ ~UpgradeReady(c)'
    <3>1. stage'[s] \in {"listening", "accept"}
      BY <1>1, <1>5, <2>2
    <3> QED
      BY <1>1, <2>1, <2>2, <3>1 DEF Blocked, ServerMoves, Ended
  <2> QED
    BY <2>1, <2>2 DEF Unblocked
<1>2. Runs /\ Blocked(c, s, "listening") => <>(Blocked(c, s, "accept") \/ Unblocked(c))
  <2>1. LiveInv /\ LiveInv' /\ Blocked(c, s, "listening") /\ [Next]_vars =>
          Blocked(c, s, "listening")' \/ Blocked(c, s, "accept")' \/ Unblocked(c)'
    BY <1>1
  <2>2. LiveInv /\ LiveInv' /\ Blocked(c, s, "listening") /\ [Next]_vars /\ <<RunStep(s)>>_serveVars =>
          Blocked(c, s, "accept")' \/ Unblocked(c)'
    <3> SUFFICES ASSUME LiveInv, LiveInv', Blocked(c, s, "listening"), [Next]_vars, RunStep(s)
                 PROVE  Blocked(c, s, "accept")' \/ Unblocked(c)'
      OBVIOUS
    <3>1. stage'[s] # "listening"
      BY TypeParts DEF LiveInv, DialInv, ServeType, RunType, Blocked, RunStep, StartServe, Accept, AcceptFails,
         ServeReturns, StageAt
    <3> QED
      BY <2>1, <3>1 DEF Blocked
  <2>3. Blocked(c, s, "listening") => RunReady(s)
    BY DEF RunReady, Blocked
  <2> QED
    BY <1>0, <2>1, <2>2, <2>3, PTL DEF Runs, RunTurn
<1>3. Runs /\ Blocked(c, s, "accept") => <>Unblocked(c)
  <2>1. LiveInv /\ LiveInv' /\ Blocked(c, s, "accept") /\ [Next]_vars => Blocked(c, s, "accept")' \/ Unblocked(c)'
    BY <1>1
  <2>2. LiveInv /\ LiveInv' /\ Blocked(c, s, "accept") /\ [Next]_vars /\ <<RunStep(s)>>_serveVars => Unblocked(c)'
    <3> SUFFICES ASSUME LiveInv, LiveInv', Blocked(c, s, "accept"), [Next]_vars, RunStep(s), ~Unblocked(c)'
                 PROVE  FALSE
      OBVIOUS
    <3>1. LisType /\ queue[s] \in Seq(Conns) /\ queue[s] # <<>> /\ Len(queue[s]) = Cap /\ lis[s] = "open"
      BY BlockedIs, TypeParts DEF Blocked, LiveInv, DialInv, ServeType
    <3>2. Accept(s)
      BY <3>1 DEF Blocked, RunStep, StartServe, AcceptFails, ServeReturns, StageAt
    <3>3. queue'[s] = Tail(queue[s])
      BY <3>1, <3>2 DEF Accept, LisType
    <3>4. Upgraded(c, s)' /\ ~UpgradeReady(c)'
      BY UpgradedKept DEF Blocked, Unblocked
    <3>5. Len(queue'[s]) = Cap
      BY <1>5, <3>4
    <3> QED
      BY <3>1, <3>3, <3>5
  <2>3. LiveInv /\ Blocked(c, s, "accept") => RunReady(s)
    BY BlockedIs DEF Blocked, RunReady
  <2> QED
    BY <1>0, <2>1, <2>2, <2>3, PTL DEF Runs, RunTurn
<1> QED
  BY <1>2, <1>3

(* Every handler of the ws listener ends: Accept makes room for it again and    *)
(* again until it has its turn, or the listener is closed (ws.go).            *)
THEOREM UpgradesEndCorrect == Spec /\ []Turns => UpgradesEnd
<1>1. ASSUME NEW c \in Conns, NEW s \in Servers
      PROVE  Runs /\ Upgraded(c, s) => <>(conn[c] # "upgraded")
  <2>0. Turns => UpgradeTurn(c)
    BY DEF Turns
  <2>1. LiveInv /\ LiveInv' /\ [Next]_vars /\ Upgraded(c, s) => Upgraded(c, s)' \/ (conn[c] # "upgraded")'
    BY UpgradedKept
  <2>2. LiveInv /\ Upgraded(c, s) => Blocked(c, s, "listening") \/ Blocked(c, s, "accept") \/ Unblocked(c)
    BY BlockedIs DEF Blocked, Unblocked
  <2>3. Runs /\ Blocked(c, s, "listening") => <>(Blocked(c, s, "accept") \/ Unblocked(c))
    BY UpgradeProgress
  <2>4. Runs /\ Blocked(c, s, "accept") => <>Unblocked(c)
    BY UpgradeProgress
  <2>5. Unblocked(c) => UpgradeReady(c) \/ conn[c] # "upgraded"
    BY DEF Unblocked
  <2>6. LiveInv /\ <<UpgradeStep(c)>>_serveVars => (conn[c] # "upgraded")'
    BY TypeParts DEF LiveInv, DialInv, ServeType, ConnType, UpgradeStep, Enqueue, RefuseUpgrade, ConnAt
  <2> QED
    BY <2>0, <2>1, <2>2, <2>3, <2>4, <2>5, <2>6, PTL DEF Runs, UpgradeTurn
<1>2. ASSUME NEW c \in Conns
      PROVE  Spec /\ []Turns => (conn[c] = "upgraded" ~> conn[c] # "upgraded")
  <2>1. LiveInv /\ conn[c] = "upgraded" => \E s \in Servers : Upgraded(c, s)
    BY TypeParts DEF LiveInv, DialInv, ServeType, ConnType, ServeInv, ConnFits, Upgraded
  <2>2. Runs => LiveInv
    BY PTL DEF Runs
  <2>3. Runs /\ conn[c] = "upgraded" => <>(conn[c] # "upgraded")
    BY <1>1, <2>1, <2>2
  <2> QED
    BY <2>3, LiveCorrect, PTL DEF Spec, Runs
<1> QED
  BY <1>2 DEF UpgradesEnd
=============================================================================
