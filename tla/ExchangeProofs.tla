-------------------------- MODULE ExchangeProofs --------------------------
(* Theorems about Exchange, for every number of calls in both directions,  *)
(* whatever is nested in what, and for every width of the connection.      *)
EXTENDS Exchange, TLAPS

USE CallerAssumption, ParentAssumption, ExchangeMessagesAssumption, WindowAssumption,
    NoisyAssumption, ExchangeNoneAssumption

Refusals == {"invalid request", "invalid params", "method not found"}

(* What a message on its way to an end stands for.                           *)
Stands(e, w) ==
  /\ w.kind = "request" => call[w.k] \in {"wait", "done"} /\ Callee(w.k) = e
  /\ w.kind = "response" => /\ task[w.k] = "ended" /\ verdict[w.k] = w.verdict
                            /\ Identified(w.k)

(* Where the two ends of a call stand towards each other.                     *)
Matched(k) ==
  /\ call[k] # "idle" => shape[k] \in Messages
  /\ call[k] # "done" <=> outcome[k] = None
  /\ call[k] \in {"idle", "lock", "write"} => task[k] = "idle"
  /\ task[k] \in {"lock", "write"} => verdict[k] \in Verdicts /\ Identified(k)
  /\ task[k] \in {"idle", "handler"} => verdict[k] = None
  /\ task[k] = "ended" => verdict[k] # None
  /\ ch[k] # None => task[k] = "ended" /\ verdict[k] = ch[k]
  /\ outcome[k] \in Verdicts => task[k] = "ended" /\ verdict[k] = outcome[k]
  /\ shape[k] \in InvokedRequest(Caller[k]) /\ shape[k].method # "unknown"
     => verdict[k] \notin Refusals

AllStand == \A e \in Ends : \A i \in 1..Len(wire[e]) : Stands(e, wire[e][i])
AllMatch == \A k \in Calls : Matched(k)
ExchangeInv == TypeOK /\ AllStand /\ AllMatch

-----------------------------------------------------------------------------
(* The messages and the two directions.                                     *)

WireType == /\ wire \in [Ends -> Seq(Wire)]
            /\ \A e \in Ends : Len(wire[e]) \in Nat /\ Len(wire[e]) <= Window

LEMMA WireMembers ==
  /\ \A k \in Calls : [kind |-> "request", k |-> k] \in Wire
  /\ \A k \in Calls : \A v \in Verdicts : [kind |-> "response", k |-> k, verdict |-> v] \in Wire
  /\ \A f \in Frames : [kind |-> "frame", frame |-> f] \in Wire
  /\ [kind |-> "refusal"] \in Wire
BY DEF Wire

LEMMA WireFields ==
  ASSUME NEW w \in Wire
  PROVE  /\ w.kind \in {"request", "response", "frame", "refusal"}
         /\ w.kind \in {"request", "response"} => w.k \in Calls
         /\ w.kind = "response" => w.verdict \in Verdicts
         /\ w.kind = "frame" => w.frame \in Frames
<1>1. CASE w \in [kind : {"request"}, k : Calls]
  BY <1>1
<1>2. CASE w \in [kind : {"response"}, k : Calls, verdict : Verdicts]
  BY <1>2
<1>3. CASE w \in [kind : {"frame"}, frame : Frames]
  BY <1>3
<1>4. CASE w \in [kind : {"refusal"}]
  BY <1>4
<1> QED
  BY <1>1, <1>2, <1>3, <1>4 DEF Wire

LEMMA OtherEnd == \A e \in Ends : Other(e) \in Ends /\ Other(e) # e /\ Other(Other(e)) = e
BY DEF Ends, Other

LEMMA CalleeEnd == \A k \in Calls : Caller[k] \in Ends /\ Callee(k) \in Ends /\ Other(Callee(k)) = Caller[k]
BY OtherEnd DEF Callee

LEMMA WireTyped == TypeOK => WireType
<1> SUFFICES ASSUME TypeOK PROVE WireType
  OBVIOUS
<1>1. \A e \in Ends : wire[e] \in Seq(Wire)
  BY DEF TypeOK
<1>2. \A e \in Ends : Len(wire[e]) \in Nat
  BY <1>1
<1> QED
  BY <1>2 DEF TypeOK, WireType

(* What is appended is the only message that is new.                         *)
LEMMA AppendedWire ==
  ASSUME WireType, NEW e \in Ends, NEW m \in Wire, Len(wire[e]) < Window,
         wire' = [wire EXCEPT ![e] = Append(@, m)]
  PROVE  /\ WireType'
         /\ \A x \in Ends : \A i \in 1..Len(wire'[x]) :
              \/ x = e /\ wire'[x][i] = m
              \/ i \in 1..Len(wire[x]) /\ wire'[x][i] = wire[x][i]
<1> DEFINE old == wire[e]
           longer == Append(old, m)
<1>1. old \in Seq(Wire) /\ Len(old) \in Nat
  BY DEF WireType
<1>2. /\ longer \in Seq(Wire) /\ Len(longer) = Len(old) + 1
      /\ \A i \in 1..Len(longer) : longer[i] = m \/ (i \in 1..Len(old) /\ longer[i] = old[i])
  BY <1>1
<1>3. wire' = [wire EXCEPT ![e] = longer]
  OBVIOUS
<1>4. wire'[e] = longer /\ \A x \in Ends \ {e} : wire'[x] = wire[x]
  BY <1>3 DEF WireType
<1> HIDE DEF longer
<1>5. wire' \in [Ends -> Seq(Wire)]
  BY <1>2, <1>3 DEF WireType
<1>6. \A x \in Ends : Len(wire'[x]) \in Nat /\ Len(wire'[x]) <= Window
  BY <1>1, <1>2, <1>4 DEF WireType
<1>7. \A x \in Ends : \A i \in 1..Len(wire'[x]) :
        \/ x = e /\ wire'[x][i] = m
        \/ i \in 1..Len(wire[x]) /\ wire'[x][i] = wire[x][i]
  BY <1>2, <1>4
<1> QED
  BY <1>5, <1>6, <1>7 DEF WireType

(* What is taken is the oldest message, and the others stay.                  *)
LEMMA TakenWire ==
  ASSUME WireType, NEW e \in Ends, wire[e] # <<>>, wire' = [wire EXCEPT ![e] = Tail(@)]
  PROVE  /\ WireType' /\ Head(wire[e]) \in Wire
         /\ 1 \in 1..Len(wire[e]) /\ Head(wire[e]) = wire[e][1]
         /\ \A x \in Ends : \A i \in 1..Len(wire'[x]) :
              \E j \in 1..Len(wire[x]) : wire'[x][i] = wire[x][j]
<1> DEFINE old == wire[e]
           shorter == Tail(old)
<1>1. old \in Seq(Wire) /\ Len(old) \in Nat /\ old # <<>>
  BY DEF WireType
<1>2. /\ Head(old) \in Wire /\ Head(old) = old[1] /\ 1 \in 1..Len(old)
      /\ shorter \in Seq(Wire) /\ Len(shorter) = Len(old) - 1
      /\ \A i \in 1..Len(shorter) : i + 1 \in 1..Len(old) /\ shorter[i] = old[i + 1]
  BY <1>1
<1>3. wire' = [wire EXCEPT ![e] = shorter]
  OBVIOUS
<1>4. wire'[e] = shorter /\ \A x \in Ends \ {e} : wire'[x] = wire[x]
  BY <1>3 DEF WireType
<1> HIDE DEF shorter
<1>5. wire' \in [Ends -> Seq(Wire)]
  BY <1>2, <1>3 DEF WireType
<1>6. \A x \in Ends : Len(wire'[x]) \in Nat /\ Len(wire'[x]) <= Window
  BY <1>1, <1>2, <1>4, WindowAssumption DEF WireType
<1>7. \A x \in Ends : \A i \in 1..Len(wire'[x]) :
        \E j \in 1..Len(wire[x]) : wire'[x][i] = wire[x][j]
  BY <1>2, <1>4
<1> QED
  BY <1>2, <1>5, <1>6, <1>7 DEF WireType

LEMMA EmptyWire ==
  ASSUME wire' = [e \in Ends |-> <<>>]
  PROVE  WireType' /\ \A e \in Ends : 1..Len(wire'[e]) = {}
<1>1. \A e \in Ends : wire'[e] = <<>> /\ Len(wire'[e]) = 0
  OBVIOUS
<1>2. wire' \in [Ends -> Seq(Wire)]
  OBVIOUS
<1> QED
  BY <1>1, <1>2, WindowAssumption DEF WireType

-----------------------------------------------------------------------------
(* Types.                                                                   *)

LEMMA SendType ==
  ASSUME TypeOK, NEW e \in Ends, NEW m \in Wire, Send(e, m)
  PROVE  /\ WireType' /\ sendMu' \in [Ends -> Writers \cup {None}]
         /\ \A x \in Ends : \A i \in 1..Len(wire'[x]) :
              \/ x = Other(e) /\ wire'[x][i] = m
              \/ i \in 1..Len(wire[x]) /\ wire'[x][i] = wire[x][i]
<1>1. sendMu' \in [Ends -> Writers \cup {None}]
  BY DEF Send, Unlock, TypeOK
<1>2. /\ Other(e) \in Ends /\ Len(wire[Other(e)]) < Window
      /\ wire' = [wire EXCEPT ![Other(e)] = Append(@, m)] /\ WireType
  BY WireTyped, OtherEnd DEF Send
<1>3. PICK o \in Ends : o = Other(e)
  BY <1>2
<1>4. /\ WireType'
      /\ \A x \in Ends : \A i \in 1..Len(wire'[x]) :
           \/ x = o /\ wire'[x][i] = m
           \/ i \in 1..Len(wire[x]) /\ wire'[x][i] = wire[x][i]
  BY <1>2, <1>3, AppendedWire
<1> QED
  BY <1>1, <1>3, <1>4

LEMMA LostType ==
  ASSUME TypeOK, NEW e \in Ends, SendIsLost(e)
  PROVE  WireType' /\ sendMu' \in [Ends -> Writers \cup {None}]
<1>1. sendMu' \in [Ends -> Writers \cup {None}]
  BY DEF SendIsLost, Unlock, TypeOK
<1> QED
  BY <1>1, WireTyped DEF SendIsLost, WireType

LEMMA LockType ==
  ASSUME TypeOK, NEW e \in Ends, NEW w \in Writers, Lock(e, w)
  PROVE  sendMu' \in [Ends -> Writers \cup {None}]
BY DEF Lock, TypeOK

LEMMA VerdictType ==
  ASSUME NEW e \in Ends, NEW m
  PROVE  Verdict(e, m) \in Verdicts \cup {"handler"}
BY DEF Verdict, ClientVerdict, ServerVerdict, Verdicts

(* What Replies does to the request it is about, and to no other.             *)
LEMMA RepliesType ==
  ASSUME TypeOK, NEW k \in Calls, NEW from \in {"idle", "handler"}, NEW v \in Verdicts,
         Replies(k, from, v)
  PROVE  /\ task[k] = from
         /\ task' \in [Calls -> {"idle", "handler", "lock", "write", "ended"}]
         /\ verdict' \in [Calls -> Verdicts \cup {"silent", None}]
         /\ \A n \in Calls \ {k} : task'[n] = task[n] /\ verdict'[n] = verdict[n]
         /\ \/ task'[k] = "lock" /\ verdict'[k] = v /\ Identified(k)
            \/ task'[k] = "ended" /\ verdict'[k] = "silent" /\ ~Identified(k)
<1>1. CASE Identified(k)
  BY <1>1 DEF Replies, TaskAt, TypeOK
<1>2. CASE ~Identified(k)
  BY <1>2 DEF Replies, TaskAt, TypeOK
<1> QED
  BY <1>1, <1>2

LEMMA TypeInit == Init => TypeOK
<1> SUFFICES ASSUME Init PROVE TypeOK
  OBVIOUS
<1>1. \A e \in Ends : wire[e] = <<>> /\ Len(wire[e]) = 0
  BY DEF Init
<1>2. wire \in [Ends -> Seq(Wire)]
  BY DEF Init
<1> QED
  BY <1>1, <1>2, WindowAssumption DEF Init, TypeOK

(* The parts of TypeOK but the wires, for steps that send or receive.          *)
RestType ==
  /\ link \in {"up", "lost"} /\ over \in [Ends -> BOOLEAN]
  /\ reader \in [Ends -> {"read", "lock", "write", "ended"}]
  /\ sendMu \in [Ends -> Writers \cup {None}]
  /\ call \in [Calls -> {"idle", "lock", "write", "wait", "done"}]
  /\ shape \in [Calls -> Messages \cup {None}]
  /\ ch \in [Calls -> Verdicts \cup {None}]
  /\ outcome \in [Calls -> Verdicts \cup {"failed", "sent", None}]
  /\ task \in [Calls -> {"idle", "handler", "lock", "write", "ended"}]
  /\ verdict \in [Calls -> Verdicts \cup {"silent", None}]
  /\ noise \in 0..MaxNoise

LEMMA TypeParts == RestType' /\ WireType' => TypeOK'
BY DEF RestType, WireType, TypeOK

LEMMA TypeWhole == TypeOK => RestType /\ WireType
BY WireTyped DEF RestType, TypeOK

LEMMA CallType ==
  ASSUME TypeOK, NEW k \in Calls, Ask(k) \/ CallStep(k) \/ GiveUpWriting(k) \/ ContextEnds(k)
  PROVE  TypeOK'
<1> SUFFICES RestType' /\ WireType'
  BY TypeParts
<1>0. RestType /\ WireType /\ Caller[k] \in Ends
  BY TypeWhole, CalleeEnd
<1>1. CASE Ask(k)
  BY <1>0, <1>1 DEF Ask, CallAt, RestType, WireType, taskVars
<1>2. CASE LockRequest(k)
  <2>1. <<"call", k>> \in Writers
    BY DEF Writers
  <2>2. sendMu' \in [Ends -> Writers \cup {None}]
    BY <1>0, <1>2, <2>1, LockType DEF LockRequest
  <2> QED
    BY <1>0, <1>2, <2>2 DEF LockRequest, CallAt, RestType, WireType, taskVars
<1>3. ASSUME Written(k)
      PROVE /\ call' \in [Calls -> {"idle", "lock", "write", "wait", "done"}]
            /\ outcome' \in [Calls -> Verdicts \cup {"failed", "sent", None}]
  BY <1>0, <1>3 DEF Written, CallAt, RestType
<1>4. CASE WriteRequest(k)
  <2>1. WireType' /\ sendMu' \in [Ends -> Writers \cup {None}]
    BY <1>0, <1>4, SendType, WireMembers DEF WriteRequest
  <2> QED
    BY <1>0, <1>3, <1>4, <2>1 DEF WriteRequest, RestType, taskVars
<1>5. CASE WriteRequestIsLost(k)
  <2>1. WireType' /\ sendMu' \in [Ends -> Writers \cup {None}]
    BY <1>0, <1>5, LostType DEF WriteRequestIsLost
  <2>2. /\ call' \in [Calls -> {"idle", "lock", "write", "wait", "done"}]
        /\ outcome' \in [Calls -> Verdicts \cup {"failed", "sent", None}]
    BY <1>0, <1>3, <1>5 DEF WriteRequestIsLost, CallAt, RestType
  <2> QED
    BY <1>0, <1>5, <2>1, <2>2 DEF WriteRequestIsLost, RestType, taskVars
<1>6. CASE GiveUpWriting(k)
  <2>1. WireType'
    BY <1>6, EmptyWire DEF GiveUpWriting
  <2> QED
    BY <1>0, <1>6, <2>1 DEF GiveUpWriting, CallAt, Unlock, RestType, taskVars
<1>7. ASSUME NEW o \in Verdicts \cup {"failed"}, Returns(k, o) PROVE RestType' /\ WireType'
  BY <1>0, <1>7 DEF Returns, CallAt, RestType, WireType, taskVars
<1>8. CASE TakeResponse(k)
  <2>1. ch[k] \in Verdicts
    BY <1>0, <1>8 DEF TakeResponse, RestType
  <2> QED
    BY <1>7, <1>8, <2>1 DEF TakeResponse
<1>9. CASE ConnectionEnds(k) \/ ContextEnds(k)
  BY <1>7, <1>9 DEF ConnectionEnds, ContextEnds
<1> QED
  BY <1>1, <1>2, <1>4, <1>5, <1>6, <1>8, <1>9 DEF CallStep

LEMMA TaskType ==
  ASSUME TypeOK, AllMatch, NEW k \in Calls, TaskStep(k)
  PROVE  TypeOK'
<1> SUFFICES RestType' /\ WireType'
  BY TypeParts
<1>0. RestType /\ WireType /\ Callee(k) \in Ends
  BY TypeWhole, CalleeEnd
<1>1. CASE HandlerReturns(k)
  <2>1. PICK v \in Verdicts : Replies(k, "handler", v)
    BY <1>1 DEF HandlerReturns, Verdicts
  <2> QED
    BY <1>0, <1>1, <2>1, RepliesType DEF HandlerReturns, RestType, WireType, callVars
<1>2. CASE HandlerFails(k)
  <2>1. CASE Replies(k, "handler", "error")
    <3>1. "error" \in Verdicts
      BY DEF Verdicts
    <3> QED
      BY <1>0, <1>2, <2>1, <3>1, RepliesType DEF HandlerFails, RestType, WireType, callVars
  <2>2. CASE TaskAt(k, "handler", "ended") /\ verdict' = [verdict EXCEPT ![k] = "silent"]
    BY <1>0, <1>2, <2>2 DEF HandlerFails, TaskAt, RestType, WireType, callVars
  <2> QED
    BY <1>2, <2>1, <2>2 DEF HandlerFails
<1>3. CASE AbandonHandler(k)
  BY <1>0, <1>3 DEF AbandonHandler, TaskAt, RestType, WireType, callVars
<1>4. CASE LockResponse(k)
  <2>1. <<"task", k>> \in Writers
    BY DEF Writers
  <2>2. sendMu' \in [Ends -> Writers \cup {None}]
    BY <1>0, <1>4, <2>1, LockType DEF LockResponse
  <2> QED
    BY <1>0, <1>4, <2>2 DEF LockResponse, TaskAt, RestType, WireType, callVars
<1>5. CASE WriteResponse(k)
  <2>1. verdict[k] \in Verdicts
    BY <1>5 DEF WriteResponse, TaskAt, AllMatch, Matched
  <2>2. WireType' /\ sendMu' \in [Ends -> Writers \cup {None}]
    BY <1>0, <1>5, <2>1, SendType, LostType, WireMembers DEF WriteResponse
  <2> QED
    BY <1>0, <1>5, <2>2 DEF WriteResponse, TaskAt, RestType, callVars
<1> QED
  BY <1>1, <1>2, <1>3, <1>4, <1>5 DEF TaskStep

LEMMA ReaderType ==
  ASSUME TypeOK, NEW e \in Ends, ReaderStep(e)
  PROVE  TypeOK'
<1> SUFFICES RestType' /\ WireType'
  BY TypeParts
<1>0. RestType /\ WireType
  BY TypeWhole
<1>1. CASE Receive(e)
  <2> DEFINE m == Head(wire[e])
  <2>1. WireType' /\ m \in Wire
    BY <1>0, <1>1, TakenWire DEF Receive, Takes
  <2> HIDE DEF m
  <2>2. CASE m.kind = "request" /\ ReceiveRequest(e, m.k)
    <3>1. m.k \in Calls
      BY <2>1, <2>2, WireFields
    <3>2. CASE TaskAt(m.k, "idle", "handler") /\ UNCHANGED verdict
      BY <1>0, <1>1, <2>1, <2>2, <3>1, <3>2 DEF Receive, ReceiveRequest, TaskAt, RestType, callVars
    <3>3. ASSUME NEW v \in Verdicts, Replies(m.k, "idle", v) PROVE RestType'
      BY <1>0, <1>1, <2>2, <3>1, <3>3, RepliesType DEF Receive, ReceiveRequest, RestType, callVars
    <3> QED
      BY <2>1, <2>2, <3>2, <3>3, VerdictType DEF ReceiveRequest
  <2>3. CASE m.kind = "response" /\ ReceiveResponse(m.k, m.verdict)
    <3>1. m.k \in Calls /\ m.verdict \in Verdicts
      BY <2>1, <2>3, WireFields
    <3>2. ch' \in [Calls -> Verdicts \cup {None}]
      BY <1>0, <2>3, <3>1 DEF ReceiveResponse, RestType
    <3> QED
      BY <1>0, <1>1, <2>1, <2>3, <3>2 DEF Receive, ReceiveResponse, RestType, taskVars
  <2>4. CASE m.kind = "frame" /\ ReceiveFrame(e, m.frame)
    BY <1>0, <1>1, <2>1, <2>4 DEF Receive, ReceiveFrame, RestType, callVars, taskVars
  <2>5. CASE m.kind = "refusal" /\ UNCHANGED <<reader, callVars, taskVars>>
    BY <1>0, <1>1, <2>1, <2>5 DEF Receive, RestType, callVars, taskVars
  <2> QED
    BY <1>1, <2>2, <2>3, <2>4, <2>5 DEF Receive, m
<1>2. CASE LockRefusal(e)
  <2>1. <<"reader", e>> \in Writers
    BY DEF Writers
  <2>2. sendMu' \in [Ends -> Writers \cup {None}]
    BY <1>0, <1>2, <2>1, LockType DEF LockRefusal
  <2> QED
    BY <1>0, <1>2, <2>2 DEF LockRefusal, ReaderAt, RestType, WireType, callVars, taskVars
<1>3. CASE WriteRefusal(e)
  <2>1. WireType' /\ sendMu' \in [Ends -> Writers \cup {None}]
    BY <1>0, <1>3, SendType, LostType, WireMembers DEF WriteRefusal
  <2> QED
    BY <1>0, <1>3, <2>1 DEF WriteRefusal, ReaderAt, RestType, callVars, taskVars
<1>4. CASE NoticeLoss(e)
  BY <1>0, <1>4 DEF NoticeLoss, ReaderAt, RestType, WireType, callVars, taskVars
<1> QED
  BY <1>1, <1>2, <1>3, <1>4 DEF ReaderStep

LEMMA TypeNext ==
  ASSUME TypeOK, AllMatch, [Next]_vars
  PROVE  TypeOK'
<1>0. RestType /\ WireType
  BY TypeWhole
<1>1. ASSUME NEW k \in Calls, Ask(k) \/ CallStep(k) \/ GiveUpWriting(k) \/ ContextEnds(k)
      PROVE  TypeOK'
  BY <1>1, CallType
<1>2. ASSUME NEW k \in Calls, TaskStep(k) PROVE TypeOK'
  BY <1>2, TaskType
<1>3. ASSUME NEW e \in Ends, ReaderStep(e) PROVE TypeOK'
  BY <1>3, ReaderType
<1>4. ASSUME NEW e \in Ends, MakeNoise(e) PROVE TypeOK'
  <2>1. PICK f \in Noises :
          wire' = [wire EXCEPT ![e] = Append(@, [kind |-> "frame", frame |-> f])]
    BY <1>4 DEF MakeNoise
  <2>2. [kind |-> "frame", frame |-> f] \in Wire
    BY WireMembers
  <2>3. WireType'
    BY <1>0, <1>4, <2>1, <2>2, AppendedWire DEF MakeNoise
  <2>4. RestType'
    BY <1>0, <1>4 DEF MakeNoise, RestType, callVars, taskVars
  <2> QED
    BY <2>3, <2>4, TypeParts
<1>5. CASE LoseConnection
  <2>1. WireType'
    BY <1>5, EmptyWire DEF LoseConnection
  <2>2. RestType'
    BY <1>0, <1>5 DEF LoseConnection, RestType, callVars, taskVars
  <2> QED
    BY <2>1, <2>2, TypeParts
<1>6. CASE UNCHANGED vars
  BY <1>6 DEF vars, callVars, taskVars, TypeOK
<1> QED
  BY <1>1, <1>2, <1>3, <1>4, <1>5, <1>6 DEF Next, Over

-----------------------------------------------------------------------------
(* The two ends of each call.                                               *)

LEMMA MatchInit == Init => AllStand /\ AllMatch
<1> SUFFICES ASSUME Init PROVE AllStand /\ AllMatch
  OBVIOUS
<1>1. \A e \in Ends : 1..Len(wire[e]) = {}
  BY DEF Init
<1>2. AllStand
  BY <1>1 DEF AllStand
<1>3. AllMatch
  BY DEF Init, AllMatch, Matched, Refusals, Verdicts
<1> QED
  BY <1>2, <1>3

LEMMA MatchedSame ==
  ASSUME NEW n \in Calls, Matched(n),
         call'[n] = call[n], shape'[n] = shape[n], ch'[n] = ch[n], outcome'[n] = outcome[n],
         task'[n] = task[n], verdict'[n] = verdict[n]
  PROVE  Matched(n)'
BY DEF Matched, Identified

LEMMA MatchedCall ==
  ASSUME ExchangeInv, NEW k \in Calls, NEW n \in Calls,
         Ask(k) \/ CallStep(k) \/ GiveUpWriting(k) \/ ContextEnds(k)
  PROVE  Matched(n)'
<1>0. RestType /\ Matched(n) /\ Matched(k)
  BY TypeWhole DEF ExchangeInv, AllMatch
<1>1. CASE n # k
  <2>1. /\ call'[n] = call[n] /\ shape'[n] = shape[n] /\ ch' = ch /\ outcome'[n] = outcome[n]
        /\ task' = task /\ verdict' = verdict
    BY <1>0, <1>1 DEF RestType, CallStep, Ask, LockRequest, WriteRequest, WriteRequestIsLost,
       Written, TakeResponse, ConnectionEnds, ContextEnds, Returns, GiveUpWriting, CallAt, taskVars
  <2> QED
    BY <1>0, <2>1, MatchedSame
<1>2. CASE n = k
  <2>1. CASE Ask(k)
    <3>1. /\ call[k] = "idle" /\ call'[k] = "lock" /\ shape'[k] \in Messages
          /\ UNCHANGED <<ch, outcome, task, verdict>>
      BY <1>0, <2>1 DEF Ask, CallAt, RestType, taskVars
    <3>2. verdict[k] = None /\ task[k] = "idle" /\ ch[k] = None /\ outcome[k] = None
      BY <1>0, <3>1 DEF Matched
    <3> QED
      BY <1>2, <3>1, <3>2 DEF Matched, Refusals, Verdicts
  <2>2. ASSUME call[k] # "idle", call'[k] # "idle", UNCHANGED <<shape, ch, task, verdict>>,
               \/ /\ call'[k] # "done" /\ outcome' = outcome /\ call[k] # "done"
                  /\ call'[k] = "write" => task[k] = "idle"
                  /\ call'[k] # "lock"
               \/ /\ call'[k] = "done" /\ outcome'[k] # None
                  /\ outcome'[k] \in Verdicts => task[k] = "ended" /\ verdict[k] = outcome'[k]
        PROVE  Matched(k)'
    BY <1>0, <2>2 DEF Matched, Identified
  <2>3. CASE LockRequest(k)
    <3>1. call[k] = "lock" /\ call'[k] = "write" /\ UNCHANGED <<shape, ch, outcome, task, verdict>>
      BY <1>0, <2>3 DEF LockRequest, CallAt, RestType, taskVars
    <3> QED
      BY <1>0, <1>2, <2>2, <3>1 DEF Matched
  <2>4. ASSUME Written(k), UNCHANGED <<shape, ch, task, verdict>> PROVE Matched(k)'
    <3>1. /\ call[k] = "write" /\ call'[k] \in {"wait", "done"}
          /\ call'[k] = "wait" => outcome' = outcome
          /\ call'[k] = "done" => outcome'[k] = "sent"
      BY <1>0, <2>4 DEF Written, CallAt, RestType
    <3> QED
      BY <2>2, <2>4, <3>1 DEF Verdicts
  <2>5. ASSUME call[k] \in {"write", "wait"}, call'[k] = "done", outcome'[k] = "failed",
               UNCHANGED <<shape, ch, task, verdict>>
        PROVE  Matched(k)'
    BY <2>2, <2>5 DEF Verdicts
  <2>6. CASE WriteRequest(k)
    BY <1>2, <2>4, <2>6 DEF WriteRequest, taskVars
  <2>7. CASE WriteRequestIsLost(k)
    <3>1. CASE Written(k)
      BY <1>2, <2>4, <2>7, <3>1 DEF WriteRequestIsLost, taskVars
    <3>2. CASE CallAt(k, "write", "done") /\ outcome' = [outcome EXCEPT ![k] = "failed"]
      BY <1>0, <1>2, <2>5, <2>7, <3>2 DEF WriteRequestIsLost, CallAt, RestType, taskVars
    <3> QED
      BY <2>7, <3>1, <3>2 DEF WriteRequestIsLost
  <2>8. CASE GiveUpWriting(k)
    BY <1>0, <1>2, <2>5, <2>8 DEF GiveUpWriting, CallAt, RestType, taskVars
  <2>9. CASE TakeResponse(k)
    <3>1. /\ call[k] = "wait" /\ call'[k] = "done" /\ outcome'[k] = ch[k] /\ ch[k] # None
          /\ UNCHANGED <<shape, ch, task, verdict>>
      BY <1>0, <2>9 DEF TakeResponse, Returns, CallAt, RestType, taskVars
    <3> QED
      BY <1>0, <1>2, <2>2, <3>1 DEF Matched
  <2>10. CASE ConnectionEnds(k) \/ ContextEnds(k)
    BY <1>0, <1>2, <2>5, <2>10
       DEF ConnectionEnds, ContextEnds, Returns, CallAt, RestType, taskVars
  <2> QED
    BY <1>2, <2>1, <2>3, <2>6, <2>7, <2>8, <2>9, <2>10 DEF CallStep
<1> QED
  BY <1>1, <1>2

(* A request has come to its verdict: what holds of its two ends then.         *)
LEMMA MatchedVerdict ==
  ASSUME ExchangeInv, NEW k \in Calls, NEW n \in Calls, NEW from \in {"idle", "handler"},
         NEW v \in Verdicts, Replies(k, from, v), UNCHANGED callVars,
         call[k] \notin {"idle", "lock", "write"},
         shape[k] \in InvokedRequest(Caller[k]) /\ shape[k].method # "unknown" => v \notin Refusals
  PROVE  Matched(n)'
<1>0. RestType /\ Matched(n) /\ Matched(k)
  BY TypeWhole DEF ExchangeInv, AllMatch
<1>1. /\ task[k] = from /\ \A m \in Calls \ {k} : task'[m] = task[m] /\ verdict'[m] = verdict[m]
      /\ \/ task'[k] = "lock" /\ verdict'[k] = v /\ Identified(k)
         \/ task'[k] = "ended" /\ verdict'[k] = "silent" /\ ~Identified(k)
  BY RepliesType DEF ExchangeInv
<1>2. CASE n # k
  BY <1>0, <1>1, <1>2, MatchedSame DEF callVars
<1>3. CASE n = k
  <2>1. ch[k] = None /\ outcome[k] \notin Verdicts
    BY <1>0, <1>1 DEF Matched
  <2>2. "silent" \notin Refusals /\ "silent" # None /\ v # None
    BY DEF Refusals
  <2> QED
    BY <1>0, <1>1, <1>3, <2>1, <2>2 DEF Matched, Identified, callVars
<1> QED
  BY <1>2, <1>3

LEMMA MatchedSilent ==
  ASSUME ExchangeInv, NEW k \in Calls, NEW n \in Calls, UNCHANGED callVars,
         TaskAt(k, "handler", "ended"), verdict' = [verdict EXCEPT ![k] = "silent"]
  PROVE  Matched(n)'
<1>0. RestType /\ Matched(n) /\ Matched(k)
  BY TypeWhole DEF ExchangeInv, AllMatch
<1>1. /\ task[k] = "handler" /\ task'[k] = "ended" /\ verdict'[k] = "silent"
      /\ \A m \in Calls \ {k} : task'[m] = task[m] /\ verdict'[m] = verdict[m]
  BY <1>0 DEF TaskAt, RestType
<1>2. CASE n # k
  BY <1>0, <1>1, <1>2, MatchedSame DEF callVars
<1>3. CASE n = k
  BY <1>0, <1>1, <1>3 DEF Matched, Identified, callVars, Refusals
<1> QED
  BY <1>2, <1>3

LEMMA MatchedTask ==
  ASSUME ExchangeInv, NEW k \in Calls, NEW n \in Calls, TaskStep(k)
  PROVE  Matched(n)'
<1>0. RestType /\ Matched(n) /\ Matched(k)
  BY TypeWhole DEF ExchangeInv, AllMatch
<1>1. ASSUME NEW v \in {"result", "error"}, Replies(k, "handler", v), UNCHANGED callVars
      PROVE  Matched(n)'
  <2>1. task[k] = "handler"
    BY <1>1 DEF Replies
  <2>2. call[k] \notin {"idle", "lock", "write"}
    BY <1>0, <2>1 DEF Matched
  <2>3. v \in Verdicts /\ v \notin Refusals
    BY DEF Verdicts, Refusals
  <2> QED
    BY <1>1, <2>2, <2>3, MatchedVerdict
<1>2. CASE HandlerReturns(k)
  BY <1>1, <1>2 DEF HandlerReturns
<1>3. CASE HandlerFails(k)
  BY <1>1, <1>3, MatchedSilent DEF HandlerFails
<1>4. CASE AbandonHandler(k)
  BY <1>4, MatchedSilent DEF AbandonHandler
<1>5. ASSUME NEW from \in {"lock", "write"}, NEW to \in {"write", "ended"}, from # to,
             TaskAt(k, from, to), UNCHANGED <<callVars, verdict>>
      PROVE  Matched(n)'
  <2>1. /\ task[k] = from /\ task'[k] = to
        /\ \A m \in Calls \ {k} : task'[m] = task[m]
    BY <1>0, <1>5 DEF TaskAt, RestType
  <2>2. CASE n # k
    BY <1>0, <1>5, <2>1, <2>2, MatchedSame DEF callVars
  <2>3. CASE n = k
    <3>1. verdict[k] \in Verdicts /\ Identified(k)
      BY <1>0, <2>1 DEF Matched
    <3> QED
      BY <1>0, <1>5, <2>1, <2>3, <3>1 DEF Matched, Identified, callVars
  <2> QED
    BY <2>2, <2>3
<1>6. CASE LockResponse(k)
  BY <1>5, <1>6 DEF LockResponse
<1>7. CASE WriteResponse(k)
  BY <1>5, <1>7 DEF WriteResponse
<1> QED
  BY <1>2, <1>3, <1>4, <1>6, <1>7 DEF TaskStep

(* What Invoke sends, the other end accepts: its id, and its params.           *)
LEMMA OwnVerdict ==
  ASSUME NEW k \in Calls, NEW m \in InvokedRequest(Caller[k]), m.method # "unknown"
  PROVE  Verdict(Callee(k), m) \notin Refusals
<1>1. /\ m.version = "2.0" /\ m.params = "object" /\ m.method \in {"rpc.heartbeat", "known"}
      /\ m.id = IF Caller[k] = "server" THEN "s string" ELSE "string"
  BY DEF InvokedRequest
<1>2. CASE Caller[k] = "client"
  <2>1. Callee(k) = "server"
    BY <1>2 DEF Callee, Other
  <2>2. ServerVerdict(m) \in {"result", "handler"}
    BY <1>1 DEF ServerVerdict, decodeParams
  <2> QED
    BY <2>1, <2>2 DEF Verdict, Refusals
<1>3. CASE Caller[k] = "server"
  <2>1. Callee(k) = "client"
    BY <1>3 DEF Callee, Other
  <2>2. ClientVerdict(m) \in {"result", "handler"}
    BY <1>1, <1>3 DEF ClientVerdict, decodeParams, hasID, isServerID
  <2> QED
    BY <2>1, <2>2 DEF Verdict, Refusals
<1> QED
  BY <1>2, <1>3, CalleeEnd DEF Ends

LEMMA MatchedReceive ==
  ASSUME ExchangeInv, NEW e \in Ends, NEW n \in Calls, Receive(e)
  PROVE  Matched(n)'
<1> DEFINE m == Head(wire[e])
<1>0. RestType /\ WireType /\ Matched(n)
  BY TypeWhole DEF ExchangeInv, AllMatch
<1>1. m \in Wire /\ Stands(e, m)
  <2>1. wire[e] # <<>> /\ wire' = [wire EXCEPT ![e] = Tail(@)]
    BY DEF Receive, Takes
  <2>2. m \in Wire /\ 1 \in 1..Len(wire[e]) /\ m = wire[e][1]
    BY <1>0, <2>1, TakenWire
  <2>3. \A i \in 1..Len(wire[e]) : Stands(e, wire[e][i])
    BY DEF ExchangeInv, AllStand
  <2> QED
    BY <2>2, <2>3
<1> HIDE DEF m
<1>2. CASE m.kind = "request" /\ ReceiveRequest(e, m.k)
  <2> DEFINE k == m.k
             v == Verdict(e, shape[k])
  <2>1. /\ k \in Calls /\ Callee(k) = e /\ call[k] \in {"wait", "done"}
        /\ Matched(k) /\ UNCHANGED callVars
    BY <1>1, <1>2, WireFields DEF Stands, ReceiveRequest, ExchangeInv, AllMatch
  <2>2. shape[k] \in InvokedRequest(Caller[k]) /\ shape[k].method # "unknown" => v \notin Refusals
    BY <2>1, OwnVerdict
  <2>3. v \in Verdicts \cup {"handler"}
    BY VerdictType
  <2>4. \/ v = "handler" /\ TaskAt(k, "idle", "handler") /\ UNCHANGED verdict
        \/ v # "handler" /\ Replies(k, "idle", v)
    BY <1>2 DEF ReceiveRequest
  <2> HIDE DEF k, v
  <2>5. CASE v # "handler" /\ Replies(k, "idle", v)
    BY <2>1, <2>2, <2>3, <2>5, MatchedVerdict
  <2>6. CASE TaskAt(k, "idle", "handler") /\ UNCHANGED verdict
    <3>1. /\ task[k] = "idle" /\ task'[k] = "handler"
          /\ \A x \in Calls \ {k} : task'[x] = task[x]
      BY <1>0, <2>1, <2>6 DEF TaskAt, RestType
    <3>2. CASE n # k
      BY <1>0, <2>1, <2>6, <3>1, <3>2, MatchedSame DEF callVars
    <3>3. CASE n = k
      BY <2>1, <2>6, <3>1, <3>3 DEF Matched, Identified, callVars
    <3> QED
      BY <3>2, <3>3
  <2> QED
    BY <2>4, <2>5, <2>6
<1>3. CASE m.kind = "response" /\ ReceiveResponse(m.k, m.verdict)
  <2> DEFINE k == m.k
             v == m.verdict
  <2>1. k \in Calls /\ v \in Verdicts /\ task[k] = "ended" /\ verdict[k] = v
    BY <1>1, <1>3, WireFields DEF Stands
  <2>2. /\ UNCHANGED <<call, shape, outcome, task, verdict>>
        /\ ch' = ch \/ ch' = [ch EXCEPT ![k] = v]
    BY <1>3 DEF ReceiveResponse, taskVars
  <2> HIDE DEF k, v
  <2>3. ch'[n] = ch[n] \/ (n = k /\ ch'[n] = v)
    BY <1>0, <2>1, <2>2 DEF RestType
  <2> QED
    BY <1>0, <2>1, <2>2, <2>3 DEF Matched, Identified
<1>4. CASE UNCHANGED <<callVars, taskVars>>
  BY <1>0, <1>4, MatchedSame DEF callVars, taskVars
<1>5. \/ m.kind = "request" /\ ReceiveRequest(e, m.k)
      \/ m.kind = "response" /\ ReceiveResponse(m.k, m.verdict)
      \/ UNCHANGED <<callVars, taskVars>>
  BY DEF Receive, ReceiveFrame, m
<1> QED
  BY <1>2, <1>3, <1>4, <1>5

LEMMA MatchNext ==
  ASSUME ExchangeInv, [Next]_vars
  PROVE  AllMatch'
<1> SUFFICES ASSUME NEW n \in Calls PROVE Matched(n)'
  BY DEF AllMatch
<1>1. CASE UNCHANGED <<callVars, taskVars>>
  BY <1>1, MatchedSame DEF ExchangeInv, AllMatch, callVars, taskVars
<1>2. ASSUME NEW k \in Calls, Ask(k) \/ CallStep(k) \/ GiveUpWriting(k) \/ ContextEnds(k)
      PROVE  Matched(n)'
  BY <1>2, MatchedCall
<1>3. ASSUME NEW k \in Calls, TaskStep(k) PROVE Matched(n)'
  BY <1>3, MatchedTask
<1>4. ASSUME NEW e \in Ends, ReaderStep(e) \/ MakeNoise(e) PROVE Matched(n)'
  BY <1>1, <1>4, MatchedReceive DEF ReaderStep, LockRefusal, WriteRefusal, NoticeLoss, MakeNoise
<1> QED
  BY <1>1, <1>2, <1>3, <1>4 DEF Next, LoseConnection, Over, vars, callVars, taskVars

-----------------------------------------------------------------------------
(* The messages on their way.                                                *)

(* What a message stands for stays so: calls do not start anew, and a verdict  *)
(* is final.                                                                *)
Onward(k) ==
  /\ call[k] \in {"wait", "done"} => call'[k] \in {"wait", "done"}
  /\ call[k] # "idle" => shape'[k] = shape[k]
  /\ task[k] = "ended" => task'[k] = "ended" /\ verdict'[k] = verdict[k]

LEMMA OnwardNext ==
  ASSUME ExchangeInv, [Next]_vars, NEW n \in Calls
  PROVE  Onward(n)
<1>0. RestType /\ Matched(n)
  BY TypeWhole DEF ExchangeInv, AllMatch
<1>1. CASE UNCHANGED <<call, shape, task, verdict>>
  BY <1>1 DEF Onward
<1>2. ASSUME NEW k \in Calls, Ask(k) \/ CallStep(k) \/ GiveUpWriting(k) \/ ContextEnds(k)
      PROVE  Onward(n)
  BY <1>0, <1>2 DEF Onward, RestType, CallStep, Ask, LockRequest, WriteRequest,
     WriteRequestIsLost, Written, TakeResponse, ConnectionEnds, ContextEnds, Returns,
     GiveUpWriting, CallAt, taskVars
<1>3. ASSUME NEW k \in Calls, NEW from \in {"idle", "handler"}, NEW v, Replies(k, from, v),
             UNCHANGED callVars
      PROVE  Onward(n)
  BY <1>0, <1>3 DEF Replies, TaskAt, Onward, RestType, callVars
<1>4. ASSUME NEW k \in Calls, TaskStep(k) PROVE Onward(n)
  BY <1>0, <1>3, <1>4 DEF TaskStep, HandlerReturns, HandlerFails, AbandonHandler, LockResponse,
     WriteResponse, TaskAt, Onward, RestType, callVars
<1>5. ASSUME NEW e \in Ends, Receive(e) PROVE Onward(n)
  <2> DEFINE m == Head(wire[e])
  <2>1. WireType /\ wire[e] # <<>> /\ wire' = [wire EXCEPT ![e] = Tail(@)]
    BY <1>5, WireTyped DEF Receive, Takes, ExchangeInv
  <2>2. m \in Wire
    BY <2>1, TakenWire
  <2> HIDE DEF m
  <2>3. \/ m.kind = "request" /\ ReceiveRequest(e, m.k)
        \/ m.kind = "response" /\ ReceiveResponse(m.k, m.verdict)
        \/ UNCHANGED <<callVars, taskVars>>
    BY <1>5 DEF Receive, ReceiveFrame, m
  <2>4. CASE m.kind = "request" /\ ReceiveRequest(e, m.k)
    <3>1. m.k \in Calls
      BY <2>2, <2>4, WireFields
    <3> QED
      BY <1>0, <1>3, <2>4, <3>1 DEF ReceiveRequest, TaskAt, Onward, RestType, callVars
  <2> QED
    BY <1>1, <2>3, <2>4 DEF ReceiveResponse, callVars, taskVars
<1>6. ASSUME NEW e \in Ends, ReaderStep(e) \/ MakeNoise(e) PROVE Onward(n)
  BY <1>1, <1>5, <1>6
     DEF ReaderStep, LockRefusal, WriteRefusal, NoticeLoss, MakeNoise, callVars, taskVars
<1> QED
  BY <1>1, <1>2, <1>4, <1>6 DEF Next, LoseConnection, Over, vars, callVars, taskVars

LEMMA StandsOn ==
  ASSUME ExchangeInv, NEW e \in Ends, NEW w \in Wire, Stands(e, w), \A k \in Calls : Onward(k)
  PROVE  Stands(e, w)'
<1>1. CASE w.kind \in {"request", "response"}
  <2>1. w.k \in Calls
    BY <1>1, WireFields
  <2>2. Onward(w.k) /\ Matched(w.k)
    BY <2>1 DEF ExchangeInv, AllMatch
  <2> QED
    BY <1>1, <2>2 DEF Stands, Onward, Matched, Identified, Callee
<1>2. CASE w.kind \notin {"request", "response"}
  BY <1>2 DEF Stands
<1> QED
  BY <1>1, <1>2

(* What is written is a request whose caller waits, the answer to one, or a    *)
(* message that stands for nothing.                                          *)
LEMMA WrittenStands ==
  ASSUME ExchangeInv, [Next]_vars, NEW x \in Ends, NEW i \in 1..Len(wire'[x])
  PROVE  \/ \E j \in 1..Len(wire[x]) : wire'[x][i] = wire[x][j]
         \/ Stands(x, wire[x][i])'
<1>0. TypeOK /\ RestType /\ WireType
  BY TypeWhole DEF ExchangeInv
<1>1. CASE UNCHANGED wire
  BY <1>1
<1>2. ASSUME wire' = [e \in Ends |-> <<>>] PROVE FALSE
  BY <1>2, EmptyWire
<1>3. ASSUME NEW e \in Ends, NEW m \in Wire, Send(e, m), Stands(Other(e), m)'
      PROVE  \/ \E j \in 1..Len(wire[x]) : wire'[x][i] = wire[x][j]
             \/ Stands(x, wire[x][i])'
  <2>1. \/ x = Other(e) /\ wire'[x][i] = m
        \/ i \in 1..Len(wire[x]) /\ wire'[x][i] = wire[x][i]
    BY <1>0, <1>3, SendType
  <2>2. CASE x = Other(e) /\ wire'[x][i] = m
    BY <1>3, <2>2 DEF Stands, Identified, Callee
  <2> QED
    BY <2>1, <2>2
<1>4. ASSUME NEW k \in Calls, WriteRequest(k) PROVE Stands(x, wire[x][i])'
                           \/ \E j \in 1..Len(wire[x]) : wire'[x][i] = wire[x][j]
  <2> DEFINE m == [kind |-> "request", k |-> k]
  <2>1. m \in Wire /\ Caller[k] \in Ends /\ Send(Caller[k], m)
    BY <1>4, WireMembers, CalleeEnd DEF WriteRequest
  <2>2. call'[k] \in {"wait", "done"}
    BY <1>0, <1>4 DEF WriteRequest, Written, CallAt, RestType
  <2>3. m.kind = "request" /\ m.k = k
    OBVIOUS
  <2> HIDE DEF m
  <2>4. Stands(Other(Caller[k]), m)'
    BY <2>2, <2>3 DEF Stands, Callee
  <2> QED
    BY <1>3, <2>1, <2>4
<1>5. ASSUME NEW k \in Calls, WriteResponse(k) PROVE Stands(x, wire[x][i])'
                           \/ \E j \in 1..Len(wire[x]) : wire'[x][i] = wire[x][j]
  <2>0. verdict[k] \in Verdicts /\ Identified(k)
    BY <1>5 DEF WriteResponse, TaskAt, ExchangeInv, AllMatch, Matched
  <2>1. PICK v \in Verdicts : v = verdict[k]
    BY <2>0
  <2> DEFINE m == [kind |-> "response", k |-> k, verdict |-> v]
  <2>2. m \in Wire /\ Callee(k) \in Ends
    BY WireMembers, CalleeEnd
  <2>3. m.kind = "response" /\ m.k = k /\ m.verdict = v
    OBVIOUS
  <2>4. /\ task'[k] = "ended" /\ verdict'[k] = v /\ shape'[k] = shape[k]
        /\ Send(Callee(k), m) \/ UNCHANGED wire
    BY <1>0, <1>5, <2>1 DEF WriteResponse, SendIsLost, TaskAt, RestType, callVars
  <2> HIDE DEF m
  <2>5. Stands(Other(Callee(k)), m)'
    BY <2>0, <2>3, <2>4 DEF Stands, Identified
  <2> QED
    BY <1>1, <1>3, <2>2, <2>4, <2>5
<1>6. ASSUME NEW e \in Ends, WriteRefusal(e) PROVE Stands(x, wire[x][i])'
                           \/ \E j \in 1..Len(wire[x]) : wire'[x][i] = wire[x][j]
  <2> DEFINE m == [kind |-> "refusal"]
  <2>1. m \in Wire /\ Stands(Other(e), m)'
    BY WireMembers DEF Stands
  <2> QED
    BY <1>1, <1>3, <1>6, <2>1 DEF WriteRefusal, SendIsLost
<1>7. ASSUME NEW e \in Ends, MakeNoise(e) PROVE Stands(x, wire[x][i])'
                           \/ \E j \in 1..Len(wire[x]) : wire'[x][i] = wire[x][j]
  <2>1. PICK f \in Noises :
          wire' = [wire EXCEPT ![e] = Append(@, [kind |-> "frame", frame |-> f])]
    BY <1>7 DEF MakeNoise
  <2> DEFINE m == [kind |-> "frame", frame |-> f]
  <2>2. m \in Wire /\ m.kind = "frame"
    BY WireMembers
  <2>3. wire' = [wire EXCEPT ![e] = Append(@, m)] /\ Len(wire[e]) < Window
    BY <1>7, <2>1 DEF MakeNoise
  <2> HIDE DEF m
  <2>4. \/ x = e /\ wire'[x][i] = m
        \/ i \in 1..Len(wire[x]) /\ wire'[x][i] = wire[x][i]
    BY <1>0, <2>2, <2>3, AppendedWire
  <2>5. CASE wire'[x][i] = m
    BY <2>2, <2>5 DEF Stands
  <2> QED
    BY <2>4, <2>5
<1>8. ASSUME NEW e \in Ends, Receive(e)
      PROVE  \E j \in 1..Len(wire[x]) : wire'[x][i] = wire[x][j]
  BY <1>0, <1>8, TakenWire DEF Receive, Takes
<1>9. ASSUME NEW k \in Calls, Ask(k) \/ CallStep(k) \/ GiveUpWriting(k) \/ ContextEnds(k)
      PROVE  WriteRequest(k) \/ UNCHANGED wire \/ wire' = [e \in Ends |-> <<>>]
  BY <1>9 DEF Ask, CallStep, LockRequest, WriteRequestIsLost, SendIsLost, GiveUpWriting,
     TakeResponse, ConnectionEnds, ContextEnds, Returns
<1>10. ASSUME NEW k \in Calls, TaskStep(k) PROVE WriteResponse(k) \/ UNCHANGED wire
  BY <1>10 DEF TaskStep, HandlerReturns, HandlerFails, AbandonHandler, LockResponse
<1>11. ASSUME NEW e \in Ends, ReaderStep(e)
       PROVE  Receive(e) \/ WriteRefusal(e) \/ UNCHANGED wire
  BY <1>11 DEF ReaderStep, LockRefusal, NoticeLoss
<1> QED
  BY <1>1, <1>2, <1>4, <1>5, <1>6, <1>7, <1>8, <1>9, <1>10, <1>11
     DEF Next, LoseConnection, Over, vars

LEMMA StandNext ==
  ASSUME ExchangeInv, [Next]_vars
  PROVE  AllStand'
<1> SUFFICES ASSUME NEW x \in Ends, NEW i \in 1..Len(wire'[x])
             PROVE  Stands(x, wire[x][i])'
  BY DEF AllStand
<1>1. ASSUME NEW j \in 1..Len(wire[x]), wire'[x][i] = wire[x][j]
      PROVE  Stands(x, wire[x][i])'
  <2>1. wire[x] \in Seq(Wire) /\ Stands(x, wire[x][j])
    BY TypeWhole DEF ExchangeInv, AllStand, WireType
  <2>2. wire[x][j] \in Wire
    BY <2>1
  <2>3. PICK w \in Wire : w = wire[x][j]
    BY <2>2
  <2>4. Stands(x, w)'
    BY <2>1, <2>3, StandsOn, OnwardNext
  <2> QED
    BY <1>1, <2>3, <2>4 DEF Stands, Identified, Callee
<1> QED
  BY <1>1, WrittenStands

-----------------------------------------------------------------------------
(* The theorems.                                                            *)

(* The inductive invariant: what a message on its way stands for, and where   *)
(* the two ends of a call stand towards each other (Invoke, handleRequest,    *)
(* handlePeerRequest, handleResponse).                                       *)
THEOREM ExchangeCorrect == Spec => []ExchangeInv
<1>1. Init => ExchangeInv
  BY TypeInit, MatchInit DEF ExchangeInv
<1>2. ExchangeInv /\ [Next]_vars => ExchangeInv'
  BY TypeNext, StandNext, MatchNext DEF ExchangeInv
<1> QED
  BY <1>1, <1>2, PTL DEF Spec

(* Every variable keeps its type, and neither direction holds more than fits:  *)
(* every Write waits for room.                                               *)
THEOREM ExchangeTypeCorrect == Spec => []TypeOK
<1>1. ExchangeInv => TypeOK
  BY DEF ExchangeInv
<1> QED
  BY <1>1, ExchangeCorrect, PTL

(* The ids tell the ends' requests apart: what Invoke asks of a method that    *)
(* the other end has is never refused (isServerID, handleRequest).            *)
THEOREM OwnCallsCorrect == Spec => []OwnCallsAreServed
<1>1. ExchangeInv => OwnCallsAreServed
  BY DEF ExchangeInv, AllMatch, Matched, OwnCallsAreServed, Refusals, Verdicts
<1> QED
  BY <1>1, ExchangeCorrect, PTL

(* No response to a request without an id is ever on its way (sendResult,      *)
(* sendError, and the server's own).                                          *)
THEOREM NotificationsCorrect == Spec => []NotificationsAreNotAnswered
<1>1. ExchangeInv => NotificationsAreNotAnswered
  <2> SUFFICES ASSUME ExchangeInv, NEW e \in Ends, NEW i \in DOMAIN wire[e],
                      wire[e][i].kind = "response"
               PROVE  Identified(wire[e][i].k)
    BY DEF NotificationsAreNotAnswered
  <2>1. wire[e] \in Seq(Wire)
    BY TypeWhole DEF ExchangeInv, WireType
  <2>2. i \in 1..Len(wire[e])
    BY <2>1
  <2> QED
    BY <2>2 DEF ExchangeInv, AllStand, Stands
<1> QED
  BY <1>1, ExchangeCorrect, PTL

(* Both, of every message in both directions: the id alone decides who serves  *)
(* a request and whether it is answered.                                      *)
THEOREM IdsCorrect == Spec => []IdsDecide
BY OwnCallsCorrect, NotificationsCorrect, PTL DEF IdsDecide

-----------------------------------------------------------------------------
(* The refinement.                                                          *)

CallerOf == [k \in Calls |-> CallerState(k)]
CalleeOf == [k \in Calls |-> CalleeState(k)]

(* Only one call moves at one of its ends, or none.                           *)
LEMMA CallerMoves ==
  ASSUME NEW k \in Calls, NEW from, NEW to, CallerState(k) = from, CallerState(k)' = to,
         \A n \in Calls \ {k} : call'[n] = call[n] /\ outcome'[n] = outcome[n]
  PROVE  CallerOf[k] = from /\ CallerOf' = [CallerOf EXCEPT ![k] = to]
<1>1. \A n \in Calls \ {k} : CallerState(n)' = CallerState(n)
  BY DEF CallerState
<1> QED
  BY <1>1 DEF CallerOf

LEMMA CalleeMoves ==
  ASSUME NEW k \in Calls, NEW from, NEW to, CalleeState(k) = from, CalleeState(k)' = to,
         \A n \in Calls \ {k} : task'[n] = task[n] /\ verdict'[n] = verdict[n]
  PROVE  CalleeOf[k] = from /\ CalleeOf' = [CalleeOf EXCEPT ![k] = to]
<1>1. \A n \in Calls \ {k} : CalleeState(n)' = CalleeState(n)
  BY DEF CalleeState
<1> QED
  BY <1>1 DEF CalleeOf

LEMMA CallerStands == UNCHANGED <<call, outcome>> => CallerOf' = CallerOf
BY DEF CallerOf, CallerState

LEMMA CalleeStands == UNCHANGED <<task, verdict>> => CalleeOf' = CalleeOf
BY DEF CalleeOf, CalleeState

LEMMA AskedIsNotIdle ==
  ASSUME ExchangeInv, NEW k \in Calls, call[k] # "idle"
  PROVE  CallerOf[k] # "idle"
<1>1. Matched(k) /\ outcome[k] \in Verdicts \cup {"failed", "sent", None}
  BY DEF ExchangeInv, AllMatch, TypeOK
<1>2. call[k] = "done" => outcome[k] \in Verdicts \cup {"failed", "sent"}
  BY <1>1 DEF Matched
<1>3. CallerState(k) # "idle"
  BY <1>2 DEF CallerState, Verdicts
<1> QED
  BY <1>3 DEF CallerOf

(* Invoke's steps: it asks, gets the verdict its callee came to, or fails.     *)
LEMMA CallRefines ==
  ASSUME ExchangeInv, NEW k \in Calls, Ask(k) \/ CallStep(k) \/ GiveUpWriting(k) \/ ContextEnds(k)
  PROVE  AsRpc!Ask(k) \/ AsRpc!Answer(k) \/ AsRpc!Fail(k) \/ UNCHANGED <<CallerOf, CalleeOf>>
<1> USE DEF AsRpc!Ask, AsRpc!Answer, AsRpc!Fail, AsRpc!Moves
<1>0. RestType /\ Matched(k)
  BY TypeWhole DEF ExchangeInv, AllMatch
<1>1. CalleeOf' = CalleeOf
  <2>1. UNCHANGED <<task, verdict>>
    BY DEF Ask, CallStep, LockRequest, WriteRequest, WriteRequestIsLost, TakeResponse,
       ConnectionEnds, ContextEnds, Returns, GiveUpWriting, taskVars
  <2> QED
    BY <2>1, CalleeStands
<1>2. ASSUME NEW from \in {"idle", "lock", "write", "wait"},
             NEW to \in {"lock", "write", "wait", "done"},
             call[k] = from, call'[k] = to,
             \A n \in Calls \ {k} : call'[n] = call[n] /\ outcome'[n] = outcome[n]
      PROVE  /\ from = "idle" /\ to # "done"
                => CallerOf[k] = "idle" /\ CallerOf' = [CallerOf EXCEPT ![k] = "open"]
             /\ from # "idle" /\ to # "done" => CallerOf' = CallerOf
             /\ from # "idle" /\ to = "done" /\ outcome'[k] \in {"failed", "sent"}
                => CallerOf[k] = "open" /\ CallerOf' = [CallerOf EXCEPT ![k] = "failed"]
             /\ from # "idle" /\ to = "done" /\ outcome'[k] \in Verdicts
                => CallerOf[k] = "open" /\ CallerOf' = [CallerOf EXCEPT ![k] = outcome'[k]]
  <2>1. CallerState(k) = IF from = "idle" THEN "idle" ELSE "open"
    BY <1>2 DEF CallerState
  <2>2. CASE from = "idle" /\ to # "done"
    <3>1. CallerState(k)' = "open"
      BY <1>2, <2>2 DEF CallerState
    <3> QED
      BY <1>2, <2>1, <2>2, <3>1, CallerMoves
  <2>3. CASE from # "idle" /\ to # "done"
    <3>1. \A n \in Calls : CallerState(n)' = CallerState(n)
      BY <1>2, <2>1, <2>3 DEF CallerState
    <3> QED
      BY <2>3, <3>1 DEF CallerOf
  <2>4. CASE from # "idle" /\ to = "done" /\ outcome'[k] \in {"failed", "sent"}
    <3>1. CallerState(k)' = "failed"
      BY <1>2, <2>4 DEF CallerState
    <3>2. outcome'[k] \notin Verdicts
      BY <2>4 DEF Verdicts
    <3> QED
      BY <1>2, <2>1, <2>4, <3>1, <3>2, CallerMoves
  <2>5. CASE from # "idle" /\ to = "done" /\ outcome'[k] \in Verdicts
    <3>1. CallerState(k)' = outcome'[k]
      BY <1>2, <2>5 DEF CallerState, Verdicts
    <3>2. PICK o \in Verdicts : o = outcome'[k]
      BY <2>5
    <3>3. o \notin {"failed", "sent"}
      BY DEF Verdicts
    <3>4. CallerOf[k] = "open" /\ CallerOf' = [CallerOf EXCEPT ![k] = o]
      BY <1>2, <2>1, <2>5, <3>1, <3>2, CallerMoves
    <3> QED
      BY <2>5, <3>2, <3>3, <3>4
  <2> QED
    BY <2>2, <2>3, <2>4, <2>5
<1>3. CASE Ask(k)
  <2>1. /\ call[k] = "idle" /\ call'[k] = "lock"
        /\ \A n \in Calls \ {k} : call'[n] = call[n] /\ outcome'[n] = outcome[n]
    BY <1>0, <1>3 DEF Ask, CallAt, RestType
  <2>2. CallerOf[k] = "idle" /\ CallerOf' = [CallerOf EXCEPT ![k] = "open"]
    BY <1>2, <2>1
  <2> QED
    BY <1>1, <2>2 DEF CallerOf, CalleeOf
<1>4. CASE LockRequest(k)
  <2>1. /\ call[k] = "lock" /\ call'[k] = "write"
        /\ \A n \in Calls \ {k} : call'[n] = call[n] /\ outcome'[n] = outcome[n]
    BY <1>0, <1>4 DEF LockRequest, CallAt, RestType
  <2> QED
    BY <1>1, <1>2, <2>1
<1>5. ASSUME NEW from \in {"write", "wait"}, CallAt(k, from, "done"),
             \/ outcome' = [outcome EXCEPT ![k] = "failed"]
             \/ outcome' = [outcome EXCEPT ![k] = "sent"]
      PROVE  AsRpc!Fail(k)
  <2>1. /\ call[k] = from /\ call'[k] = "done" /\ outcome'[k] \in {"failed", "sent"}
        /\ \A n \in Calls \ {k} : call'[n] = call[n] /\ outcome'[n] = outcome[n]
    BY <1>0, <1>5 DEF CallAt, RestType
  <2>2. CallerOf[k] = "open" /\ CallerOf' = [CallerOf EXCEPT ![k] = "failed"]
    BY <1>2, <2>1
  <2> QED
    BY <1>1, <2>2 DEF CallerOf, CalleeOf
<1>6. ASSUME Written(k) PROVE AsRpc!Fail(k) \/ UNCHANGED <<CallerOf, CalleeOf>>
  <2>1. CASE ~Identified(k)
    BY <1>5, <1>6, <2>1 DEF Written
  <2>2. CASE Identified(k)
    <3>1. /\ call[k] = "write" /\ call'[k] = "wait"
          /\ \A n \in Calls \ {k} : call'[n] = call[n] /\ outcome'[n] = outcome[n]
      BY <1>0, <1>6, <2>2 DEF Written, CallAt, RestType
    <3> QED
      BY <1>1, <1>2, <3>1
  <2> QED
    BY <2>1, <2>2
<1>7. CASE WriteRequest(k) \/ WriteRequestIsLost(k)
  BY <1>5, <1>6, <1>7 DEF WriteRequest, WriteRequestIsLost
<1>8. CASE GiveUpWriting(k) \/ ConnectionEnds(k) \/ ContextEnds(k)
  BY <1>5, <1>8 DEF GiveUpWriting, ConnectionEnds, ContextEnds, Returns
<1>9. CASE TakeResponse(k)
  <2>1. /\ call[k] = "wait" /\ call'[k] = "done" /\ outcome'[k] = ch[k] /\ ch[k] \in Verdicts
        /\ \A n \in Calls \ {k} : call'[n] = call[n] /\ outcome'[n] = outcome[n]
    BY <1>0, <1>9 DEF TakeResponse, Returns, CallAt, RestType
  <2>2. CallerOf[k] = "open" /\ CallerOf' = [CallerOf EXCEPT ![k] = ch[k]]
    BY <1>2, <2>1
  <2>3. task[k] = "ended" /\ verdict[k] = ch[k]
    BY <1>0, <2>1 DEF Matched
  <2>4. CalleeOf[k] = ch[k]
    BY <2>3 DEF CalleeOf, CalleeState
  <2> QED
    BY <1>1, <2>1, <2>2, <2>4 DEF CallerOf, CalleeOf
<1> QED
  BY <1>3, <1>4, <1>7, <1>8, <1>9 DEF CallStep

(* A request is taken up, refused or finished by its goroutine, once.          *)
LEMMA RepliesRefines ==
  ASSUME ExchangeInv, NEW k \in Calls, NEW from \in {"idle", "handler"}, NEW v \in Verdicts,
         Replies(k, from, v), UNCHANGED callVars, from = "idle" => call[k] # "idle"
  PROVE  AsRpc!Refuse(k) \/ AsRpc!Finish(k)
<1>0. TypeOK
  BY DEF ExchangeInv
<1>1. /\ task[k] = from
      /\ \A n \in Calls \ {k} : task'[n] = task[n] /\ verdict'[n] = verdict[n]
      /\ \/ task'[k] = "lock" /\ verdict'[k] = v
         \/ task'[k] = "ended" /\ verdict'[k] = "silent"
  BY <1>0, RepliesType
<1>2. PICK u \in Verdicts \cup {"silent"} : u = verdict'[k]
  BY <1>1
<1>3. CalleeState(k)' = u
  BY <1>1, <1>2 DEF CalleeState
<1>4. CallerOf' = CallerOf
  BY CallerStands DEF callVars
<1>5. CASE from = "idle"
  <2>1. CalleeState(k) = "idle" /\ CallerOf[k] # "idle"
    BY <1>1, <1>5, AskedIsNotIdle DEF CalleeState
  <2>2. CalleeOf[k] = "idle" /\ CalleeOf' = [CalleeOf EXCEPT ![k] = u]
    BY <1>1, <1>3, <2>1, CalleeMoves
  <2> QED
    BY <1>4, <2>1, <2>2 DEF AsRpc!Refuse, AsRpc!Moves, CallerOf, CalleeOf
<1>6. CASE from = "handler"
  <2>1. CalleeState(k) = "running"
    BY <1>1, <1>6 DEF CalleeState
  <2>2. CalleeOf[k] = "running" /\ CalleeOf' = [CalleeOf EXCEPT ![k] = u]
    BY <1>1, <1>3, <2>1, CalleeMoves
  <2> QED
    BY <1>4, <2>2 DEF AsRpc!Finish, AsRpc!Moves, CallerOf, CalleeOf
<1> QED
  BY <1>5, <1>6

LEMMA TaskRefines ==
  ASSUME ExchangeInv, NEW k \in Calls, TaskStep(k)
  PROVE  AsRpc!Refuse(k) \/ AsRpc!Finish(k) \/ UNCHANGED <<CallerOf, CalleeOf>>
<1>0. RestType /\ Matched(k)
  BY TypeWhole DEF ExchangeInv, AllMatch
<1>1. CASE HandlerReturns(k)
  <2>1. PICK v \in Verdicts : Replies(k, "handler", v)
    BY <1>1 DEF HandlerReturns, Verdicts
  <2> QED
    BY <1>1, <2>1, RepliesRefines DEF HandlerReturns
<1>2. ASSUME TaskAt(k, "handler", "ended"), verdict' = [verdict EXCEPT ![k] = "silent"],
             UNCHANGED callVars
      PROVE  AsRpc!Finish(k)
  <2>1. /\ task[k] = "handler" /\ task'[k] = "ended" /\ verdict'[k] = "silent"
        /\ \A n \in Calls \ {k} : task'[n] = task[n] /\ verdict'[n] = verdict[n]
    BY <1>0, <1>2 DEF TaskAt, RestType
  <2>2. CalleeState(k) = "running" /\ CalleeState(k)' = "silent"
    BY <2>1 DEF CalleeState
  <2>3. CalleeOf[k] = "running" /\ CalleeOf' = [CalleeOf EXCEPT ![k] = "silent"]
    BY <2>1, <2>2, CalleeMoves
  <2>4. CallerOf' = CallerOf
    BY <1>2, CallerStands DEF callVars
  <2> QED
    BY <2>3, <2>4 DEF AsRpc!Finish, AsRpc!Moves, CallerOf, CalleeOf
<1>3. CASE HandlerFails(k)
  <2>1. "error" \in Verdicts
    BY DEF Verdicts
  <2> QED
    BY <1>2, <1>3, <2>1, RepliesRefines DEF HandlerFails
<1>4. CASE AbandonHandler(k)
  BY <1>2, <1>4 DEF AbandonHandler
<1>5. CASE LockResponse(k) \/ WriteResponse(k)
  <2>1. /\ task[k] \in {"lock", "write"} /\ task'[k] \in {"write", "ended"}
        /\ \A n \in Calls \ {k} : task'[n] = task[n]
        /\ verdict' = verdict /\ UNCHANGED callVars
    BY <1>0, <1>5 DEF LockResponse, WriteResponse, TaskAt, RestType
  <2>2. \A n \in Calls : CalleeState(n)' = CalleeState(n)
    BY <2>1 DEF CalleeState
  <2>3. CalleeOf' = CalleeOf
    BY <2>2 DEF CalleeOf
  <2> QED
    BY <2>1, <2>3, CallerStands DEF callVars
<1> QED
  BY <1>1, <1>3, <1>4, <1>5 DEF TaskStep

LEMMA ReceiveRefines ==
  ASSUME ExchangeInv, NEW e \in Ends, Receive(e)
  PROVE  \/ \E k \in Calls : AsRpc!Run(k) \/ AsRpc!Refuse(k) \/ AsRpc!Finish(k)
         \/ UNCHANGED <<CallerOf, CalleeOf>>
<1> DEFINE m == Head(wire[e])
<1>0. RestType /\ WireType
  BY TypeWhole DEF ExchangeInv
<1>1. m \in Wire /\ Stands(e, m)
  <2>1. wire[e] # <<>> /\ wire' = [wire EXCEPT ![e] = Tail(@)]
    BY DEF Receive, Takes
  <2>2. m \in Wire /\ 1 \in 1..Len(wire[e]) /\ m = wire[e][1]
    BY <1>0, <2>1, TakenWire
  <2> QED
    BY <2>2 DEF ExchangeInv, AllStand
<1> HIDE DEF m
<1>2. \/ m.kind = "request" /\ ReceiveRequest(e, m.k)
      \/ UNCHANGED <<call, outcome, task, verdict>>
  BY DEF Receive, ReceiveResponse, ReceiveFrame, callVars, taskVars, m
<1>3. CASE m.kind = "request" /\ ReceiveRequest(e, m.k)
  <2>1. PICK k \in Calls : k = m.k
    BY <1>1, <1>3, WireFields
  <2>2. call[k] \in {"wait", "done"} /\ UNCHANGED callVars /\ Matched(k)
    BY <1>1, <1>3, <2>1 DEF Stands, ReceiveRequest, ExchangeInv, AllMatch
  <2>3. CASE TaskAt(k, "idle", "handler") /\ UNCHANGED verdict
    <3>1. /\ task[k] = "idle" /\ task'[k] = "handler"
          /\ \A n \in Calls \ {k} : task'[n] = task[n] /\ verdict'[n] = verdict[n]
      BY <1>0, <2>3 DEF TaskAt, RestType
    <3>2. CalleeState(k) = "idle" /\ CalleeState(k)' = "running"
      BY <3>1 DEF CalleeState
    <3>3. CalleeOf[k] = "idle" /\ CalleeOf' = [CalleeOf EXCEPT ![k] = "running"]
      BY <3>1, <3>2, CalleeMoves
    <3>4. CallerOf' = CallerOf /\ CallerOf[k] # "idle"
      BY <2>2, CallerStands, AskedIsNotIdle DEF callVars
    <3> QED
      BY <3>3, <3>4 DEF AsRpc!Run, AsRpc!Moves, CallerOf, CalleeOf
  <2>4. CASE \E v \in Verdicts : Replies(k, "idle", v)
    BY <2>2, <2>4, RepliesRefines
  <2> QED
    BY <1>3, <2>1, <2>3, <2>4, VerdictType DEF ReceiveRequest
<1> QED
  BY <1>2, <1>3, CallerStands, CalleeStands

(* Whatever is in each other's way, every call is one of module Rpc: its       *)
(* handler runs at most once, and its caller gets nothing but the verdict of   *)
(* its own request (Invoke, handleResponse, handleRequest, handlePeerRequest). *)
THEOREM ExchangeRefinement == Spec => ImplementsRpc
<1>1. Init => AsRpc!Init
  BY DEF Init, AsRpc!Init, CallerState, CalleeState
<1>2. ExchangeInv /\ [Next]_vars => [AsRpc!Next]_<<CallerOf, CalleeOf>>
  <2> SUFFICES ASSUME ExchangeInv, [Next]_vars
               PROVE  AsRpc!Next \/ UNCHANGED <<CallerOf, CalleeOf>>
    OBVIOUS
  <2>1. CASE UNCHANGED <<call, outcome, task, verdict>>
    BY <2>1, CallerStands, CalleeStands
  <2>2. ASSUME NEW k \in Calls, Ask(k) \/ CallStep(k) \/ GiveUpWriting(k) \/ ContextEnds(k)
        PROVE  AsRpc!Next \/ UNCHANGED <<CallerOf, CalleeOf>>
    BY <2>2, CallRefines DEF AsRpc!Next
  <2>3. ASSUME NEW k \in Calls, TaskStep(k)
        PROVE  AsRpc!Next \/ UNCHANGED <<CallerOf, CalleeOf>>
    BY <2>3, TaskRefines DEF AsRpc!Next
  <2>4. ASSUME NEW e \in Ends, Receive(e)
        PROVE  AsRpc!Next \/ UNCHANGED <<CallerOf, CalleeOf>>
    BY <2>4, ReceiveRefines DEF AsRpc!Next
  <2>5. ASSUME NEW e \in Ends, ReaderStep(e) \/ MakeNoise(e)
        PROVE  Receive(e) \/ UNCHANGED <<call, outcome, task, verdict>>
    BY <2>5 DEF ReaderStep, LockRefusal, WriteRefusal, NoticeLoss, MakeNoise, callVars, taskVars
  <2> QED
    BY <2>1, <2>2, <2>3, <2>4, <2>5 DEF Next, LoseConnection, Over, vars, callVars, taskVars
<1>3. ExchangeInv /\ [Next]_vars => [AsRpc!Next]_(AsRpc!rpcVars)
  BY <1>2 DEF AsRpc!rpcVars, CallerOf, CalleeOf
<1> QED
  BY <1>1, <1>3, ExchangeCorrect, PTL DEF Spec, ImplementsRpc, AsRpc!Spec

-----------------------------------------------------------------------------
(* What Rpc promises, for the calls of this connection.                      *)

P == INSTANCE RpcProofs WITH caller <- CallerOf, callee <- CalleeOf

(* The Rpc that is implemented is the one RpcProofs is about.                *)
LEMMA SameRpc ==
  /\ AsRpc!Spec => P!Spec
  /\ P!Honest => AsRpc!Honest
  /\ P!OnceForAll => AsRpc!OnceForAll
<1> USE DEF CallerOf, CalleeOf
<1>1. AsRpc!Init => P!Init
  BY DEF AsRpc!Init, P!Init
<1>2. UNCHANGED AsRpc!rpcVars <=> UNCHANGED P!rpcVars
  BY DEF AsRpc!rpcVars, P!rpcVars
<1>3. [AsRpc!Next]_(AsRpc!rpcVars) => [P!Next]_(P!rpcVars)
  <2>1. ASSUME NEW k \in Calls
        PROVE  /\ AsRpc!Ask(k) => P!Ask(k)
               /\ AsRpc!Run(k) => P!Run(k)
               /\ AsRpc!Refuse(k) => P!Refuse(k)
               /\ AsRpc!Finish(k) => P!Finish(k)
               /\ AsRpc!Answer(k) => P!Answer(k)
               /\ AsRpc!Fail(k) => P!Fail(k)
    BY DEF AsRpc!Ask, P!Ask, AsRpc!Run, P!Run, AsRpc!Refuse, P!Refuse, AsRpc!Finish, P!Finish,
       AsRpc!Answer, P!Answer, AsRpc!Fail, P!Fail, AsRpc!Moves, P!Moves
  <2> QED
    BY <1>2, <2>1 DEF AsRpc!Next, P!Next
<1>4. P!Honest => AsRpc!Honest
  BY DEF P!Honest, AsRpc!Honest
<1>5. [P!Final]_(P!rpcVars) => [AsRpc!Final]_(AsRpc!rpcVars)
  BY <1>2 DEF P!Final, AsRpc!Final, P!Settled, AsRpc!Settled
<1>6. AsRpc!Spec => P!Spec
  BY <1>1, <1>3, PTL DEF AsRpc!Spec, P!Spec
<1>7. P!OnceForAll => AsRpc!OnceForAll
  BY <1>5, PTL DEF P!OnceForAll, AsRpc!OnceForAll
<1> QED
  BY <1>4, <1>6, <1>7

(* An Invoke returns a result or an error only if the handler of this very     *)
(* call, or what refused it, came to it (client.go:579 and 509, server.go:530  *)
(* and 419): ids are never confused, within an end or between the ends.        *)
VerdictsAreTrue ==
  \A k \in Calls : call[k] = "done" /\ outcome[k] \in Verdicts =>
    task[k] \notin {"idle", "handler"} /\ verdict[k] = outcome[k]
THEOREM VerdictsCorrect == Spec => []VerdictsAreTrue
<1>1. P!Distinct
  BY DEF P!Distinct, Verdicts
<1>2. P!Spec => []P!Honest
  BY <1>1, P!HonestCorrect
<1>3. AsRpc!Honest => VerdictsAreTrue
  BY DEF AsRpc!Honest, VerdictsAreTrue, CallerState, CalleeState, Verdicts
<1> QED
  BY <1>2, <1>3, SameRpc, ExchangeRefinement, PTL DEF ImplementsRpc

(* A request is taken up once, and what it came to and what its caller returned *)
(* are not taken back: no call is served twice, although its handler may call  *)
(* back over the connection that called it.                                  *)
THEOREM OnceCorrect == Spec => AsRpc!OnceForAll
<1>1. P!Distinct
  BY DEF P!Distinct, Verdicts
<1>2. P!Spec => P!OnceForAll
  BY <1>1, P!OnceForAllCorrect
<1> QED
  BY <1>2, SameRpc, ExchangeRefinement, PTL DEF ImplementsRpc
=============================================================================
