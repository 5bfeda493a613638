---------------------------- MODULE ClientProofs ----------------------------
(* Theorems about Client, for every number of calls, connections, callers  *)
(* and sessions.                                                           *)
EXTENDS Client, ClientLifecycleProofs

USE CallsAssumption, SendersAssumption, RepliesAssumption

-----------------------------------------------------------------------------
(* Types.                                                                   *)

LEMMA CallsTypeInit == CallsInit => CallsTypeOK
<1> SUFFICES ASSUME CallsInit PROVE CallsTypeOK
  OBVIOUS
<1>1. expired \in [Calls -> BOOLEAN]
  BY DEF CallsInit
<1>2. inbox \in [Conns -> Seq(Responses)]
  BY DEF CallsInit
<1> QED
  BY <1>1, <1>2 DEF CallsInit, CallsTypeOK, Outcomes, Senders, Failers

(* A connection that closes takes messages away, and adds none.             *)
LEMMA LossType ==
  ASSUME CallsTypeOK, InFlightIsLost
  PROVE  /\ inbox' \in [Conns -> Seq(Responses)] /\ reached' \subseteq reached
         /\ \A c \in Conns : inbox'[c] \in {inbox[c], <<>>}
<1>1. \A c \in Conns : inbox[c] \in Seq(Responses) /\ <<>> \in Seq(Responses)
  BY DEF CallsTypeOK
<1> QED
  BY <1>1 DEF InFlightIsLost

LEMMA InvokeType ==
  ASSUME TypeOK, CallsTypeOK, NEW k \in Calls, InvokeStep(k)
  PROVE  CallsTypeOK'
<1> USE DEF CallsTypeOK, Senders, answerVars
<1>1. CASE Refuse(k)
  BY <1>1 DEF Refuse, Outcomes
<1>2. CASE CurrentConn(k)
  BY <1>2 DEF CurrentConn, TypeOK
<1>3. CASE Register(k)
  BY <1>3 DEF Register, Outcomes
<1>4. CASE LockSend(k)
  BY <1>4 DEF LockSend
<1>5. CASE Write(k)
  BY <1>5 DEF Write
<1>6. CASE WriteFails(k)
  BY <1>6 DEF WriteFails, WriteReturnsError, Outcomes
<1>7. CASE WriteExpires(k)
  BY <1>7, LossType DEF WriteExpires, WriteReturnsError, Outcomes
<1>8. CASE TakeResponse(k)
  <2>1. ch[k] \in Outcomes
    BY <1>8 DEF TakeResponse, Outcomes
  <2> QED
    BY <1>8, <2>1 DEF TakeResponse, Returns
<1>9. CASE ContextEnds(k)
  BY <1>9 DEF ContextEnds, Returns, Outcomes
<1>10. CASE ConnectionEnds(k)
  BY <1>10 DEF ConnectionEnds, Returns, Outcomes
<1>11. CASE Unregister(k)
  BY <1>11 DEF Unregister
<1> QED
  BY <1>1, <1>2, <1>3, <1>4, <1>5, <1>6, <1>7, <1>8, <1>9, <1>10, <1>11 DEF InvokeStep

(* What arrives is a response to some id, and the rest stays in the inbox.   *)
LEMMA HeadType ==
  ASSUME CallsTypeOK, NEW c \in Conns, inbox[c] # <<>>
  PROVE  /\ Head(inbox[c]) \in Responses /\ Head(inbox[c])[2] \in Replies
         /\ Tail(inbox[c]) \in Seq(Responses)
<1>1. inbox[c] \in Seq(Responses)
  BY DEF CallsTypeOK
<1>2. Head(inbox[c]) \in Responses /\ Tail(inbox[c]) \in Seq(Responses)
  BY <1>1
<1> QED
  BY <1>2 DEF Responses

(* What a response does to the channels: nothing, unless its call is waiting. *)
LEMMA ResponseSets ==
  ASSUME CallsTypeOK, NEW c \in Conns, ReceiveResponse(c)
  PROVE  \/ ch' = ch
         \/ \E k \in Calls, r \in Replies :
              /\ Head(inbox[c]) = <<k, r>> /\ Verdict(r) \in {"result", "error"}
              /\ ch' = [ch EXCEPT ![k] = Verdict(r)]
<1> DEFINE k == Head(inbox[c])[1]
           r == Head(inbox[c])[2]
<1>1. Head(inbox[c]) \in Responses /\ r \in Replies
  BY HeadType DEF ReceiveResponse
<1>2. Head(inbox[c]) = <<k, r>>
  BY <1>1 DEF Responses
<1>4. Verdict(r) \in {"result", "error"}
  BY <1>1 DEF Verdict
<1>3. ch' = ch \/ (k \in Calls /\ ch' = [ch EXCEPT ![k] = Verdict(r)])
  BY DEF ReceiveResponse, HandleResponse, CallsTypeOK
<1> HIDE DEF k, r
<1> QED
  BY <1>1, <1>2, <1>3, <1>4

(* The answers of the read loops and the handlers.                           *)
LEMMA AnswerType ==
  ASSUME TypeOK, CallsTypeOK, NEW x \in Answerers, AnswerStep(x)
  PROVE  CallsTypeOK'
<1> USE DEF CallsTypeOK, Senders, Answerers
<1>1. CASE AnswerLocks(x)
  BY <1>1 DEF AnswerLocks, Answering, answerVars
<1>2. CASE AnswerSent(x) \/ AnswerFails(x)
  <2>1. AnswerReturns(x)
    BY <1>2 DEF AnswerSent, AnswerFails
  <2>2. via' \in [Handlers -> Conns \cup {None}] /\ under' \in [Answerers -> Conns \cup {None}]
    BY <2>1 DEF AnswerReturns
  <2> QED
    BY <2>1, <2>2 DEF AnswerReturns
<1>3. CASE AnswerSevers(x)
  BY <1>3, LossType DEF AnswerSevers, answerVars
<1> QED
  BY <1>1, <1>2, <1>3 DEF AnswerStep

LEMMA SwapType ==
  ASSUME CallsTypeOK, NEW f \in Failers, SwapPending(f) \/ FailSwapped(f)
  PROVE  CallsTypeOK'
<1>1. CASE SwapPending(f)
  BY <1>1 DEF SwapPending, CallsTypeOK, Senders, answerVars
<1>2. CASE FailSwapped(f)
  <2>1. ch' \in [Calls -> {"result", "error", "unavailable", None}]
    BY <1>2 DEF FailSwapped, CallsTypeOK
  <2> QED
    BY <1>2, <2>1 DEF FailSwapped, CallsTypeOK, Senders, answerVars
<1> QED
  BY <1>1, <1>2
LEMMA CallsTypeNext ==
  ASSUME TypeOK, CallsTypeOK, [ClientNext]_allVars
  PROVE  CallsTypeOK'
<1> USE DEF CallsTypeOK, Senders
<1>1. CASE Bystanders
  BY <1>1, LossType DEF Bystanders, answerVars
<1>2. ASSUME NEW f \in Failers, SwapPending(f) \/ FailSwapped(f) PROVE CallsTypeOK'
  BY <1>2, SwapType
<1>3. ASSUME NEW c \in Conns, ReceiveResponse(c) PROVE CallsTypeOK'
  <2>1. Tail(inbox[c]) \in Seq(Responses)
    BY <1>3, HeadType DEF ReceiveResponse
  <2>2. ch' \in [Calls -> {"result", "error", "unavailable", None}]
    BY <1>3, ResponseSets
  <2> QED
    BY <1>3, <2>1, <2>2 DEF ReceiveResponse, answerVars
<1>4. ASSUME NEW k \in Calls, InvokeStep(k) PROVE CallsTypeOK'
  BY <1>4, InvokeType
<1>5. ASSUME NEW k \in Calls, Expire(k) PROVE CallsTypeOK'
  BY <1>5 DEF Expire, answerVars
<1>6. ASSUME NEW c \in Conns \cup {None}, NEW m \in Responses,
             inbox' = [inbox EXCEPT ![c] = Append(@, m)]
      PROVE  inbox' \in [Conns -> Seq(Responses)]
  <2>1. CASE c \in Conns
    <3>1. inbox[c] \in Seq(Responses)
      BY <2>1
    <3> DEFINE longer == Append(inbox[c], m)
    <3>2. longer \in Seq(Responses)
      BY <3>1
    <3>3. inbox' = [inbox EXCEPT ![c] = longer]
      BY <1>6
    <3> HIDE DEF longer
    <3> QED
      BY <3>2, <3>3
  <2>2. CASE c \notin Conns
    <3> DEFINE longer == Append(inbox[c], m)
    <3>1. inbox' = [inbox EXCEPT ![c] = longer]
      BY <1>6
    <3> HIDE DEF longer
    <3>2. inbox' = inbox
      BY <2>2, <3>1
    <3> QED
      BY <3>2
  <2> QED
    BY <2>1, <2>2
<1>7. ASSUME NEW k \in Calls, NEW r \in Replies, Answer(k, r) PROVE CallsTypeOK'
  <2>1. <<k, r>> \in Responses /\ on[k] \in Conns \cup {None}
    BY DEF Responses
  <2>2. inbox' = [inbox EXCEPT ![on[k]] = Append(@, <<k, r>>)]
    BY <1>7 DEF Answer
  <2>3. inbox' \in [Conns -> Seq(Responses)]
    BY <1>6, <2>1, <2>2
  <2>4. answered' \subseteq Calls \X Replies
    BY <1>7 DEF Answer
  <2> QED
    BY <1>7, <2>3, <2>4 DEF Answer, answerVars
<1>8. ASSUME NEW c \in Conns, NEW id \in StaleIds, NEW r \in Replies, AnswerUnasked(c, id, r)
      PROVE  CallsTypeOK'
  <2>1. <<id, r>> \in Responses
    BY DEF Responses
  <2>2. inbox' \in [Conns -> Seq(Responses)]
    BY <1>6, <1>8, <2>1 DEF AnswerUnasked
  <2> QED
    BY <1>8, <2>2 DEF AnswerUnasked, answerVars
<1>9. ASSUME NEW c \in Conns, ReceiveOther(c) PROVE CallsTypeOK'
  <2>1. rxCtx \in Conns \cup {None}
    BY DEF TypeOK
  <2>2. /\ via' \in [Handlers -> Conns \cup {None}] /\ under' \in [Answerers -> Conns \cup {None}]
        /\ \A h \in Handlers : via[h] # None => via'[h] # None
    <3>1. ASSUME NEW h \in Handlers,
                 via' = [via EXCEPT ![h] = c], under' = [under EXCEPT ![h] = rxCtx]
          PROVE  /\ via' \in [Handlers -> Conns \cup {None}]
                 /\ under' \in [Answerers -> Conns \cup {None}]
                 /\ \A g \in Handlers : via[g] # None => via'[g] # None
      BY <2>1, <3>1, NoneAssumption
    <3>2. CASE UNCHANGED via /\ under' = [under EXCEPT ![c] = rxCtx]
      BY <2>1, <3>2
    <3>3. CASE UNCHANGED answerVars
      BY <3>3 DEF answerVars
    <3> QED
      BY <1>9, <3>1, <3>2, <3>3 DEF ReceiveOther
  <2> QED
    BY <1>9, <2>2 DEF ReceiveOther
<1>10. ASSUME NEW x \in Answerers, AnswerStep(x) PROVE CallsTypeOK'
  BY <1>10, AnswerType
<1>11. ASSUME NEW h \in Handlers, HandlerReturns(h) PROVE CallsTypeOK'
  BY <1>11 DEF HandlerReturns, Answerers
<1>12. CASE UNCHANGED callVars
  BY <1>12 DEF callVars, answerVars
<1> HIDE DEF CallsTypeOK, Senders
<1> QED
  BY <1>1, <1>2, <1>3, <1>4, <1>5, <1>7, <1>8, <1>9, <1>10, <1>11, <1>12
     DEF ClientNext, LoseConn, Over, allVars, ReaderSwaps, ReaderFails, CloserSwaps, CloserFails, Failers

(* Whatever the calls do, the connections behave as ClientLifecycle says: the *)
(* results about it hold of the client with its calls.                       *)
LEMMA StepRefines ==
  ASSUME CallsTypeOK, [ClientNext]_allVars
  PROVE  [Next]_vars
<1>1. ASSUME NEW k \in Calls, InvokeStep(k), ~Panicked PROVE [Next]_vars
  <2>1. CASE WriteExpires(k)
    <3>1. on[k] \in Conns
      BY <2>1 DEF WriteExpires, WriteReturnsError, CallsTypeOK
    <3> QED
      BY <1>1, <2>1, <3>1 DEF WriteExpires, Next
  <2> QED
    BY <1>1, <2>1 DEF InvokeStep, Refuse, CurrentConn, Register, LockSend, Write, WriteFails,
                      Returns, TakeResponse, ContextEnds, ConnectionEnds, Unregister
<1>2. ASSUME NEW x \in Answerers, AnswerStep(x), ~Panicked PROVE [Next]_vars
  <2>1. CASE AnswerSevers(x)
    <3>1. Carrier(x) \in Conns
      BY <2>1 DEF AnswerSevers, Carrier, Answerers, CallsTypeOK
    <3> QED
      BY <1>2, <2>1, <3>1 DEF AnswerSevers, Next
  <2>2. CASE AnswerSent(x) \/ AnswerFails(x)
    BY <1>2, <2>2 DEF AnswerSent, AnswerFails, AnswerReturns, Answerers, Next
  <2>3. CASE AnswerLocks(x)
    BY <2>3 DEF AnswerLocks
  <2> QED
    BY <1>2, <2>1, <2>2, <2>3 DEF AnswerStep
<1>3. ASSUME NEW k \in Calls, Expire(k) \/ \E r \in Replies : Answer(k, r) PROVE UNCHANGED vars
  BY <1>3 DEF Expire, Answer
<1>4. ASSUME NEW c \in Conns, ReceiveResponse(c) \/ ReceiveOther(c) \/ LoseConn(c), ~Panicked
      PROVE  Next
  BY <1>4 DEF ReceiveResponse, ReceiveOther, LoseConn, Next
<1>5. CASE CloserSwaps \/ (\E c \in Conns : ReaderSwaps(c)) \/ (\E h \in Handlers : HandlerReturns(h))
           \/ \E c \in Conns, id \in StaleIds, r \in Replies : AnswerUnasked(c, id, r)
  BY <1>5 DEF CloserSwaps, ReaderSwaps, SwapPending, HandlerReturns, AnswerUnasked
<1>6. CASE ~Panicked /\ (CloserFails \/ \E c \in Conns : ReaderFails(c))
  BY <1>6 DEF CloserFails, ReaderFails, Next, FailStep
<1> QED
  BY <1>1, <1>2, <1>3, <1>4, <1>5, <1>6 DEF ClientNext, Next, allVars

THEOREM CallsTypeCorrect == ClientSpec => []CallsTypeOK
<1>1. TypeOK /\ CallsTypeOK /\ [ClientNext]_allVars => CallsTypeOK' /\ TypeOK'
  BY CallsTypeNext, StepRefines, TypeNext
<1>2. ClientInit => TypeOK /\ CallsTypeOK
  BY TypeInit, CallsTypeInit DEF ClientInit
<1> QED
  BY <1>1, <1>2, PTL DEF ClientSpec

THEOREM ClientImplementsLifecycle == ClientSpec => Spec
<1>1. CallsTypeOK /\ [ClientNext]_allVars => [Next]_vars
  BY StepRefines
<1>2. ClientInit => Init
  BY DEF ClientInit
<1> QED
  BY <1>1, <1>2, CallsTypeCorrect, PTL DEF ClientSpec, Spec

-----------------------------------------------------------------------------
(* The pending map.                                                         *)

LEMMA PendingNext ==
  ASSUME CallsTypeOK, PendingMap, [ClientNext]_allVars
  PROVE  PendingMap'
<1> USE DEF PendingMap, CallsTypeOK, Due
<1>1. CASE Bystanders \/ UNCHANGED <<call, ch, pending, swapped>>
  BY <1>1 DEF Bystanders
<1>2. ASSUME NEW f \in Failers, SwapPending(f) PROVE PendingMap'
  BY <1>2 DEF SwapPending
<1>3. ASSUME NEW f \in Failers, FailSwapped(f) PROVE PendingMap'
  <2>1. ASSUME NEW k \in Calls, Due(f, k) PROVE ch'[k] # None
    BY <1>3, <2>1 DEF FailSwapped
  <2>2. ASSUME NEW k \in Calls PROVE ch[k] # None => ch'[k] # None
    BY <1>3 DEF FailSwapped
  <2>3. ASSUME NEW k \in Calls, NEW g \in Failers, Due(g, k) PROVE g = f \/ Due(g, k)'
    BY <1>3, <2>3 DEF FailSwapped
  <2> QED
    BY <1>3, <2>1, <2>2, <2>3 DEF FailSwapped
<1>4. ASSUME NEW c \in Conns, ReceiveResponse(c) PROVE PendingMap'
  <2>1. \A k \in Calls : ch[k] # None => ch'[k] # None
    BY <1>4, ResponseSets
  <2> QED
    BY <1>4, <2>1 DEF ReceiveResponse
<1>5. ASSUME NEW k \in Calls, InvokeStep(k) PROVE PendingMap'
  BY <1>5 DEF InvokeStep, Refuse, CurrentConn, Register, LockSend, Write, WriteFails, WriteExpires,
              WriteReturnsError, Returns, TakeResponse, ContextEnds, ConnectionEnds, Unregister
<1>6. ASSUME NEW k \in Calls, Expire(k) \/ \E r \in Replies : Answer(k, r)
      PROVE  UNCHANGED <<call, ch, pending, swapped>>
  BY <1>6 DEF Expire, Answer
<1>7. ASSUME NEW x \in Answerers, AnswerStep(x) PROVE UNCHANGED <<call, ch, pending, swapped>>
  BY <1>7 DEF AnswerStep, AnswerLocks, AnswerSent, AnswerFails, AnswerReturns, AnswerSevers
<1>8. CASE \/ UNCHANGED callVars \/ \E c \in Conns : ReceiveOther(c)
           \/ \E h \in Handlers : HandlerReturns(h)
           \/ \E c \in Conns, id \in StaleIds, r \in Replies : AnswerUnasked(c, id, r)
  BY <1>8, <1>1 DEF callVars, ReceiveOther, HandlerReturns, AnswerUnasked
<1> HIDE DEF PendingMap, CallsTypeOK, Due
<1> QED
  BY <1>1, <1>2, <1>3, <1>4, <1>5, <1>6, <1>7, <1>8
     DEF ClientNext, LoseConn, Over, allVars, ReaderSwaps, ReaderFails, CloserSwaps, CloserFails, Failers

(* A call on its way is registered or has been told; a call that returned is  *)
(* not in the map.                                                           *)
THEOREM PendingCorrect == ClientSpec => []PendingMap
<1>1. ClientInit => PendingMap
  BY DEF ClientInit, CallsInit, PendingMap, Due
<1>2. CallsTypeOK /\ PendingMap /\ [ClientNext]_allVars => PendingMap'
  BY PendingNext
<1> QED
  BY <1>1, <1>2, CallsTypeCorrect, PTL DEF ClientSpec

-----------------------------------------------------------------------------
(* Calls and answers, and the end of their connection.  A connection stands   *)
(* as long as it is the client's, or the one that Close is about to cancel.  *)

Standing(c) == IF closed THEN c = closeWs /\ closer = "stop" ELSE c = ws

(* A connection that something is or will be written on is the client's, or   *)
(* its receive context is done; and nobody is about to install it.           *)
Captured(c) == /\ rxDone[c] \/ Standing(c)
               /\ \A p \in Dialers : dialed[p] # c
Sending(x) == IF x \in Calls THEN Active(x) ELSE Answering(x)
CallInv == \A x \in Senders : Sending(x) => Captured(Carrier(x))

(* No step takes a connection from a sender without cancelling its context.    *)
LEMMA CapturedConnect ==
  ASSUME TypeOK, IndInv, NEW c \in Conns, Captured(c), ~(sock[c] = "closed" /\ sock'[c] = "open"),
         NEW t \in Connectors, CallConnect(t) \/ ConnectStep(t)
  PROVE  Captured(c)'
<1> USE DEF Captured, Standing, TypeOK, Dialers, clientVars, connVars, closeVars
<1>1. CASE InstallConn(t)
  <2>1. dialed[t] # None /\ dialed[t] \in Conns
    BY <1>1 DEF InstallConn, IndInv, InvDial
  <2>2. closed \/ ws = None
    BY <1>1 DEF InstallConn, IndInv, InvUser
  <2>3. \A p \in Dialers : dialed'[p] # c
    BY <1>1, NoneAssumption DEF InstallConn
  <2>4. CASE closed
    BY <1>1, <2>3, <2>4 DEF InstallConn, InstallRefused, Discard
  <2>5. CASE ~closed
    <3>1. rxDone[c] /\ rxDone'[c] = rxDone[c]
      BY <1>1, <2>1, <2>2, <2>5, NoneAssumption DEF InstallConn, InstallRefused, Install
    <3> QED
      BY <2>3, <3>1
  <2> QED
    BY <2>4, <2>5
<1>2. ASSUME NEW d \in Conns, Dial(t, d) PROVE Captured(c)'
  <2>1. d # c
    BY <1>2 DEF Dial, FreshConn
  <2> QED
    BY <1>2, <2>1 DEF Dial
<1>3. CASE CallConnect(t) \/ CheckState(t) \/ DialFails(t) \/ DisableReconnect(t)
           \/ CancelReconnect(t) \/ ReconnectDisabled(t)
  BY <1>3 DEF CallConnect, CheckState, DialFails, DisableReconnect, CancelReconnect, ReconnectDisabled
<1> QED
  BY <1>1, <1>2, <1>3 DEF ConnectStep

LEMMA CapturedRead ==
  ASSUME TypeOK, IndInv, NEW c \in Conns, Captured(c), NEW d \in Conns,
         ReadStep(d) \/ FailPending(d) \/ Receive(d) \/ AnswerEnds(d) \/ Lose(d) \/ Sever(d)
  PROVE  Captured(c)'
<1> USE DEF Captured, Standing, TypeOK, Dialers, clientVars, closeVars
<1>1. CASE OnDisconnect(d)
  BY <1>1 DEF OnDisconnect
<1>2. CASE ~OnDisconnect(d)
  BY <1>2 DEF ReadStep, ReadNext, ReadNilContext, ReadFails, SendWake, FailPending, Receive, AnswerEnds,
                    Lose, Sever
<1> QED
  BY <1>1, <1>2

LEMMA CapturedLoop ==
  ASSUME TypeOK, IndInv, NEW c \in Conns, Captured(c), ~(sock[c] = "closed" /\ sock'[c] = "open"),
         NEW r \in Sessions, LoopStep(r) \/ ParentCancels(r)
  PROVE  Captured(c)'
<1> USE DEF Captured, Standing, TypeOK, Dialers, RLoopAt, clientVars, connVars, closeVars
<1>1. CASE InstallRedialed(r)
  <2>1. dialed[r] # None /\ dialed[r] \in Conns
    BY <1>1 DEF InstallRedialed, IndInv, InvDial
  <2>2. \A p \in Dialers : dialed'[p] # c
    BY <1>1, NoneAssumption DEF InstallRedialed
  <2>3. CASE ~closed /\ Install(dialed[r]) /\ ws = None
    <3>1. rxDone[c] /\ rxDone'[c] = rxDone[c]
      BY <2>1, <2>3, NoneAssumption DEF Install
    <3> QED
      BY <2>2, <3>1
  <2>4. CASE Discard(dialed[r])
    BY <1>1, <2>2, <2>4 DEF InstallRedialed, Discard
  <2> QED
    BY <1>1, <2>3, <2>4 DEF InstallRedialed, RedialRefused
<1>2. ASSUME NEW d \in Conns, Redial(r, d) PROVE Captured(c)'
  <2>1. d # c
    BY <1>2 DEF Redial, FreshConn
  <2> QED
    BY <1>2, <2>1 DEF Redial
<1>3. CASE LoopStops(r) \/ LoopWakes(r) \/ LoopChecks(r) \/ RedialFails(r)
           \/ LoopConfirms(r) \/ DelayExpires(r) \/ ParentCancels(r)
  BY <1>3 DEF LoopStops, LoopWakes, LoopChecks, RedialFails, LoopConfirms, DelayExpires, ParentCancels
<1> QED
  BY <1>1, <1>2, <1>3 DEF LoopStep, Redials

LEMMA CapturedClose ==
  ASSUME TypeOK, IndInv, NEW c \in Conns, Captured(c), CallClose \/ CloseStep \/ CloseFailsPending
  PROVE  Captured(c)'
<1> USE DEF Captured, Standing, TypeOK, clientVars, connVars, IndInv, InvClose
<1>1. CASE CallClose
  BY <1>1 DEF CallClose
<1>2. CASE CloseCancels
  BY <1>2 DEF CloseCancels
<1>3. CASE CloseAwaitsRead \/ CloseAwaitsLoop \/ CloseFailsPending
  BY <1>3 DEF CloseAwaitsRead, CloseAwaitsLoop, CloseFailsPending
<1> QED
  BY <1>1, <1>2, <1>3 DEF CloseStep

LEMMA CapturedNext ==
  ASSUME OneWayIn, TypeOK, IndInv, [Next]_vars,
         NEW c \in Conns, Captured(c), ~(sock[c] = "closed" /\ sock'[c] = "open")
  PROVE  Captured(c)'
<1>1. ASSUME NEW t \in Connectors, NEW r \in Sessions, CallConnectWithReconnect(t, r)
      PROVE  Captured(c)'
  BY <1>1 DEF CallConnectWithReconnect, Captured, Standing, connVars, closeVars
<1>2. CASE UNCHANGED vars
  BY <1>2 DEF vars, clientVars, connVars, closeVars, Captured, Standing
<1> QED
  BY <1>1, <1>2, CapturedConnect, CapturedRead, CapturedLoop, CapturedClose
     DEF Next, ProgramStep, FailStep, Over

(* Which steps of the client are steps of ClientLifecycle, seen from a        *)
(* connection.                                                               *)
LEMMA ClientSteps ==
  ASSUME CallsTypeOK, [ClientNext]_allVars
  PROVE  \/ ProgramStep /\ Bystanders
         \/ UNCHANGED vars
         \/ FailStep
         \/ \E c \in Conns : \/ ReceiveResponse(c) \/ ReceiveOther(c) \/ LoseConn(c)
                             \/ AnswerReturns(c) /\ AnswerEnds(c)
                             \/ Sever(c) /\ InFlightIsLost
<1>1. ASSUME NEW k \in Calls, InvokeStep(k)
      PROVE  UNCHANGED vars \/ \E c \in Conns : Sever(c) /\ InFlightIsLost
  <2>1. CASE WriteExpires(k)
    <3>1. on[k] \in Conns
      BY <2>1 DEF WriteExpires, WriteReturnsError, CallsTypeOK
    <3> QED
      BY <2>1, <3>1 DEF WriteExpires
  <2> QED
    BY <1>1, <2>1 DEF InvokeStep, Refuse, CurrentConn, Register, LockSend, Write, WriteFails,
                      Returns, TakeResponse, ContextEnds, ConnectionEnds, Unregister
<1>2. ASSUME NEW x \in Answerers, AnswerStep(x)
      PROVE  \/ UNCHANGED vars
             \/ \E c \in Conns : \/ AnswerReturns(c) /\ AnswerEnds(c)
                                 \/ Sever(c) /\ InFlightIsLost
  <2>1. CASE AnswerSevers(x)
    <3>1. Carrier(x) \in Conns
      BY <2>1 DEF AnswerSevers, Carrier, Answerers, CallsTypeOK
    <3> QED
      BY <1>2, <2>1, <3>1 DEF AnswerSevers
  <2>2. CASE AnswerSent(x) \/ AnswerFails(x)
    BY <2>2 DEF AnswerSent, AnswerFails, AnswerReturns, Answerers
  <2>3. CASE AnswerLocks(x)
    BY <2>3 DEF AnswerLocks
  <2> QED
    BY <1>2, <2>1, <2>2, <2>3 DEF AnswerStep
<1>3. ASSUME NEW k \in Calls, Expire(k) \/ \E r \in Replies : Answer(k, r) PROVE UNCHANGED vars
  BY <1>3 DEF Expire, Answer
<1>4. CASE CloserSwaps \/ (\E c \in Conns : ReaderSwaps(c)) \/ (\E h \in Handlers : HandlerReturns(h))
           \/ \E c \in Conns, id \in StaleIds, r \in Replies : AnswerUnasked(c, id, r)
  BY <1>4 DEF CloserSwaps, ReaderSwaps, SwapPending, HandlerReturns, AnswerUnasked
<1>5. CASE CloserFails \/ \E c \in Conns : ReaderFails(c)
  BY <1>5 DEF CloserFails, ReaderFails, FailStep
<1> QED
  BY <1>1, <1>2, <1>3, <1>4, <1>5 DEF ClientNext, Over, allVars

(* A connection that is written on is not another one under its sender's feet. *)
WrittenOn(c) == \/ \E k \in Calls : Active(k) /\ on[k] = c
            \/ \E x \in Answerers : Answering(x) /\ c \in {Carrier(x), under[x]}

LEMMA SockKept ==
  ASSUME TypeOK, CallsTypeOK, [ClientNext]_allVars, NEW c \in Conns, WrittenOn(c)
  PROVE  ~(sock[c] = "closed" /\ sock'[c] = "open")
<1>1. CASE Bystanders
  BY <1>1 DEF Bystanders, WrittenOn
<1>2. CASE FailStep
  BY <1>2 DEF FailStep, FailPending, CloseFailsPending, connVars
<1>3. ASSUME NEW d \in Conns,
             ReceiveResponse(d) \/ ReceiveOther(d) \/ AnswerEnds(d) \/ Sever(d)
      PROVE  ~(sock[c] = "closed" /\ sock'[c] = "open")
  BY <1>3 DEF ReceiveResponse, ReceiveOther, Receive, AnswerEnds, Sever, TypeOK
<1>4. CASE UNCHANGED vars
  BY <1>4 DEF vars, connVars
<1> QED
  BY <1>1, <1>2, <1>3, <1>4, ClientSteps DEF LoseConn

(* Who writes, and where, from one step to the next: only a call that captures *)
(* the connection, and what has just been received, start anew.              *)
Begins(x) == \/ x \in Calls /\ CurrentConn(x)
             \/ \E c \in Conns : ReceiveOther(c) /\ Carrier(x)' = c

LEMMA SendingKept ==
  ASSUME TypeOK, CallsTypeOK, InvDial, [ClientNext]_allVars, NEW x \in Senders
  PROVE  Sending(x)' => Begins(x) \/ (Sending(x) /\ Carrier(x)' = Carrier(x))
<1>1. CASE x \in Calls
  <2>1. CASE UNCHANGED <<call, on>>
    BY <1>1, <2>1 DEF Sending, Active, Carrier
  <2>2. ASSUME NEW j \in Calls, InvokeStep(j), ~CurrentConn(j)
        PROVE  /\ on' = on /\ \A i \in Calls \ {j} : call'[i] = call[i]
               /\ call[j] # "done" /\ (call[j] = "idle" => call'[j] = "done")
    BY <2>2 DEF InvokeStep, Refuse, Register, LockSend, Write, WriteFails, WriteExpires, WriteReturnsError,
                Returns, TakeResponse, ContextEnds, ConnectionEnds, Unregister, CallsTypeOK
  <2>3. ASSUME NEW j \in Calls, CurrentConn(j), j # x
        PROVE  on'[x] = on[x] /\ call'[x] = call[x]
    BY <1>1, <2>3 DEF CurrentConn, CallsTypeOK
  <2>4. ASSUME NEW j \in Calls, InvokeStep(j), Sending(x)'
        PROVE  Begins(x) \/ (Sending(x) /\ Carrier(x)' = Carrier(x))
    BY <1>1, <2>2, <2>3, <2>4 DEF Sending, Active, Carrier, Begins
  <2>5. ASSUME NEW k \in Calls, Expire(k) \/ \E r \in Replies : Answer(k, r)
        PROVE  UNCHANGED <<call, on>>
    BY <2>5 DEF Expire, Answer
  <2>6. ASSUME NEW y \in Answerers, AnswerStep(y) PROVE UNCHANGED <<call, on>>
    BY <2>6 DEF AnswerStep, AnswerLocks, AnswerSent, AnswerFails, AnswerReturns, AnswerSevers
  <2>7. ASSUME NEW f \in Failers, SwapPending(f) \/ FailSwapped(f) PROVE UNCHANGED <<call, on>>
    BY <2>7 DEF SwapPending, FailSwapped
  <2> QED
    BY <2>1, <2>4, <2>5, <2>6, <2>7
       DEF ClientNext, Bystanders, ReceiveResponse, ReceiveOther, LoseConn, AnswerUnasked, HandlerReturns,
           Over, callVars, allVars, ReaderSwaps, ReaderFails, CloserSwaps, CloserFails, Failers
<1>2. CASE x \in Handlers
  <2>1. x \notin Calls
    BY <1>2
  <2>2. via'[x] \in {via[x], None} \/ \E c \in Conns : ReceiveOther(c) /\ via'[x] = c
    <3>1. ASSUME NEW y \in Answerers, AnswerStep(y) PROVE via'[x] \in {via[x], None}
      BY <1>2, <3>1 DEF AnswerStep, AnswerLocks, AnswerSent, AnswerFails, AnswerReturns, AnswerSevers,
                        answerVars, CallsTypeOK
    <3>2. ASSUME NEW c \in Conns, ReceiveOther(c)
          PROVE  via'[x] = via[x] \/ (ReceiveOther(c) /\ via'[x] = c)
      BY <1>2, <3>2 DEF ReceiveOther, answerVars, CallsTypeOK
    <3>3. ASSUME NEW h \in Handlers, HandlerReturns(h) PROVE via'[x] \in {via[x], None}
      BY <1>2, <3>3 DEF HandlerReturns, CallsTypeOK
    <3>4. ASSUME NEW k \in Calls, InvokeStep(k) \/ Expire(k) \/ \E r \in Replies : Answer(k, r)
          PROVE  via' = via
      BY <3>4 DEF InvokeStep, Refuse, CurrentConn, Register, LockSend, Write, WriteFails, WriteExpires,
                  WriteReturnsError, Returns, TakeResponse, ContextEnds, ConnectionEnds, Unregister,
                  Expire, Answer, answerVars
    <3>5. ASSUME NEW f \in Failers, SwapPending(f) \/ FailSwapped(f) PROVE via' = via
      BY <3>5 DEF SwapPending, FailSwapped, answerVars
    <3> QED
      BY <3>1, <3>2, <3>3, <3>4, <3>5
         DEF ClientNext, Bystanders, ReceiveResponse, LoseConn, AnswerUnasked, Over, callVars, allVars,
             answerVars, ReaderSwaps, ReaderFails, CloserSwaps, CloserFails, Failers
  <2> QED
    BY <1>2, <2>1, <2>2 DEF Sending, Answering, Carrier, Begins
<1>3. CASE x \in Conns
  <2>1. x \notin Calls /\ x \notin Handlers
    BY <1>3
  <2>2. loop'[x] = "answer" => loop[x] = "answer" \/ ReceiveOther(x)
    <3>1. CASE ProgramStep
      <4>1. ASSUME NEW t \in Connectors,
                   ConnectStep(t) \/ CallConnect(t) \/ \E r \in Sessions : CallConnectWithReconnect(t, r)
            PROVE  loop'[x] = "answer" => loop[x] = "answer"
        BY <1>3, <4>1 DEF ConnectStep, CheckState, DialFails, Dial, InstallConn, Install, Discard,
             DisableReconnect, CancelReconnect, ReconnectDisabled, CallConnect, CallConnectWithReconnect,
             connVars, TypeOK
      <4>2. ASSUME NEW c \in Conns, ReadStep(c) PROVE loop'[x] = "answer" => loop[x] = "answer"
        BY <1>3, <4>2 DEF ReadStep, ReadNext, ReadNilContext, ReadFails, OnDisconnect, SendWake, TypeOK
      <4>3. ASSUME NEW r \in Sessions, LoopStep(r) \/ ParentCancels(r)
            PROVE  loop'[x] = "answer" => loop[x] = "answer"
        BY <1>3, <4>3 DEF LoopStep, LoopStops, LoopWakes, LoopChecks, Redials, Redial, RedialFails,
             InstallRedialed, Install, Discard, LoopConfirms, DelayExpires, ParentCancels, connVars, TypeOK
      <4>4. CASE CallClose \/ CloseStep
        BY <4>4 DEF CallClose, CloseStep, CloseCancels, CloseAwaitsRead, CloseAwaitsLoop, connVars
      <4> QED
        BY <3>1, <4>1, <4>2, <4>3, <4>4 DEF ProgramStep
    <3>2. CASE FailStep
      BY <1>3, <3>2 DEF FailStep, FailPending, CloseFailsPending, connVars, TypeOK
    <3>3. ASSUME NEW c \in Conns, ReceiveResponse(c) \/ (c # x /\ ReceiveOther(c)) \/ Lose(c)
                                  \/ AnswerEnds(c) \/ Sever(c)
          PROVE  loop'[x] = "answer" => loop[x] = "answer"
      BY <1>3, <3>3 DEF ReceiveResponse, ReceiveOther, Receive, Lose, AnswerEnds, Sever, TypeOK
    <3>4. CASE UNCHANGED vars
      BY <3>4 DEF vars, connVars
    <3> QED
      BY <3>1, <3>2, <3>3, <3>4, ClientSteps DEF LoseConn
  <2> QED
    BY <1>3, <2>1, <2>2 DEF Sending, Answering, Carrier, Begins
<1> QED
  BY <1>1, <1>2, <1>3 DEF Senders, Answerers

LEMMA CallNext ==
  ASSUME OneWayIn, TypeOK, CloseInv, IndInv, CallsTypeOK, CallInv, [ClientNext]_allVars
  PROVE  CallInv'
<1>1. [Next]_vars
  BY StepRefines
<1>2. ASSUME NEW x \in Senders, Sending(x) PROVE Carrier(x) \in Conns /\ WrittenOn(Carrier(x))
  BY <1>2 DEF Sending, Answering, Active, Carrier, WrittenOn, Senders, Answerers, CallsTypeOK
<1>3. ASSUME NEW x \in Senders, Sending(x), Carrier(x)' = Carrier(x) PROVE Captured(Carrier(x))'
  <2>1. PICK c \in Conns : c = Carrier(x)
    BY <1>2, <1>3
  <2>2. Captured(c) /\ ~(sock[c] = "closed" /\ sock'[c] = "open")
    BY <1>2, <1>3, <2>1, SockKept DEF CallInv
  <2>3. Captured(c)'
    BY <1>1, <2>2, CapturedNext
  <2> QED
    BY <1>3, <2>1, <2>3 DEF Captured, Standing
<1>4. ASSUME NEW k \in Calls, CurrentConn(k) PROVE Captured(Carrier(k))'
  <2>1. ws \in Receiving /\ ~closed /\ UNCHANGED vars
    BY <1>4 DEF CurrentConn, IndInv, InvRead
  <2>2. Carrier(k)' = ws
    BY <1>4 DEF CurrentConn, CallsTypeOK, Carrier
  <2>3. \A p \in Dialers : dialed[p] # ws
    BY <2>1, NoneAssumption DEF Receiving, Reading, IndInv, InvDial
  <2> QED
    BY <2>1, <2>2, <2>3 DEF Captured, Standing, vars, clientVars, connVars, closeVars
<1>5. ASSUME NEW c \in Conns, ReceiveOther(c) PROVE Captured(c)'
  <2>1. loop[c] = "blocked" /\ sock[c] = "open"
    BY <1>5 DEF ReceiveOther, Receive
  <2>2. c = Current /\ \A p \in Dialers : dialed[p] # c
    BY <2>1, NoneAssumption DEF IndInv, InvRead, InvDial, Receiving, Reading
  <2>3. closed => closer = "stop"
    BY <2>1, <2>2, NoneAssumption DEF CloseInv, Current
  <2>4. UNCHANGED <<clientVars, rxDone, dialed, closeVars>>
    BY <1>5 DEF ReceiveOther, Receive
  <2> QED
    BY <2>2, <2>3, <2>4 DEF Captured, Standing, Current, clientVars, closeVars
<1>6. ASSUME NEW x \in Senders, Sending(x)' PROVE Captured(Carrier(x))'
  <2>1. CASE Sending(x) /\ Carrier(x)' = Carrier(x)
    BY <1>3, <2>1
  <2>2. CASE x \in Calls /\ CurrentConn(x)
    BY <1>4, <2>2
  <2>3. ASSUME NEW c \in Conns, ReceiveOther(c), Carrier(x)' = c PROVE Captured(Carrier(x))'
    BY <1>5, <2>3 DEF Captured, Standing
  <2> QED
    BY <1>6, <2>1, <2>2, <2>3, SendingKept DEF Begins, IndInv
<1> QED
  BY <1>6 DEF CallInv

(* A call that waits, with nothing in its channel, always has somebody to tell *)
(* it of the end of its connection: the read loop of the connection in use,   *)
(* or Close.                                                                 *)
THEOREM NoStrandedCorrect ==
  ASSUME OneWayIn PROVE ClientSpec => []NoStrandedCall
<1>1. ClientInit => IndInv /\ CloseInv /\ CallInv
  <2>1. ClientInit => CallInv
    BY DEF ClientInit, CallsInit, Init, CallInv, Sending, Active, Answering, Senders, Answerers
  <2> QED
    BY <2>1, IndInit DEF ClientInit, Init, CloseInv
<1>2. TypeOK /\ CloseInv /\ IndInv /\ CallsTypeOK /\ CallInv /\ [ClientNext]_allVars
        => IndInv' /\ CloseInv' /\ CallInv' /\ TypeOK'
  BY StepRefines, TypeNext, CloseInvNext, IndNext, CallNext
<1>3. IndInv /\ CallsTypeOK /\ CallInv => NoStrandedCall
  BY DEF IndInv, InvRead, Receiving, CallsTypeOK, CallInv, Captured, Standing, Sending, Active, Carrier,
         Senders, NoStrandedCall
<1>4. ClientInit => TypeOK
  BY TypeInit DEF ClientInit
<1> QED
  BY <1>1, <1>2, <1>3, <1>4, CallsTypeCorrect, PTL DEF ClientSpec

-----------------------------------------------------------------------------
(* Responses.                                                               *)

(* What is in flight was sent by the peer to a call, unless it is for no call, *)
(* and what a channel holds was sent to its call.                            *)
Meant(m) == m \in answered \/ m[1] \in StaleIds
ReplyInv ==
  /\ \A c \in Conns : \A i \in 1 .. Len(inbox[c]) : Meant(inbox[c][i])
  /\ \A k \in Calls : ch[k] \in {"result", "error"} => Answered(k, ch[k])
  /\ ReplyIntegrity

(* Steps that add no response keep it.                                       *)
LEMMA NothingArrives ==
  ASSUME CallsTypeOK, ReplyInv, UNCHANGED answered,
         \A c \in Conns : inbox'[c] \in {inbox[c], <<>>},
         \A k \in Calls : /\ ch'[k] \in {ch[k], None, "unavailable"}
                          /\ outcome'[k] \in {"result", "error"} => outcome'[k] \in {outcome[k], ch[k]}
  PROVE  ReplyInv'
<1>1. \A k \in Calls : \A v : Answered(k, v) => Answered(k, v)'
  BY DEF Answered
<1>2. \A c \in Conns : \A i \in 1 .. Len(inbox'[c]) : Meant(inbox[c][i])' /\ inbox'[c][i] = inbox[c][i]
  BY DEF ReplyInv, Meant
<1>3. \A c \in Conns : \A i \in 1 .. Len(inbox'[c]) : Meant(inbox[c][i])'
  BY <1>2
<1>4. \A k \in Calls : ch'[k] \in {"result", "error"} => Answered(k, ch[k])'
  BY <1>1 DEF ReplyInv
<1>5. \A k \in Calls : outcome'[k] \in {"result", "error"} => Answered(k, outcome[k])'
  BY <1>1 DEF ReplyInv, ReplyIntegrity
<1> QED
  BY <1>2, <1>4, <1>5 DEF ReplyInv, ReplyIntegrity, Meant

(* A response that arrives is added to one inbox.                            *)
LEMMA OneArrives ==
  ASSUME CallsTypeOK, ReplyInv, UNCHANGED <<ch, outcome>>, answered \subseteq answered',
         NEW d \in Conns \cup {None}, NEW m \in Responses,
         inbox' = [inbox EXCEPT ![d] = Append(@, m)], m \in answered' \/ m[1] \in StaleIds
  PROVE  ReplyInv'
<1>1. ASSUME NEW c \in Conns, NEW i \in 1 .. Len(inbox'[c])
      PROVE  inbox'[c][i] \in answered' \/ inbox'[c][i][1] \in StaleIds
  <2>1. inbox[c] \in Seq(Responses)
    BY DEF CallsTypeOK
  <2>2. CASE c # d
    <3>1. inbox'[c] = inbox[c]
      BY <2>2 DEF CallsTypeOK
    <3> QED
      BY <1>1, <3>1 DEF ReplyInv, Meant
  <2>3. CASE c = d
    <3>1. inbox'[c] = Append(inbox[c], m)
      BY <2>3 DEF CallsTypeOK
    <3>2. Len(inbox'[c]) = Len(inbox[c]) + 1 /\ inbox'[c][Len(inbox[c]) + 1] = m
          /\ \A j \in 1 .. Len(inbox[c]) : inbox'[c][j] = inbox[c][j]
      BY <2>1, <3>1
    <3>3. CASE i \in 1 .. Len(inbox[c])
      BY <3>2, <3>3 DEF ReplyInv, Meant
    <3>4. CASE i = Len(inbox[c]) + 1
      BY <3>2, <3>4
    <3>5. Len(inbox[c]) \in Nat
      BY <2>1
    <3> QED
      BY <1>1, <3>2, <3>3, <3>4, <3>5
  <2> QED
    BY <2>2, <2>3
<1> QED
  BY <1>1 DEF ReplyInv, Meant, Answered, ReplyIntegrity

LEMMA ReplyNext ==
  ASSUME CallsTypeOK, ReplyInv, [ClientNext]_allVars
  PROVE  ReplyInv'
<1> DEFINE Nothing ==
             /\ UNCHANGED answered
             /\ \A c \in Conns : inbox'[c] \in {inbox[c], <<>>}
             /\ \A k \in Calls : /\ ch'[k] \in {ch[k], None, "unavailable"}
                                 /\ outcome'[k] \in {"result", "error"} => outcome'[k] \in {outcome[k], ch[k]}
<1>1. ASSUME NEW k \in Calls, InvokeStep(k) PROVE Nothing
  <2>1. CASE TakeResponse(k)
    BY <2>1 DEF TakeResponse, Returns, CallsTypeOK
  <2>2. CASE WriteExpires(k)
    BY <2>2, LossType DEF WriteExpires, WriteReturnsError, CallsTypeOK
  <2> QED
    BY <1>1, <2>1, <2>2
       DEF InvokeStep, Refuse, CurrentConn, Register, LockSend, Write, WriteFails, WriteReturnsError,
           Returns, ContextEnds, ConnectionEnds, Unregister, CallsTypeOK
<1>2. ASSUME NEW x \in Answerers, AnswerStep(x) PROVE Nothing
  BY <1>2, LossType DEF AnswerStep, AnswerLocks, AnswerSent, AnswerFails, AnswerReturns, AnswerSevers
<1>3. ASSUME NEW f \in Failers, SwapPending(f) \/ FailSwapped(f) PROVE Nothing
  BY <1>3 DEF SwapPending, FailSwapped, CallsTypeOK
<1>4. ASSUME \/ Bystanders \/ UNCHANGED callVars \/ \E k \in Calls : Expire(k)
             \/ \E c \in Conns : ReceiveOther(c)
             \/ \E h \in Handlers : HandlerReturns(h)
      PROVE  Nothing
  BY <1>4, LossType DEF Bystanders, callVars, Expire, ReceiveOther, HandlerReturns
<1>5. Nothing => ReplyInv'
  BY NothingArrives
<1> HIDE DEF Nothing
<1>6. ASSUME NEW k \in Calls, NEW r \in Replies, Answer(k, r) PROVE ReplyInv'
  <2>1. on[k] \in Conns \cup {None} /\ <<k, r>> \in Responses
    BY DEF CallsTypeOK, Responses
  <2>2. /\ inbox' = [inbox EXCEPT ![on[k]] = Append(@, <<k, r>>)]
        /\ UNCHANGED <<ch, outcome>> /\ answered' = answered \cup {<<k, r>>}
    BY <1>6 DEF Answer
  <2> QED
    BY <2>1, <2>2, OneArrives
<1>7. ASSUME NEW c \in Conns, NEW id \in StaleIds, NEW r \in Replies, AnswerUnasked(c, id, r)
      PROVE  ReplyInv'
  <2>1. <<id, r>> \in Responses /\ <<id, r>>[1] \in StaleIds
    BY DEF Responses
  <2>2. /\ inbox' = [inbox EXCEPT ![c] = Append(@, <<id, r>>)]
        /\ UNCHANGED <<ch, outcome>> /\ answered' = answered
    BY <1>7 DEF AnswerUnasked
  <2> QED
    BY <2>1, <2>2, OneArrives
<1>8. ASSUME NEW c \in Conns, ReceiveResponse(c) PROVE ReplyInv'
  <2>1. inbox[c] \in Seq(Responses) /\ inbox[c] # <<>> /\ inbox' = [inbox EXCEPT ![c] = Tail(@)]
        /\ UNCHANGED <<answered, outcome>>
    BY <1>8 DEF ReceiveResponse, CallsTypeOK
  <2>2. \A d \in Conns : \A i \in 1 .. Len(inbox'[d]) : inbox'[d][i] \in answered \/ inbox'[d][i][1] \in StaleIds
    <3> DEFINE rest == Tail(inbox[c])
    <3>1. \A i \in 1 .. Len(rest) : rest[i] = inbox[c][i + 1] /\ i + 1 \in 1 .. Len(inbox[c])
      BY <2>1
    <3>2. ASSUME NEW i \in 1 .. Len(rest) PROVE rest[i] \in answered \/ rest[i][1] \in StaleIds
      BY <3>1 DEF ReplyInv, Meant
    <3>3. inbox' = [inbox EXCEPT ![c] = rest]
      BY <2>1
    <3> HIDE DEF rest
    <3> QED
      BY <3>2, <3>3 DEF ReplyInv, Meant, CallsTypeOK
  <2>3. \A k \in Calls : ch'[k] = ch[k] \/ (ch'[k] \in {"result", "error"} => Answered(k, ch'[k]))
    <3>1. ASSUME NEW k \in Calls, NEW r \in Replies, Head(inbox[c]) = <<k, r>>,
                 ch' = [ch EXCEPT ![k] = Verdict(r)]
          PROVE  Answered(k, ch'[k]) /\ \A j \in Calls \ {k} : ch'[j] = ch[j]
      <4>1. Head(inbox[c]) = inbox[c][1] /\ 1 \in 1 .. Len(inbox[c])
        BY <2>1
      <4>2. <<k, r>> \in answered
        BY <3>1, <4>1 DEF ReplyInv, Meant
      <4>3. ch'[k] = Verdict(r)
        BY <3>1 DEF CallsTypeOK
      <4> QED
        BY <3>1, <4>2, <4>3 DEF Answered, CallsTypeOK
    <3> QED
      BY <1>8, <3>1, ResponseSets
  <2> QED
    BY <2>1, <2>2, <2>3 DEF ReplyInv, Meant, Answered, ReplyIntegrity
<1> QED
  BY <1>1, <1>2, <1>3, <1>4, <1>5, <1>6, <1>7, <1>8
     DEF ClientNext, LoseConn, Over, allVars, ReaderSwaps, ReaderFails, CloserSwaps, CloserFails, Failers

(* Invoke returns nothing the peer did not say to this call, for any number of *)
(* calls and connections, and replies late, repeated and out of order.        *)
THEOREM ReplyCorrect == ClientSpec => []ReplyIntegrity
<1>1. ClientInit => ReplyInv
  BY DEF ClientInit, CallsInit, ReplyInv, ReplyIntegrity
<1>2. CallsTypeOK /\ ReplyInv /\ [ClientNext]_allVars => ReplyInv'
  BY ReplyNext
<1>3. ReplyInv => ReplyIntegrity
  BY DEF ReplyInv
<1> QED
  BY <1>1, <1>2, <1>3, CallsTypeCorrect, PTL DEF ClientSpec

-----------------------------------------------------------------------------
(* Liveness.  As in ClientLifecycleProofs, TurnsCome says of the scheduler what *)
(* ClientFairness says, with the condition each goroutine waits for written    *)
(* out: who goes on being able to take a step takes one, and who finds sendMu  *)
(* free again and again gets it.                                             *)
CallReady(k) == \/ call[k] \in {"register", "leave"}
                \/ call[k] = "write" /\ Told(k)
                \/ call[k] = "wait" /\ (ch[k] # None \/ expired[k] \/ rxDone[on[k]])
ReaderReady(c) == ReadReady(c) \/ (sendMu = c /\ Told(c))

CallTurn(k) ==
  /\ []<>~(~Panicked /\ CallReady(k)) \/ []<><<~Panicked /\ Goes(k)>>_allVars
  /\ []<>(~Panicked /\ call[k] = "lock" /\ sendMu = None) => []<><<~Panicked /\ LockSend(k)>>_allVars
ReaderTurn(c) ==
  /\ []<>~(~Panicked /\ ReaderReady(c)) \/ []<><<~Panicked /\ Reads(c)>>_allVars
  /\ []<>(~Panicked /\ Answering(c) /\ sendMu = None) => []<><<~Panicked /\ AnswerLocks(c)>>_allVars
HandlerTurn(h) ==
  []<>~(~Panicked /\ sendMu = h /\ Told(h)) \/ []<><<~Panicked /\ AnswerFails(h)>>_allVars
SessionTurn(r) ==
  []<>~(~Panicked /\ LoopReady(r)) \/ []<><<~Panicked /\ LoopStep(r) /\ Bystanders>>_allVars
CloserTurn == []<>~(~Panicked /\ CloseReady) \/ []<><<~Panicked /\ CloserGoes>>_allVars
TurnsCome == /\ \A k \in Calls : CallTurn(k)
             /\ \A c \in Conns : ReaderTurn(c)
             /\ \A h \in Handlers : HandlerTurn(h)
             /\ \A r \in Sessions : SessionTurn(r)
             /\ CloserTurn

(* What is known of the connections, and more when they are made one way only: *)
(* then Close cancels, and closes, every connection that is written on.       *)
OneWay == OneWayIn => IndInv /\ CallInv
RxInv == (~closed => rxCtx = ws) /\ (ws # None => loop[ws] \notin {"fail", "wake", "done"})
LinkInv == TypeOK /\ CloseInv /\ ClosedIsFinal /\ WakeInv /\ RxInv /\ OneWay
CloseIsPast == OneWayIn /\ closer \notin {"idle", "stop"}

LEMMA RxNext ==
  ASSUME TypeOK, CloseInv, InvDial, RxInv, [Next]_vars
  PROVE  RxInv'
<1> USE NoneAssumption DEF TypeOK, RxInv, clientVars, connVars
<1>1. ASSUME NEW t \in Connectors, ConnectStep(t) PROVE RxInv'
  <2>1. CASE InstallConn(t)
    <3>1. dialed[t] \in Conns
      BY <2>1 DEF InstallConn, InvDial, Dialers
    <3> QED
      BY <2>1, <3>1 DEF InstallConn, InstallRefused, Install, Discard
  <2>2. CASE ~InstallConn(t)
    BY <1>1, <2>2 DEF ConnectStep, CheckState, DialFails, Dial, DisableReconnect, CancelReconnect,
                      ReconnectDisabled
  <2> QED
    BY <2>1, <2>2
<1>2. ASSUME NEW t \in Connectors, CallConnect(t) \/ \E r \in Sessions : CallConnectWithReconnect(t, r)
      PROVE  RxInv'
  BY <1>2 DEF CallConnect, CallConnectWithReconnect
<1>3. ASSUME NEW c \in Conns, ReadStep(c) \/ FailPending(c) \/ Receive(c) \/ AnswerEnds(c)
                              \/ Lose(c) \/ Sever(c)
      PROVE  RxInv'
  BY <1>3 DEF ReadStep, ReadNext, ReadNilContext, ReadFails, OnDisconnect, SendWake, FailPending,
              Receive, AnswerEnds, Lose, Sever
<1>4. ASSUME NEW r \in Sessions, LoopStep(r) \/ ParentCancels(r) PROVE RxInv'
  <2>1. CASE InstallRedialed(r)
    <3>1. dialed[r] \in Conns
      BY <2>1 DEF InstallRedialed, RLoopAt, InvDial, Dialers
    <3>2. CASE Install(dialed[r])
      BY <3>1, <3>2 DEF Install
    <3>3. CASE Discard(dialed[r])
      BY <3>1, <3>3 DEF Discard
    <3> QED
      BY <2>1, <3>2, <3>3 DEF InstallRedialed
  <2>2. CASE ~InstallRedialed(r)
    BY <1>4, <2>2 DEF LoopStep, LoopStops, LoopWakes, LoopChecks, Redials, Redial, RedialFails,
                      LoopConfirms, DelayExpires, ParentCancels
  <2> QED
    BY <2>1, <2>2
<1>5. CASE CallClose \/ CloseStep \/ CloseFailsPending
  BY <1>5 DEF CallClose, CloseStep, CloseCancels, CloseAwaitsRead, CloseAwaitsLoop, CloseFailsPending
<1>6. CASE UNCHANGED vars
  BY <1>6 DEF vars
<1> QED
  BY <1>1, <1>2, <1>3, <1>4, <1>5, <1>6 DEF Next, ProgramStep, FailStep, Over

-----------------------------------------------------------------------------
(* Who holds sendMu writes, and a Write that is told to end remains so.        *)

SendInv ==
  /\ \A k \in Calls : /\ call[k] = "write" <=> sendMu = k
                      /\ expired[k] => Active(k)
  /\ \A x \in Answerers : sendMu = x => Answering(x)
Onward(k) ==
  /\ call[k] = "register" => call'[k] \in {"register", "lock", "leave"}
  /\ call[k] = "lock" => call'[k] \in {"lock", "write"}
  /\ call[k] = "write" => call'[k] \in {"write", "wait", "leave"}
  /\ call[k] = "wait" => call'[k] \in {"wait", "leave"}
  /\ call[k] = "leave" => call'[k] \in {"leave", "done"}
  /\ call[k] = "done" => call'[k] = "done"
  /\ expired[k] => expired'[k] \/ call'[k] = "done"
SendKept == /\ SendInv' /\ (sendMu' = sendMu \/ sendMu = None \/ sendMu' = None)
            /\ \A k \in Calls : Onward(k)

LEMMA StepSends ==
  ASSUME CallsTypeOK, SendInv, NEW k \in Calls, InvokeStep(k)
  PROVE  /\ \A j \in Calls : Onward(j)
         /\ sendMu' = sendMu \/ (sendMu = None /\ sendMu' = k) \/ (sendMu = k /\ sendMu' = None)
         /\ \A j \in Calls : /\ call'[j] = "write" <=> sendMu' = j
                             /\ expired'[j] => Active(j)'
         /\ Goes(k) => /\ call[k] = "register" => call'[k] \in {"lock", "leave"}
                       /\ call[k] = "lock" => call'[k] = "write"
                       /\ call[k] = "write" => call'[k] = "leave" /\ sendMu' = None
                       /\ call[k] = "wait" => call'[k] = "leave"
                       /\ call[k] = "leave" => call'[k] = "done"
<1>1. /\ \A j \in Calls \ {k} : call'[j] = call[j] /\ expired'[j] = expired[j]
      /\ expired'[k] = expired[k] \/ (~expired'[k] /\ call'[k] = "done")
  BY DEF CallsTypeOK, InvokeStep, Refuse, CurrentConn, Register, LockSend, Write, WriteFails,
         WriteExpires, WriteReturnsError, Returns, TakeResponse, ContextEnds, ConnectionEnds, Unregister
<1>2. \/ sendMu' = sendMu /\ call[k] = "idle" /\ call'[k] \in {"register", "done"} /\ ~Goes(k)
      \/ sendMu' = sendMu /\ call[k] = "register" /\ call'[k] \in {"lock", "leave"}
      \/ sendMu = None /\ sendMu' = k /\ call[k] = "lock" /\ call'[k] = "write"
      \/ sendMu' = None /\ call[k] = "write" /\ (call'[k] = "leave" \/ (call'[k] = "wait" /\ ~Goes(k)))
      \/ sendMu' = sendMu /\ call[k] = "wait" /\ call'[k] = "leave"
      \/ sendMu' = sendMu /\ call[k] = "leave" /\ call'[k] = "done" /\ ~expired'[k]
  BY DEF CallsTypeOK, InvokeStep, Goes, Refuse, CurrentConn, Register, LockSend, Write, WriteFails,
         WriteExpires, WriteReturnsError, Returns, TakeResponse, ContextEnds, ConnectionEnds, Unregister
<1>3. \A j \in Calls : Onward(j)
  BY <1>1, <1>2 DEF Onward
<1>4. sendMu' = sendMu \/ (sendMu = None /\ sendMu' = k) \/ (sendMu = k /\ sendMu' = None)
  BY <1>2 DEF SendInv
<1>5. \A j \in Calls : call'[j] = "write" <=> sendMu' = j
  BY <1>1, <1>2, <1>4 DEF SendInv
<1>6. \A j \in Calls : expired'[j] => Active(j)'
  BY <1>1, <1>2 DEF SendInv, Active
<1> QED
  BY <1>2, <1>3, <1>4, <1>5, <1>6

(* An answer stays what it is until it is over.                              *)
LEMMA AnswerHolds ==
  ASSUME TypeOK, CallsTypeOK, [ClientNext]_allVars, NEW x \in Answerers, Answering(x), Answering(x)'
  PROVE  Carrier(x)' = Carrier(x) /\ under'[x] = under[x]
<1> USE DEF CallsTypeOK, Answerers, Carrier, Answering
<1>1. ASSUME NEW y \in Answerers, AnswerStep(y)
      PROVE  under'[x] = under[x] /\ (x \in Handlers => via'[x] = via[x])
  <2>1. CASE AnswerReturns(y) /\ y = x
    BY <2>1 DEF AnswerReturns, AnswerEnds, TypeOK
  <2>2. CASE AnswerReturns(y) /\ y # x
    BY <2>2 DEF AnswerReturns
  <2> QED
    BY <1>1, <2>1, <2>2 DEF AnswerStep, AnswerLocks, AnswerSent, AnswerFails, AnswerSevers, answerVars
<1>2. ASSUME NEW c \in Conns, ReceiveOther(c)
      PROVE  under'[x] = under[x] /\ (x \in Handlers => via'[x] = via[x])
  BY <1>2 DEF ReceiveOther, Receive, answerVars
<1>3. ASSUME NEW h \in Handlers, HandlerReturns(h)
      PROVE  under'[x] = under[x] /\ (x \in Handlers => via'[x] = via[x])
  BY <1>3 DEF HandlerReturns
<1>4. ASSUME NEW k \in Calls, InvokeStep(k) \/ Expire(k) \/ \E r \in Replies : Answer(k, r)
      PROVE  UNCHANGED answerVars
  BY <1>4 DEF InvokeStep, Refuse, CurrentConn, Register, LockSend, Write, WriteFails, WriteExpires,
              WriteReturnsError, Returns, TakeResponse, ContextEnds, ConnectionEnds, Unregister, Expire, Answer
<1>5. ASSUME NEW f \in Failers, SwapPending(f) \/ FailSwapped(f) PROVE UNCHANGED answerVars
  BY <1>5 DEF SwapPending, FailSwapped
<1>6. UNCHANGED answerVars => under'[x] = under[x] /\ (x \in Handlers => via'[x] = via[x])
  BY DEF answerVars
<1>7. under'[x] = under[x] /\ (x \in Handlers => via'[x] = via[x])
  <2> HIDE DEF CallsTypeOK, Answerers, Carrier, Answering
  <2> QED
    BY <1>1, <1>2, <1>3, <1>4, <1>5, <1>6
       DEF ClientNext, Bystanders, ReceiveResponse, LoseConn, AnswerUnasked, Over, callVars, allVars,
           ReaderSwaps, ReaderFails, CloserSwaps, CloserFails, Failers
<1> QED
  BY <1>7

(* A read loop at an answer leaves it through AnswerEnds only.                 *)
LEMMA AnswerStays ==
  ASSUME TypeOK, InvDial, NEW c \in Conns, loop[c] = "answer",
         \/ UNCHANGED vars \/ ProgramStep \/ FailStep
         \/ \E d \in Conns : Receive(d) \/ Lose(d) \/ Sever(d) \/ (d # c /\ AnswerEnds(d))
  PROVE  loop'[c] = "answer"
<1> USE DEF TypeOK, connVars
<1>1. ASSUME NEW t \in Connectors, ConnectStep(t) PROVE loop'[c] = "answer"
  <2>1. CASE InstallConn(t)
    <3>1. dialed[t] \in Conns \ {c}
      BY <2>1 DEF InstallConn, InvDial, Dialers
    <3> QED
      BY <2>1, <3>1 DEF InstallConn, InstallRefused, Install, Discard
  <2>2. CASE ~InstallConn(t)
    BY <1>1, <2>2 DEF ConnectStep, CheckState, DialFails, Dial, DisableReconnect, CancelReconnect,
                      ReconnectDisabled
  <2> QED
    BY <2>1, <2>2
<1>2. ASSUME NEW t \in Connectors, CallConnect(t) \/ \E r \in Sessions : CallConnectWithReconnect(t, r)
      PROVE  loop'[c] = "answer"
  BY <1>2 DEF CallConnect, CallConnectWithReconnect
<1>3. ASSUME NEW d \in Conns, ReadStep(d) \/ FailPending(d) \/ Receive(d)
                              \/ Lose(d) \/ Sever(d) \/ (d # c /\ AnswerEnds(d))
      PROVE  loop'[c] = "answer"
  BY <1>3 DEF ReadStep, ReadNext, ReadNilContext, ReadFails, OnDisconnect, SendWake, FailPending,
              Receive, AnswerEnds, Lose, Sever
<1>4. ASSUME NEW r \in Sessions, LoopStep(r) \/ ParentCancels(r) PROVE loop'[c] = "answer"
  <2>1. CASE InstallRedialed(r)
    <3>1. dialed[r] \in Conns \ {c}
      BY <2>1 DEF InstallRedialed, RLoopAt, InvDial, Dialers
    <3>2. CASE Install(dialed[r])
      BY <3>1, <3>2 DEF Install
    <3>3. CASE Discard(dialed[r])
      BY <3>1, <3>3 DEF Discard
    <3> QED
      BY <2>1, <3>2, <3>3 DEF InstallRedialed
  <2>2. CASE ~InstallRedialed(r)
    BY <1>4, <2>2 DEF LoopStep, LoopStops, LoopWakes, LoopChecks, Redials, Redial, RedialFails,
                      LoopConfirms, DelayExpires, ParentCancels
  <2> QED
    BY <2>1, <2>2
<1>5. CASE CallClose \/ CloseStep \/ CloseFailsPending
  BY <1>5 DEF CallClose, CloseStep, CloseCancels, CloseAwaitsRead, CloseAwaitsLoop, CloseFailsPending
<1>6. CASE UNCHANGED vars
  BY <1>6 DEF vars
<1> QED
  BY <1>1, <1>2, <1>3, <1>4, <1>5, <1>6 DEF ProgramStep, FailStep

(* sendMu is taken when it is free, by who then writes, and let go by its      *)
(* holder; and a call only goes on.                                          *)
Takes(x) == sendMu = None /\ sendMu' = x /\ (x \in Answerers => AnswerLocks(x))

LEMMA MutexMoves ==
  ASSUME CallsTypeOK, SendInv, [ClientNext]_allVars
  PROVE  /\ \A k \in Calls : Onward(k)
         /\ sendMu' = sendMu \/ sendMu' = None \/ \E x \in Senders : Takes(x)
         /\ \A k \in Calls : /\ call'[k] = "write" <=> sendMu' = k
                             /\ expired'[k] => Active(k)'
<1> DEFINE Conclusion ==
             /\ \A k \in Calls : Onward(k)
             /\ sendMu' = sendMu \/ sendMu' = None \/ \E x \in Senders : Takes(x)
             /\ \A k \in Calls : /\ call'[k] = "write" <=> sendMu' = k
                                 /\ expired'[k] => Active(k)'
<1>1. CASE UNCHANGED <<call, expired, sendMu>>
  BY <1>1 DEF SendInv, Onward, Active
<1>2. ASSUME NEW k \in Calls, InvokeStep(k) PROVE Conclusion
  <2>1. k \in Senders /\ k \notin Answerers
    BY DEF Senders, Answerers
  <2> QED
    BY <1>2, <2>1, StepSends DEF Takes
<1>3. ASSUME NEW k \in Calls, Expire(k) PROVE Conclusion
  BY <1>3 DEF Expire, Active, SendInv, Onward, CallsTypeOK
<1>4. ASSUME NEW x \in Answerers, AnswerStep(x) PROVE Conclusion
  <2>1. x \notin Calls /\ x # None /\ x \in Senders /\ UNCHANGED <<call, expired>>
    BY <1>4, NoneAssumption DEF Answerers, Senders, AnswerStep, AnswerLocks, AnswerSent, AnswerFails,
                                AnswerReturns, AnswerSevers
  <2>2. \A k \in Calls : Onward(k) /\ (expired'[k] => Active(k)')
    BY <2>1 DEF Onward, SendInv, Active
  <2>3. \/ sendMu' = sendMu \/ Takes(x) \/ (sendMu = x /\ sendMu' = None)
    BY <1>4 DEF AnswerStep, AnswerLocks, AnswerSent, AnswerFails, AnswerReturns, AnswerSevers, Takes
  <2>4. \A k \in Calls : call'[k] = "write" <=> sendMu' = k
    BY <2>1, <2>3 DEF SendInv, Takes
  <2> QED
    BY <2>1, <2>2, <2>3, <2>4
<1>5. ASSUME NEW f \in Failers, SwapPending(f) \/ FailSwapped(f) PROVE UNCHANGED <<call, expired, sendMu>>
  BY <1>5 DEF SwapPending, FailSwapped
<1>6. ASSUME NEW k \in Calls, NEW r \in Replies, Answer(k, r) PROVE UNCHANGED <<call, expired, sendMu>>
  BY <1>6 DEF Answer
<1> HIDE DEF Conclusion
<1>7. Conclusion
  BY <1>1, <1>2, <1>3, <1>4, <1>5, <1>6
     DEF ClientNext, Bystanders, ReceiveResponse, ReceiveOther, LoseConn, AnswerUnasked, HandlerReturns,
         Over, callVars, allVars, ReaderSwaps, ReaderFails, CloserSwaps, CloserFails, Failers, Conclusion
<1> QED
  BY <1>7 DEF Conclusion

LEMMA HolderAnswers ==
  ASSUME TypeOK, InvDial, CallsTypeOK, SendInv, [ClientNext]_allVars,
         NEW x \in Answerers, sendMu = x, sendMu' = x
  PROVE  Answering(x) /\ Answering(x)'
<1>1. Answering(x) /\ x # None
  BY NoneAssumption DEF SendInv, Answerers
<1>2. CASE x \in Handlers
  <2>1. ASSUME NEW y \in Answerers, AnswerStep(y) PROVE via' = via
    BY <1>1, <2>1 DEF AnswerStep, AnswerLocks, AnswerSent, AnswerFails, AnswerReturns, AnswerSevers,
                      answerVars
  <2>2. ASSUME NEW c \in Conns, ReceiveOther(c) PROVE via'[x] = via[x]
    BY <1>1, <1>2, <2>2 DEF ReceiveOther, answerVars, Answering, CallsTypeOK
  <2>3. ASSUME NEW h \in Handlers, HandlerReturns(h) PROVE via'[x] = via[x]
    BY <1>2, <2>3 DEF HandlerReturns, CallsTypeOK
  <2>4. ASSUME NEW k \in Calls, InvokeStep(k) \/ Expire(k) \/ \E r \in Replies : Answer(k, r)
        PROVE  via' = via
    BY <2>4 DEF InvokeStep, Refuse, CurrentConn, Register, LockSend, Write, WriteFails, WriteExpires,
                WriteReturnsError, Returns, TakeResponse, ContextEnds, ConnectionEnds, Unregister,
                Expire, Answer, answerVars
  <2>5. ASSUME NEW f \in Failers, SwapPending(f) \/ FailSwapped(f) PROVE via' = via
    BY <2>5 DEF SwapPending, FailSwapped, answerVars
  <2>6. via'[x] = via[x]
    BY <2>1, <2>2, <2>3, <2>4, <2>5
       DEF ClientNext, Bystanders, ReceiveResponse, LoseConn, AnswerUnasked, Over, callVars, allVars,
           answerVars, ReaderSwaps, ReaderFails, CloserSwaps, CloserFails, Failers
  <2> QED
    BY <1>1, <1>2, <2>6 DEF Answering
<1>3. CASE x \in Conns
  <2>1. x \notin Handlers /\ loop[x] = "answer"
    BY <1>1, <1>3 DEF Answering
  <2>2. ~AnswerReturns(x)
    BY <1>1 DEF AnswerReturns
  <2>3. loop'[x] = "answer"
    <3>1. ASSUME NEW c \in Conns, ReceiveResponse(c) \/ ReceiveOther(c) \/ LoseConn(c)
          PROVE  Receive(c) \/ Lose(c)
      BY <3>1 DEF ReceiveResponse, ReceiveOther, LoseConn
    <3>2. \/ UNCHANGED vars \/ ProgramStep \/ FailStep
          \/ \E d \in Conns : Receive(d) \/ Lose(d) \/ Sever(d) \/ (d # x /\ AnswerEnds(d))
      BY <2>2, <3>1, ClientSteps
    <3> QED
      BY <1>3, <2>1, <3>2, AnswerStays
  <2> QED
    BY <1>1, <2>1, <2>3 DEF Answering
<1> QED
  BY <1>2, <1>3 DEF Answerers

LEMMA SendNext ==
  ASSUME TypeOK, InvDial, CallsTypeOK, SendInv, [ClientNext]_allVars
  PROVE  SendKept
<1>1. ASSUME NEW x \in Answerers, sendMu' = x PROVE Answering(x)'
  <2>0. x # None
    BY NoneAssumption DEF Answerers
  <2>1. CASE sendMu = x
    BY <1>1, <2>1, HolderAnswers
  <2>2. CASE Takes(x)
    BY <2>2 DEF Takes, AnswerLocks, Answering, vars, connVars, answerVars
  <2> QED
    BY <1>1, <2>0, <2>1, <2>2, MutexMoves DEF Takes
<1>2. sendMu' = sendMu \/ sendMu = None \/ sendMu' = None
  BY MutexMoves DEF Takes
<1> QED
  BY <1>1, <1>2, MutexMoves DEF SendKept, SendInv

(* The connections.                                                         *)
LEMMA LinkNext == LinkInv /\ CallsTypeOK /\ [ClientNext]_allVars => LinkInv'
<1> SUFFICES ASSUME LinkInv, CallsTypeOK, [ClientNext]_allVars PROVE LinkInv'
  OBVIOUS
<1>1. [Next]_vars
  BY StepRefines
<1>2. TypeOK' /\ CloseInv' /\ WakeInv' /\ RxInv'
  BY <1>1, TypeNext, CloseInvNext, WakeNext, RxNext DEF LinkInv, WakeInv
<1>3. OneWay'
  BY <1>1, IndNext, CallNext DEF LinkInv, OneWay
<1>4. ClosedIsFinal'
  BY <1>1, FinalNext DEF LinkInv
<1> QED
  BY <1>2, <1>3, <1>4 DEF LinkInv

LEMMA LinkCorrect == ClientSpec => []LinkInv
<1>1. ClientInit => LinkInv
  <2>1. ClientInit => TypeOK /\ IndInv /\ CallInv
    BY TypeInit, IndInit DEF ClientInit, CallsInit, Init, CallInv, Sending, Active, Answering, Senders,
                             Answerers
  <2>2. ClientInit => WakeInv /\ RxInv /\ CloseInv /\ ClosedIsFinal
    BY NoneAssumption DEF ClientInit, Init, WakeInv, InvDial, InvRegistered, NoLostWakeup, RxInv, CloseInv,
       ClosedIsFinal, Dialers
  <2> QED
    BY <2>1, <2>2 DEF LinkInv, OneWay
<1> QED
  BY <1>1, LinkNext, CallsTypeCorrect, PTL DEF ClientSpec

LEMMA ClosedStays ==
  ASSUME TypeOK, CloseInv, [Next]_vars, closed
  PROVE  closed'
BY CloserAlone, CloseInvNext DEF CloseInv, closeVars, CloseStep, CloseCancels, CloseAwaitsRead,
   CloseAwaitsLoop, CloseFailsPending

(* What is closed is opened only by who dials it anew.                       *)
LEMMA DialOpens ==
  ASSUME TypeOK, [Next]_vars, NEW c \in Conns, NEW p \in Dialers, dialed'[p] = c, dialed[p] # c
  PROVE  sock[c] = "closed" /\ sock'[c] = "open"
<1> USE NoneAssumption DEF TypeOK, Dialers
<1>1. ASSUME NEW t \in Connectors, CallConnect(t) \/ ConnectStep(t)
                                     \/ \E r \in Sessions : CallConnectWithReconnect(t, r)
      PROVE  dialed'[p] \in {dialed[p], None} \/ (sock[c] = "closed" /\ sock'[c] = "open")
  BY <1>1 DEF CallConnect, CallConnectWithReconnect, ConnectStep, CheckState, DialFails, Dial, FreshConn,
              InstallConn, DisableReconnect, CancelReconnect, ReconnectDisabled
<1>2. ASSUME NEW d \in Conns, ReadStep(d) \/ FailPending(d) \/ Receive(d) \/ AnswerEnds(d) \/ Lose(d) \/ Sever(d)
      PROVE  dialed' = dialed
  BY <1>2 DEF ReadStep, ReadNext, ReadNilContext, ReadFails, OnDisconnect, SendWake, FailPending,
              Receive, AnswerEnds, Lose, Sever
<1>3. ASSUME NEW r \in Sessions, LoopStep(r) \/ ParentCancels(r)
      PROVE  dialed'[p] \in {dialed[p], None} \/ (sock[c] = "closed" /\ sock'[c] = "open")
  BY <1>3 DEF LoopStep, LoopStops, LoopWakes, LoopChecks, Redials, Redial, FreshConn, RedialFails,
              InstallRedialed, LoopConfirms, DelayExpires, ParentCancels
<1>4. CASE CallClose \/ CloseStep \/ CloseFailsPending
  BY <1>4 DEF CallClose, CloseStep, CloseCancels, CloseAwaitsRead, CloseAwaitsLoop, CloseFailsPending
<1>5. UNCHANGED vars => dialed' = dialed
  BY DEF vars
<1> QED
  BY <1>1, <1>2, <1>3, <1>4, <1>5 DEF Next, ProgramStep, FailStep, Over

(* A connection that is cancelled remains so until it is installed anew.       *)
LEMMA RxDoneStays ==
  ASSUME TypeOK, [Next]_vars, NEW c \in Conns, rxDone[c], closed \/ \A p \in Dialers : dialed[p] # c
  PROVE  rxDone'[c]
<1> USE DEF TypeOK, Dialers, clientVars, connVars
<1>1. ASSUME NEW t \in Connectors, CallConnect(t) \/ ConnectStep(t)
                                     \/ \E r \in Sessions : CallConnectWithReconnect(t, r)
      PROVE  rxDone'[c]
  BY <1>1 DEF CallConnect, CallConnectWithReconnect, ConnectStep, CheckState, DialFails, Dial,
              InstallConn, InstallRefused, Install, Discard, DisableReconnect, CancelReconnect,
              ReconnectDisabled
<1>2. ASSUME NEW d \in Conns, ReadStep(d) \/ FailPending(d) \/ Receive(d) \/ AnswerEnds(d) \/ Lose(d) \/ Sever(d)
      PROVE  rxDone'[c]
  BY <1>2 DEF ReadStep, ReadNext, ReadNilContext, ReadFails, OnDisconnect, SendWake, FailPending,
              Receive, AnswerEnds, Lose, Sever
<1>3. ASSUME NEW r \in Sessions, LoopStep(r) \/ ParentCancels(r) PROVE rxDone'[c]
  BY <1>3 DEF LoopStep, LoopStops, LoopWakes, LoopChecks, Redials, Redial, RedialFails, InstallRedialed,
              Install, Discard, LoopConfirms, DelayExpires, ParentCancels
<1>4. CASE CallClose \/ CloseStep \/ CloseFailsPending
  BY <1>4 DEF CallClose, CloseStep, CloseCancels, CloseAwaitsRead, CloseAwaitsLoop, CloseFailsPending
<1> QED
  BY <1>1, <1>2, <1>3, <1>4 DEF Next, ProgramStep, FailStep, Over, vars

(* A connection that is written on and no longer open is not opened.          *)
LEMMA LostStays ==
  ASSUME TypeOK, CallsTypeOK, [ClientNext]_allVars, NEW c \in Conns, WrittenOn(c), sock[c] # "open"
  PROVE  sock'[c] # "open"
<1>1. ASSUME [Next]_vars, sock[c] = "lost" PROVE sock'[c] # "open"
  <2> USE DEF TypeOK, clientVars, connVars
  <2>1. ASSUME NEW t \in Connectors, CallConnect(t) \/ ConnectStep(t)
                                       \/ \E r \in Sessions : CallConnectWithReconnect(t, r)
        PROVE  sock'[c] # "open"
    BY <1>1, <2>1 DEF CallConnect, CallConnectWithReconnect, ConnectStep, CheckState, DialFails, Dial,
       FreshConn, InstallConn, Install, Discard, DisableReconnect, CancelReconnect, ReconnectDisabled
  <2>2. ASSUME NEW d \in Conns,
               ReadStep(d) \/ FailPending(d) \/ Receive(d) \/ AnswerEnds(d) \/ Lose(d) \/ Sever(d)
        PROVE  sock'[c] # "open"
    BY <1>1, <2>2 DEF ReadStep, ReadNext, ReadNilContext, ReadFails, OnDisconnect, SendWake, FailPending,
                Receive, AnswerEnds, Lose, Sever
  <2>3. ASSUME NEW r \in Sessions, LoopStep(r) \/ ParentCancels(r) PROVE sock'[c] # "open"
    BY <1>1, <2>3 DEF LoopStep, LoopStops, LoopWakes, LoopChecks, Redials, Redial, FreshConn, RedialFails,
       InstallRedialed, Install, Discard, LoopConfirms, DelayExpires, ParentCancels
  <2>4. CASE CallClose \/ CloseStep \/ CloseFailsPending
    BY <1>1, <2>4 DEF CallClose, CloseStep, CloseCancels, CloseAwaitsRead, CloseAwaitsLoop, CloseFailsPending
  <2> QED
    BY <1>1, <2>1, <2>2, <2>3, <2>4 DEF Next, ProgramStep, FailStep, Over, vars
<1> QED
  BY <1>1, StepRefines, SockKept DEF TypeOK

(* The context of an answer is that of a connection nobody is about to        *)
(* install; so when it is done it remains so.                                *)
AnswersInv ==
  \A x \in Answerers : Answering(x) /\ under[x] # None =>
    closed \/ \A p \in Dialers : dialed[p] # under[x]

LEMMA AnswersNext ==
  ASSUME LinkInv, CallsTypeOK, AnswersInv, [ClientNext]_allVars
  PROVE  AnswersInv'
<1>0. TypeOK /\ InvDial /\ RxInv /\ CloseInv /\ [Next]_vars
  BY StepRefines DEF LinkInv, WakeInv
<1>1. SUFFICES ASSUME NEW x \in Answerers, Answering(x)', under'[x] # None, ~closed',
                      NEW p \in Dialers
               PROVE  dialed'[p] # under'[x]
  BY DEF AnswersInv
<1>2. ~closed
  BY <1>0, <1>1, ClosedStays
<1>3. CASE Answering(x)
  <2>1. Carrier(x)' = Carrier(x) /\ under'[x] = under[x]
    BY <1>0, <1>1, <1>3, AnswerHolds
  <2>2. PICK c \in Conns : c = under[x]
    BY <1>1, <2>1 DEF CallsTypeOK
  <2>3. dialed[p] # c
    BY <1>1, <1>2, <1>3, <2>1, <2>2 DEF AnswersInv
  <2>4. ~(sock[c] = "closed" /\ sock'[c] = "open")
    BY <1>0, <1>3, <2>2, SockKept DEF WrittenOn
  <2> QED
    BY <1>0, <2>1, <2>2, <2>3, <2>4, DialOpens
<1>4. CASE ~Answering(x)
  <2>1. x \in Senders /\ x \notin Calls
    BY DEF Senders, Answerers
  <2>2. Begins(x)
    BY <1>0, <1>1, <1>4, <2>1, SendingKept DEF Sending
  <2>3. PICK c \in Conns : ReceiveOther(c) /\ Carrier(x)' = c
    BY <2>1, <2>2 DEF Begins
  <2>4. under'[x] = rxCtx /\ UNCHANGED dialed
    BY <1>1, <1>4, <2>1, <2>3 DEF ReceiveOther, Receive, Answering, answerVars, CallsTypeOK, TypeOK,
       Answerers, LinkInv
  <2>5. rxCtx = ws /\ ws # None => loop[ws] # "done"
    BY <1>0, <1>2 DEF RxInv
  <2> QED
    BY <1>0, <1>1, <1>2, <2>4, <2>5 DEF RxInv, InvDial, TypeOK
<1> QED
  BY <1>3, <1>4

CallsInv == CallsTypeOK /\ SendInv /\ LinkInv /\ AnswersInv

LEMMA CallsInvNext == CallsInv /\ [ClientNext]_allVars => CallsInv' /\ SendKept
<1> SUFFICES ASSUME CallsInv, [ClientNext]_allVars PROVE CallsInv' /\ SendKept
  OBVIOUS
<1>1. TypeOK /\ InvDial
  BY DEF CallsInv, LinkInv, WakeInv
<1> QED
  BY <1>1, CallsTypeNext, SendNext, LinkNext, AnswersNext DEF CallsInv, SendKept

(* A call or an answerer writes exactly while it holds sendMu (client.go:645   *)
(* to 650).                                                                  *)
THEOREM SendCorrect == ClientSpec => []CallsInv
<1>1. ClientInit => SendInv /\ AnswersInv /\ CallsTypeOK
  BY CallsTypeInit, NoneAssumption DEF ClientInit, CallsInit, Init, SendInv, AnswersInv, Answering, Answerers
<1>2. CallsInv => LinkInv
  BY DEF CallsInv
<1>3. ClientSpec => LinkInv
  BY LinkCorrect, PTL
<1>4. ClientSpec => CallsInv
  BY <1>1, <1>3 DEF CallsInv, ClientSpec
<1> QED
  BY <1>4, CallsInvNext, PTL DEF ClientSpec

-----------------------------------------------------------------------------
(* sendMu is let go by every holder that is told to end: by a call whose       *)
(* context is done, and by whoever writes on a connection that is gone, or     *)
(* whose receive context is done.                                            *)
CallsGo == [][ClientNext]_allVars /\ []CallsInv /\ []TurnsCome
Calm == CallsGo /\ []~Panicked
CallsRun == Calm /\ []<>~WriteStuck
Frees == <>(sendMu = None)
Ending(x) == sendMu = x /\ Told(x)

LEMMA EndingStays ==
  ASSUME CallsInv, [ClientNext]_allVars, NEW x \in Senders, Ending(x)
  PROVE  Ending(x)' \/ (sendMu = None)'
<1>0. /\ TypeOK /\ InvDial /\ CallsTypeOK /\ SendInv /\ AnswersInv /\ [Next]_vars
      /\ x # None /\ CallsInv'
  BY StepRefines, CallsInvNext, NoneAssumption DEF CallsInv, LinkInv, WakeInv, Senders, Answerers
<1>1. SUFFICES ASSUME sendMu' = x PROVE Told(x)'
  BY <1>0, MutexMoves DEF Ending, Takes
<1>2. CASE x \in Calls
  <2>1. call[x] = "write" /\ call'[x] = "write"
    BY <1>0, <1>1, <1>2 DEF SendInv, CallsInv, Ending
  <2>2. on'[x] = on[x] /\ on[x] \in Conns
    <3>1. Sending(x)' /\ ~CurrentConn(x) /\ x \notin Answerers
      BY <1>2, <2>1 DEF Sending, Active, CurrentConn, Answerers
    <3>2. ReceiveOther(on'[x]) => on' = on
      BY DEF ReceiveOther
    <3> QED
      BY <1>0, <1>2, <2>1, <3>1, <3>2, SendingKept DEF Begins, Carrier, CallsTypeOK
  <2>3. expired[x] => expired'[x]
    BY <1>0, <1>2, <2>1, MutexMoves DEF Onward
  <2>4. sock[on[x]] # "open" => sock'[on[x]] # "open"
    BY <1>0, <1>2, <2>1, <2>2, LostStays DEF WrittenOn, Active
  <2> QED
    BY <1>2, <2>2, <2>3, <2>4 DEF Ending, Told, Cut, Carrier
<1>3. CASE x \in Answerers
  <2>1. x \notin Calls /\ Answering(x) /\ Answering(x)'
    BY <1>0, <1>1, <1>3, HolderAnswers DEF Answerers, Ending
  <2>2. Carrier(x)' = Carrier(x) /\ under'[x] = under[x]
    BY <1>0, <1>3, <2>1, AnswerHolds
  <2>3. PICK c \in Conns : c = Carrier(x)
    BY <1>0, <1>3, <2>1 DEF Answering, Carrier, Answerers, CallsTypeOK
  <2>4. sock[c] # "open" => sock'[c] # "open"
    BY <1>0, <1>3, <2>1, <2>3, LostStays DEF WrittenOn
  <2>5. ASSUME under[x] # None, rxDone[under[x]] PROVE rxDone'[under[x]]
    <3>1. PICK d \in Conns : d = under[x]
      BY <1>0, <1>3, <2>5 DEF CallsTypeOK
    <3>2. closed \/ \A p \in Dialers : dialed[p] # d
      BY <1>0, <1>3, <2>1, <2>5, <3>1 DEF AnswersInv
    <3> QED
      BY <1>0, <2>5, <3>1, <3>2, RxDoneStays
  <2> QED
    BY <2>1, <2>2, <2>3, <2>4, <2>5 DEF Ending, Told, Cut
<1> QED
  BY <1>2, <1>3 DEF Senders

(* What the holder does next, in each of its shapes.                         *)
LEMMA EndingEnds ==
  /\ \A k \in Calls : CallsInv /\ Ending(k) =>
       CallReady(k) /\ (<<~Panicked /\ Goes(k)>>_allVars => (sendMu = None)')
  /\ \A c \in Conns : CallsInv /\ Ending(c) =>
       ReaderReady(c) /\ (<<~Panicked /\ Reads(c)>>_allVars => (sendMu = None)')
  /\ \A h \in Handlers : CallsInv /\ Ending(h) =>
       (<<~Panicked /\ AnswerFails(h)>>_allVars => (sendMu = None)')
<1>1. ASSUME NEW k \in Calls, CallsInv, Ending(k)
      PROVE  CallReady(k) /\ (<<~Panicked /\ Goes(k)>>_allVars => (sendMu = None)')
  <2>1. call[k] = "write"
    BY <1>1 DEF CallsInv, SendInv, Ending
  <2>2. Goes(k) => sendMu' = None
    BY <1>1, <2>1, StepSends DEF CallsInv, Goes
  <2> QED
    BY <1>1, <2>1, <2>2 DEF CallReady, Ending
<1>2. ASSUME NEW c \in Conns, CallsInv, Ending(c)
      PROVE  ReaderReady(c) /\ (<<~Panicked /\ Reads(c)>>_allVars => (sendMu = None)')
  <2>1. loop[c] = "answer"
    BY <1>2 DEF CallsInv, SendInv, Ending, Answering, Answerers
  <2>2. Reads(c) => AnswerFails(c)
    BY <2>1 DEF Reads, ReadStep, ReadNext, ReadNilContext, ReadFails, OnDisconnect, SendWake, ReaderSwaps,
                ReaderFails, FailPending, ReceiveResponse, Receive
  <2> QED
    BY <1>2, <2>2 DEF ReaderReady, Ending, AnswerFails, AnswerReturns
<1> QED
  BY <1>1, <1>2 DEF AnswerFails, AnswerReturns

LEMMA HolderFrees == ASSUME NEW x \in Senders PROVE Calm /\ Ending(x) => Frees
<1>1. CallsInv /\ Ending(x) /\ [ClientNext]_allVars => Ending(x)' \/ (sendMu = None)'
  BY EndingStays
<1>2. ASSUME x \in Calls PROVE Calm /\ Ending(x) => Frees
  <2>1. CallsInv /\ Ending(x) => CallReady(x)
    BY <1>2, EndingEnds
  <2>2. CallsInv /\ Ending(x) /\ <<~Panicked /\ Goes(x)>>_allVars => (sendMu = None)'
    BY <1>2, EndingEnds
  <2>3. TurnsCome => CallTurn(x)
    BY <1>2 DEF TurnsCome
  <2> QED
    BY <1>1, <2>1, <2>2, <2>3, PTL DEF Calm, CallsGo, CallTurn, Frees
<1>3. ASSUME x \in Conns PROVE Calm /\ Ending(x) => Frees
  <2>1. CallsInv /\ Ending(x) => ReaderReady(x)
    BY <1>3, EndingEnds
  <2>2. CallsInv /\ Ending(x) /\ <<~Panicked /\ Reads(x)>>_allVars => (sendMu = None)'
    BY <1>3, EndingEnds
  <2>3. TurnsCome => ReaderTurn(x)
    BY <1>3 DEF TurnsCome
  <2> QED
    BY <1>1, <2>1, <2>2, <2>3, PTL DEF Calm, CallsGo, ReaderTurn, Frees
<1>4. ASSUME x \in Handlers PROVE Calm /\ Ending(x) => Frees
  <2>1. CallsInv /\ Ending(x) => sendMu = x /\ Told(x)
    BY DEF Ending
  <2>2. CallsInv /\ Ending(x) /\ <<~Panicked /\ AnswerFails(x)>>_allVars => (sendMu = None)'
    BY <1>4, EndingEnds
  <2>3. TurnsCome => HandlerTurn(x)
    BY <1>4 DEF TurnsCome
  <2> QED
    BY <1>1, <2>1, <2>2, <2>3, PTL DEF Calm, CallsGo, HandlerTurn, Frees
<1> QED
  BY <1>2, <1>3, <1>4 DEF Senders, Answerers

LEMMA SendFrees == CallsRun => []Frees
<1>1. Calm => CallsInv
  BY PTL DEF Calm, CallsGo
<1>2. sendMu = None => Frees
  BY PTL DEF Frees
<1>3. CallsInv => sendMu \in Senders \cup {None}
  BY DEF CallsInv, CallsTypeOK
<1>4. Calm /\ ~WriteStuck => Frees
  BY <1>1, <1>2, <1>3, HolderFrees DEF WriteStuck, Ending
<1> QED
  BY <1>4, PTL DEF CallsRun, Calm, CallsGo, Frees

-----------------------------------------------------------------------------
(* Where a call that is told to end goes: to sendMu, through the Write, out of *)
(* the select and of the map.                                                *)
Ended(k) == expired[k] \/ CloseIsPast
At(k, where) == Ended(k) /\ call[k] = where

LEMMA PastStays ==
  CallsInv /\ CloseIsPast /\ [ClientNext]_allVars => CloseIsPast'
BY StepRefines, CloserAlone DEF CallsInv, LinkInv, CloseIsPast, closeVars, CloseStep, CloseCancels,
   CloseAwaitsRead, CloseAwaitsLoop, CloseFailsPending

(* Once Close has cancelled what it captured, all that is written on is gone.  *)
LEMMA PastIsGone ==
  ASSUME CallsInv, CloseIsPast, NEW x \in Senders, Sending(x)
  PROVE  rxDone[Carrier(x)] /\ sock[Carrier(x)] = "closed"
<1>1. PICK c \in Conns : c = Carrier(x)
  BY DEF CallsInv, CallsTypeOK, Senders, Answerers, Sending, Active, Answering, Carrier
<1>2. IndInv /\ Captured(c) /\ closed /\ closer # "stop" /\ TypeOK
  BY <1>1 DEF CallsInv, LinkInv, OneWay, CloseIsPast, CloseInv, CallInv
<1>3. rxDone[c] /\ \A p \in Dialers : dialed[p] # c
  BY <1>2 DEF Captured, Standing
<1>4. sock[c] # "closed" => loop[c] \in Reading /\ c = closeWs
  BY <1>2, <1>3 DEF IndInv, InvRead, Receiving, Current
<1>5. c = closeWs => loop[c] = "done" \/ sock[c] = "closed"
  BY <1>2, NoneAssumption DEF CallsInv, LinkInv, CloseInv, CloseIsPast
<1> QED
  BY <1>1, <1>3, <1>4, <1>5 DEF Reading

LEMMA PastIsNotStuck == CallsInv /\ CloseIsPast => ~WriteStuck
<1> SUFFICES ASSUME CallsInv, CloseIsPast, sendMu # None PROVE Told(sendMu)
  BY DEF WriteStuck
<1>1. sendMu \in Senders /\ Sending(sendMu)
  BY DEF CallsInv, CallsTypeOK, SendInv, Sending, Active, Senders
<1> QED
  BY <1>1, PastIsGone DEF Told

LEMMA EndedReady ==
  ASSUME CallsInv, NEW k \in Calls, Ended(k)
  PROVE  call[k] \in {"write", "wait"} => CallReady(k)
<1>1. CASE expired[k]
  BY <1>1 DEF CallReady, Told, Cut
<1>2. CASE CloseIsPast
  BY <1>2, PastIsGone DEF CallReady, Told, Sending, Active, Carrier, Senders
<1> QED
  BY <1>1, <1>2 DEF Ended

LEMMA EndedGoesOn ==
  ASSUME NEW k \in Calls
  PROVE  /\ CallsRun /\ At(k, "register") => <>(At(k, "lock") \/ At(k, "leave"))
         /\ CallsRun /\ At(k, "lock") => <>At(k, "write")
         /\ CallsRun /\ At(k, "write") => <>(At(k, "wait") \/ At(k, "leave"))
         /\ CallsRun /\ At(k, "wait") => <>At(k, "leave")
         /\ CallsRun /\ At(k, "leave") => <>(call[k] = "done")
<1> USE DEF At
<1>1. TurnsCome => CallTurn(k)
  BY DEF TurnsCome
<1>2. CallsInv /\ [ClientNext]_allVars => Onward(k) /\ (Ended(k) => Ended(k)' \/ call'[k] = "done")
  BY CallsInvNext, PastStays DEF SendKept, Onward, Ended
<1>3. CallsInv /\ <<~Panicked /\ Goes(k)>>_allVars =>
        /\ Ended(k) => Ended(k)' \/ call'[k] = "done"
        /\ call[k] = "register" => call'[k] \in {"lock", "leave"}
        /\ call[k] = "write" => call'[k] = "leave"
        /\ call[k] = "wait" => call'[k] = "leave"
        /\ call[k] = "leave" => call'[k] = "done"
  <2>1. ~Panicked /\ Goes(k) => ClientNext
    BY DEF ClientNext, Goes
  <2> QED
    BY <1>2, <2>1, StepSends DEF CallsInv, Goes
<1>4. CallsRun /\ At(k, "register") => <>(At(k, "lock") \/ At(k, "leave"))
  <2>1. CallsInv /\ At(k, "register") /\ [ClientNext]_allVars =>
          At(k, "register")' \/ At(k, "lock")' \/ At(k, "leave")'
    BY <1>2 DEF Onward
  <2>2. CallsInv /\ At(k, "register") /\ <<~Panicked /\ Goes(k)>>_allVars =>
          At(k, "lock")' \/ At(k, "leave")'
    BY <1>3
  <2>3. At(k, "register") => CallReady(k)
    BY DEF CallReady
  <2> QED
    BY <1>1, <2>1, <2>2, <2>3, PTL DEF CallsRun, Calm, CallsGo, CallTurn
<1>5. CallsRun /\ At(k, "lock") => <>At(k, "write")
  <2>1. CallsInv /\ At(k, "lock") /\ [ClientNext]_allVars => At(k, "lock")' \/ At(k, "write")'
    BY <1>2 DEF Onward
  <2>2. CallsInv /\ At(k, "lock") /\ <<~Panicked /\ LockSend(k)>>_allVars => At(k, "write")'
    <3>1. ~Panicked /\ LockSend(k) => ClientNext
      BY DEF ClientNext, InvokeStep
    <3>2. CallsInv /\ LockSend(k) => call'[k] = "write"
      BY DEF LockSend, CallsInv, CallsTypeOK
    <3> QED
      BY <1>2, <3>1, <3>2
  <2>3. At(k, "lock") => call[k] = "lock"
    OBVIOUS
  <2> HIDE DEF At
  <2> QED
    BY <1>1, <2>1, <2>2, <2>3, SendFrees, PTL DEF CallsRun, Calm, CallsGo, CallTurn, Frees
<1>6. CallsRun /\ At(k, "write") => <>(At(k, "wait") \/ At(k, "leave"))
  <2>1. CallsInv /\ At(k, "write") /\ [ClientNext]_allVars =>
          At(k, "write")' \/ At(k, "wait")' \/ At(k, "leave")'
    BY <1>2 DEF Onward
  <2>2. CallsInv /\ At(k, "write") /\ <<~Panicked /\ Goes(k)>>_allVars => At(k, "leave")'
    BY <1>3
  <2>3. CallsInv /\ At(k, "write") => CallReady(k)
    BY EndedReady
  <2> QED
    BY <1>1, <2>1, <2>2, <2>3, PTL DEF CallsRun, Calm, CallsGo, CallTurn
<1>7. CallsRun /\ At(k, "wait") => <>At(k, "leave")
  <2>1. CallsInv /\ At(k, "wait") /\ [ClientNext]_allVars => At(k, "wait")' \/ At(k, "leave")'
    BY <1>2 DEF Onward
  <2>2. CallsInv /\ At(k, "wait") /\ <<~Panicked /\ Goes(k)>>_allVars => At(k, "leave")'
    BY <1>3
  <2>3. CallsInv /\ At(k, "wait") => CallReady(k)
    BY EndedReady
  <2> QED
    BY <1>1, <2>1, <2>2, <2>3, PTL DEF CallsRun, Calm, CallsGo, CallTurn
<1>8. CallsRun /\ At(k, "leave") => <>(call[k] = "done")
  <2>1. CallsInv /\ At(k, "leave") /\ [ClientNext]_allVars => At(k, "leave")' \/ (call[k] = "done")'
    BY <1>2 DEF Onward
  <2>2. CallsInv /\ At(k, "leave") /\ <<~Panicked /\ Goes(k)>>_allVars => (call[k] = "done")'
    BY <1>3
  <2>3. At(k, "leave") => CallReady(k)
    BY DEF CallReady
  <2> QED
    BY <1>1, <2>1, <2>2, <2>3, PTL DEF CallsRun, Calm, CallsGo, CallTurn
<1> QED
  BY <1>4, <1>5, <1>6, <1>7, <1>8

LEMMA EndedCallsEnd ==
  ASSUME NEW k \in Calls
  PROVE  CallsRun /\ Ended(k) /\ Active(k) => <>(call[k] = "done")
<1>1. CallsInv /\ Ended(k) /\ Active(k) =>
        At(k, "register") \/ At(k, "lock") \/ At(k, "write") \/ At(k, "wait") \/ At(k, "leave")
  BY DEF CallsInv, CallsTypeOK, At, Active
<1>2. CallsRun /\ At(k, "register") => <>(At(k, "lock") \/ At(k, "leave"))
  BY EndedGoesOn
<1>3. CallsRun /\ At(k, "lock") => <>At(k, "write")
  BY EndedGoesOn
<1>4. CallsRun /\ At(k, "write") => <>(At(k, "wait") \/ At(k, "leave"))
  BY EndedGoesOn
<1>5. CallsRun /\ At(k, "wait") => <>At(k, "leave")
  BY EndedGoesOn
<1>6. CallsRun /\ At(k, "leave") => <>(call[k] = "done")
  BY EndedGoesOn
<1> QED
  BY <1>1, <1>2, <1>3, <1>4, <1>5, <1>6, PTL DEF CallsRun, Calm, CallsGo

LEMMA CallsGoOn == ClientSpec /\ []TurnsCome => CallsGo
BY SendCorrect, PTL DEF CallsGo, ClientSpec

(* The end of its context ends a call wherever it is (client.go:288 for the    *)
(* wait, 645 to 648 for the Write), unless sendMu is never to be had any more. *)
THEOREM DeadlinesEndCorrect == ClientSpec /\ []TurnsCome => DeadlinesEndCalls
<1>1. ASSUME NEW k \in Calls
      PROVE  CallsGo /\ []<>~WriteStuck => (expired[k] ~> call[k] = "done" \/ Panicked)
  <2>1. CallsInv /\ expired[k] => Ended(k) /\ Active(k)
    BY DEF CallsInv, SendInv, Ended
  <2>2. CallsRun /\ Ended(k) /\ Active(k) => <>(call[k] = "done")
    BY EndedCallsEnd
  <2> QED
    BY <2>1, <2>2, PTL DEF CallsRun, Calm, CallsGo
<1> QED
  BY <1>1, CallsGoOn DEF DeadlinesEndCalls

(* Close ends every call, without any deadline: the one that waits for sendMu, *)
(* the one that holds it for a peer that does not read, the one whose response *)
(* never comes (client.go:207 to 219, 290).                                  *)
CloseEndsCalls == \A k \in Calls : closed /\ Active(k) ~> call[k] = "done" \/ Panicked

LEMMA CloseMoves ==
  /\ CallsInv /\ closer = "stop" /\ [ClientNext]_allVars => (closer = "stop")' \/ (closer = "awaitRead")'
  /\ CallsInv /\ closer = "stop" /\ <<~Panicked /\ CloserGoes>>_allVars => (closer = "awaitRead")'
<1>1. CallsInv /\ closer = "stop" /\ [ClientNext]_allVars => (closer = "stop")' \/ (closer = "awaitRead")'
  BY StepRefines, CloserAlone DEF CallsInv, LinkInv, closeVars, CloseStep, CloseCancels, CloseAwaitsRead,
     CloseAwaitsLoop, CloseFailsPending
<1>2. closer = "stop" /\ <<~Panicked /\ CloserGoes>>_allVars => (closer = "awaitRead")'
  BY DEF CloserGoes, CloseStep, CloseCancels, CloseAwaitsRead, CloseAwaitsLoop, CloseFailsPending,
         CloserSwaps, CloserFails
<1> QED
  BY <1>1, <1>2

(* Close comes to be past the cancelling, and from then on no Write is stuck.  *)
LEMMA ClosePasses == ASSUME OneWayIn PROVE Calm /\ closed => <>(CloseIsPast /\ CallsRun)
<1>1. CallsInv /\ closed => closer = "stop" \/ CloseIsPast
  BY DEF CallsInv, LinkInv, CloseInv, CloseIsPast
<1>2. closer = "awaitRead" => CloseIsPast
  BY DEF CloseIsPast
<1>3. closer = "stop" => CloseReady
  BY DEF CloseReady
<1>4. TurnsCome => CloserTurn
  BY DEF TurnsCome
<1>5. CallsInv /\ closer = "stop" /\ [ClientNext]_allVars => (closer = "stop")' \/ (closer = "awaitRead")'
  BY CloseMoves
<1>6. CallsInv /\ closer = "stop" /\ <<~Panicked /\ CloserGoes>>_allVars => (closer = "awaitRead")'
  BY CloseMoves
<1>7. CallsInv /\ CloseIsPast => ~WriteStuck
  BY PastIsNotStuck
<1>8. CallsInv /\ CloseIsPast /\ [ClientNext]_allVars => CloseIsPast'
  BY PastStays
<1>9. Calm /\ CloseIsPast => CallsRun
  BY <1>7, <1>8, PTL DEF CallsRun, Calm, CallsGo
<1>10. Calm /\ closed => <>CloseIsPast
  BY <1>1, <1>2, <1>3, <1>4, <1>5, <1>6, PTL DEF Calm, CallsGo, CloserTurn
<1> QED
  BY <1>9, <1>10, PTL DEF Calm, CallsGo

LEMMA ClosedCallsEnd ==
  ASSUME OneWayIn, NEW k \in Calls
  PROVE  CallsGo => (closed /\ Active(k) ~> call[k] = "done" \/ Panicked)
<1>1. CallsInv /\ [ClientNext]_allVars => (Active(k) => Active(k)' \/ (call[k] = "done")')
  BY CallsInvNext, Zenon DEF CallsInv, SendKept, Onward, Active, CallsTypeOK
<1>2. CloseIsPast => Ended(k)
  BY DEF Ended
<1>3. CallsRun /\ Ended(k) /\ Active(k) => <>(call[k] = "done")
  BY EndedCallsEnd
<1>4. Calm /\ closed => <>(CloseIsPast /\ CallsRun)
  BY ClosePasses
<1> QED
  BY <1>1, <1>2, <1>3, <1>4, PTL DEF CallsRun, Calm, CallsGo

(* CloseEndsCalls, from CloseCancels: no call outlives Close (client.go:187 to  *)
(* 219), whatever it does and whatever the peer does.                        *)
THEOREM CloseEndsCallsCorrect ==
  ASSUME OneWayIn PROVE ClientSpec /\ []TurnsCome => CloseEndsCalls
BY ClosedCallsEnd, CallsGoOn DEF CloseEndsCalls

-----------------------------------------------------------------------------
(* A call that waits on a connection that is gone returns, whether another      *)
(* call has closed it (client.go:648) or the peer is lost, as soon as what was *)
(* in flight has been read: the read loop finds out and cancels what the call *)
(* waits for (client.go:290, 354), or Close does.  That the responses in       *)
(* flight are all read takes an induction over them, and is left to the run.   *)
Gone(c) == sock[c] # "open" /\ inbox[c] = <<>>
LossEndsWaits ==
  \A k \in Calls :
    call[k] = "wait" /\ (sock[on[k]] = "closed" \/ Gone(on[k]))
    ~> call[k] = "done" \/ Panicked

Emptied == \A c \in Conns : sock[c] = "closed" => inbox[c] = <<>>

LEMMA InboxKept ==
  ASSUME TypeOK, CallsTypeOK, [ClientNext]_allVars
  PROVE  /\ Emptied => Emptied'
         /\ \A c \in Conns : Gone(c) => inbox'[c] = <<>>
<1> USE DEF Emptied, Gone, CallsTypeOK
<1>1. CASE InFlightIsLost
  BY <1>1 DEF InFlightIsLost
<1>2. CASE UNCHANGED <<sock, inbox>>
  BY <1>2
<1>3. ASSUME NEW d \in Conns, ReceiveResponse(d)
      PROVE  (Emptied => Emptied') /\ \A c \in Conns : Gone(c) => inbox'[c] = <<>>
  <2>1. UNCHANGED sock /\ inbox' = [inbox EXCEPT ![d] = Tail(@)] /\ inbox[d] # <<>>
    BY <1>3 DEF ReceiveResponse, Receive
  <2> QED
    BY <2>1
<1>4. ASSUME NEW d \in Conns \cup {None}, NEW m, sock[d] = "open", UNCHANGED sock,
             inbox' = [inbox EXCEPT ![d] = Append(@, m)]
      PROVE  (Emptied => Emptied') /\ \A c \in Conns : Gone(c) => inbox'[c] = <<>>
  <2> DEFINE longer == Append(inbox[d], m)
  <2>1. inbox' = [inbox EXCEPT ![d] = longer]
    BY <1>4
  <2> HIDE DEF longer
  <2>2. \A c \in Conns \ {d} : inbox'[c] = inbox[c]
    BY <2>1
  <2> QED
    BY <1>4, <2>2
<1>5. ASSUME NEW k \in Calls, NEW r \in Replies, Answer(k, r)
      PROVE  (Emptied => Emptied') /\ \A c \in Conns : Gone(c) => inbox'[c] = <<>>
  <2>1. UNCHANGED sock /\ on[k] \in Conns \cup {None} /\ sock[on[k]] = "open"
        /\ inbox' = [inbox EXCEPT ![on[k]] = Append(@, <<k, r>>)]
    BY <1>5 DEF Answer, vars, connVars
  <2> QED
    BY <1>4, <2>1
<1>6. ASSUME NEW c \in Conns, NEW id \in StaleIds, NEW r \in Replies, AnswerUnasked(c, id, r)
      PROVE  (Emptied => Emptied') /\ \A d \in Conns : Gone(d) => inbox'[d] = <<>>
  <2>1. UNCHANGED sock /\ sock[c] = "open" /\ inbox' = [inbox EXCEPT ![c] = Append(@, <<id, r>>)]
    BY <1>6 DEF AnswerUnasked, vars, connVars
  <2> QED
    BY <1>4, <2>1
<1>7. ASSUME NEW k \in Calls, InvokeStep(k) PROVE InFlightIsLost \/ UNCHANGED <<sock, inbox>>
  BY <1>7 DEF InvokeStep, Refuse, CurrentConn, Register, LockSend, Write, WriteFails, WriteExpires,
              Returns, TakeResponse, ContextEnds, ConnectionEnds, Unregister, vars, connVars
<1>8. ASSUME NEW x \in Answerers, AnswerStep(x) PROVE InFlightIsLost \/ UNCHANGED <<sock, inbox>>
  BY <1>8 DEF AnswerStep, AnswerLocks, AnswerSent, AnswerFails, AnswerReturns, AnswerEnds, AnswerSevers,
              vars, connVars
<1>9. CASE \/ UNCHANGED allVars \/ (Over /\ UNCHANGED callVars) \/ \E k \in Calls : Expire(k)
           \/ (\E h \in Handlers : HandlerReturns(h)) \/ \E c \in Conns : ReceiveOther(c)
           \/ CloserSwaps \/ CloserFails \/ \E c \in Conns : ReaderSwaps(c) \/ ReaderFails(c)
  BY <1>2, <1>9 DEF allVars, callVars, vars, connVars, Over, Expire, HandlerReturns, ReceiveOther, Receive,
     CloserSwaps, CloserFails, ReaderSwaps, ReaderFails, SwapPending, FailSwapped, FailPending,
     CloseFailsPending
<1> HIDE DEF Emptied, Gone, CallsTypeOK
<1> QED
  BY <1>1, <1>2, <1>3, <1>5, <1>6, <1>7, <1>8, <1>9 DEF ClientNext, LoseConn, Bystanders

LEMMA EmptiedCorrect == ClientSpec => []Emptied
<1>1. ClientInit => Emptied
  BY DEF ClientInit, CallsInit, Emptied
<1>2. TypeOK /\ CallsTypeOK /\ Emptied /\ [ClientNext]_allVars => Emptied'
  BY InboxKept
<1>3. LinkInv => TypeOK
  BY DEF LinkInv
<1> QED
  BY <1>1, <1>2, <1>3, CallsTypeCorrect, LinkCorrect, PTL DEF ClientSpec

(* The read loop of the connection in use, once that is gone and nothing more  *)
(* comes from it, goes straight to onDisconnect, past the end of an answer,    *)
(* and nobody else moves it.                                                 *)
Finds(c) == \/ rxDone'[c]
            \/ loop[c] = "read" /\ loop'[c] = "blocked"
            \/ loop[c] = "blocked" /\ loop'[c] = "disconnect"

SilentStep(c) == \/ UNCHANGED vars \/ ProgramStep \/ FailStep
                 \/ \E d \in Conns : Lose(d) \/ Sever(d) \/ (d # c /\ (Receive(d) \/ AnswerEnds(d)))

LEMMA GoneIsSilent ==
  ASSUME CallsTypeOK, [ClientNext]_allVars, NEW c \in Conns, Gone(c)
  PROVE  SilentStep(c) \/ (AnswerReturns(c) /\ AnswerEnds(c))
BY ClientSteps DEF Gone, SilentStep, ReceiveResponse, ReceiveOther, LoseConn

LEMMA ReaderFinds ==
  ASSUME TypeOK, IndInv, NEW c \in Conns, c = ws, ~closed, sock[c] # "open"
  PROVE  /\ ReadStep(c) => Finds(c)
         /\ SilentStep(c) => loop'[c] = loop[c] \/ Finds(c)
         /\ ~FailPending(c) /\ loop[c] # "fail"
<1> USE DEF TypeOK, Dialers, clientVars, connVars
<1>0. /\ loop[c] \in Reading \cup {"disconnect"} /\ rxCtx = c /\ c # None /\ closer = "idle"
      /\ \A t \in Connectors : user[t] # "install"
  BY NoneAssumption DEF IndInv, InvRead, InvClose, InvUser, Receiving
<1>1. ReadStep(c) => Finds(c)
  BY <1>0 DEF Reading, ReadStep, ReadNext, ReadNilContext, ReadFails, OnDisconnect, SendWake, Finds
<1>2. ~FailPending(c) /\ loop[c] # "fail"
  BY <1>0 DEF Reading, FailPending
<1>3. ASSUME NEW t \in Connectors, CallConnect(t) \/ ConnectStep(t)
                                     \/ \E r \in Sessions : CallConnectWithReconnect(t, r)
      PROVE  UNCHANGED loop
  BY <1>0, <1>3 DEF CallConnect, CallConnectWithReconnect, ConnectStep, CheckState, DialFails, Dial,
              InstallConn, DisableReconnect, CancelReconnect, ReconnectDisabled
<1>4. ASSUME NEW d \in Conns \ {c},
             ReadStep(d) \/ FailPending(d) \/ Receive(d) \/ AnswerEnds(d) \/ Lose(d) \/ Sever(d)
      PROVE  loop'[c] = loop[c]
  BY <1>4 DEF ReadStep, ReadNext, ReadNilContext, ReadFails, OnDisconnect, SendWake, FailPending,
              Receive, AnswerEnds, Lose, Sever
<1>5. Lose(c) \/ Sever(c) => UNCHANGED loop
  BY DEF Lose, Sever
<1>6. ASSUME NEW r \in Sessions, LoopStep(r) \/ ParentCancels(r) PROVE UNCHANGED loop
  BY <1>0, <1>6 DEF LoopStep, LoopStops, LoopWakes, LoopChecks, Redials, Redial, RedialFails, InstallRedialed,
              RedialRefused, Discard, LoopConfirms, DelayExpires, ParentCancels
<1>7. CallClose \/ CloseStep \/ CloseFailsPending => UNCHANGED loop
  BY DEF CallClose, CloseStep, CloseCancels, CloseAwaitsRead, CloseAwaitsLoop, CloseFailsPending
<1> QED
  BY <1>1, <1>2, <1>3, <1>4, <1>5, <1>6, <1>7 DEF SilentStep, ProgramStep, FailStep, vars, connVars

(* A call that waits on a connection which is gone, and whose read loop is     *)
(* where it says; or which has been cancelled.                               *)
Deserted(k, c) == call[k] = "wait" /\ on[k] = c /\ Gone(c)
Finding(k, c, where) == Deserted(k, c) /\ ~rxDone[c] /\ ~closed /\ loop[c] = where
Found(k, c) == Deserted(k, c) /\ rxDone[c]

LEMMA OnKept ==
  ASSUME CallsInv, [ClientNext]_allVars, NEW k \in Calls, Active(k), Active(k)'
  PROVE  on'[k] = on[k]
<1>1. k \in Senders /\ k \notin Answerers /\ Sending(k)' /\ ~CurrentConn(k) /\ TypeOK /\ InvDial /\ CallsTypeOK
  BY DEF Senders, Answerers, Sending, Active, CurrentConn, CallsInv, LinkInv, WakeInv
<1>2. \A c \in Conns : ReceiveOther(c) => on' = on
  BY DEF ReceiveOther
<1> QED
  BY <1>1, <1>2, SendingKept DEF Begins, Carrier

LEMMA DesertedStep ==
  ASSUME OneWayIn, CallsInv, NEW k \in Calls, NEW c \in Conns, Deserted(k, c)
  PROVE  /\ [ClientNext]_allVars => Deserted(k, c)' \/ (call[k] = "leave")'
         /\ [ClientNext]_allVars /\ rxDone[c] => rxDone'[c]
         /\ ~rxDone[c] /\ ~closed => c = ws /\ loop[c] \in Reading \cup {"disconnect"}
         /\ ~rxDone[c] /\ ~closed => ~WriteStuck
         /\ closed => closer = "stop" \/ rxDone[c]
<1>1. /\ TypeOK /\ IndInv /\ CallInv /\ CallsTypeOK /\ SendInv /\ Active(k) /\ CloseInv
      /\ Captured(c)
  BY DEF CallsInv, LinkInv, OneWay, Deserted, Active, CallInv, Sending, Senders, Carrier
<1>2. ASSUME [ClientNext]_allVars PROVE Deserted(k, c)' \/ (call[k] = "leave")'
  <2>1. Gone(c)'
    BY <1>1, <1>2, LostStays, InboxKept DEF Deserted, Gone, WrittenOn
  <2>2. call'[k] \in {"wait", "leave"}
    BY <1>1, <1>2, MutexMoves DEF Onward, Deserted
  <2>3. on'[k] = on[k]
    BY <1>1, <1>2, <2>2, OnKept DEF Active
  <2> QED
    BY <2>1, <2>2, <2>3 DEF Deserted
<1>3. [ClientNext]_allVars /\ rxDone[c] => rxDone'[c]
  BY <1>1, StepRefines, RxDoneStays DEF Captured
<1>4. ~rxDone[c] /\ ~closed => c = ws /\ loop[c] \in Reading \cup {"disconnect"}
  BY <1>1, NoneAssumption DEF Captured, Standing, IndInv, InvRead, Receiving
<1>5. closed => closer = "stop" \/ rxDone[c]
  BY <1>1 DEF Captured, Standing
<1>6. ASSUME ~rxDone[c], ~closed, WriteStuck PROVE FALSE
  <2>1. /\ sendMu \in Senders /\ Sending(sendMu) /\ Captured(Carrier(sendMu))
        /\ Carrier(sendMu) \in Conns /\ sock[Carrier(sendMu)] = "open"
    BY <1>1, <1>6 DEF CallsTypeOK, SendInv, Sending, Active, Answering, Senders, Answerers, CallInv,
                      WriteStuck, Told, Carrier
  <2>2. Carrier(sendMu) = ws
    BY <1>1, <1>6, <2>1 DEF IndInv, InvRead, Receiving, Current, Captured
  <2> QED
    BY <1>4, <1>6, <2>1, <2>2 DEF Deserted, Gone
<1> QED
  BY <1>2, <1>3, <1>4, <1>5, <1>6

(* A read loop lets sendMu go with the end of its answer.                     *)
LEMMA AnswerIsOver ==
  ASSUME NEW c \in Conns, CallsInv, sendMu = c, [ClientNext]_allVars
  PROVE  sendMu' = c \/ loop'[c] # "answer"
<1> SUFFICES ASSUME sendMu' # c PROVE loop'[c] # "answer"
  OBVIOUS
<1>1. c \notin Calls /\ c \notin Handlers /\ c # None /\ TypeOK /\ CallsTypeOK
  BY NoneAssumption DEF CallsInv, LinkInv
<1>2. ASSUME NEW x \in Answerers, AnswerStep(x) PROVE AnswerReturns(x) /\ x = c
  BY <1>1, <1>2 DEF AnswerStep, AnswerLocks, AnswerSent, AnswerFails, AnswerReturns, AnswerSevers
<1>3. ASSUME NEW k \in Calls, InvokeStep(k) PROVE FALSE
  BY <1>1, <1>3, StepSends DEF CallsInv
<1>4. ASSUME NEW f \in Failers, SwapPending(f) \/ FailSwapped(f) PROVE FALSE
  BY <1>4 DEF SwapPending, FailSwapped
<1>5. ASSUME NEW k \in Calls, Expire(k) \/ \E r \in Replies : Answer(k, r) PROVE FALSE
  BY <1>5 DEF Expire, Answer
<1>6. AnswerReturns(c)
  BY <1>2, <1>3, <1>4, <1>5
     DEF ClientNext, Bystanders, ReceiveResponse, ReceiveOther, LoseConn, AnswerUnasked, HandlerReturns,
         Over, callVars, allVars, ReaderSwaps, ReaderFails, CloserSwaps, CloserFails, Failers
<1> QED
  BY <1>1, <1>6 DEF AnswerReturns, AnswerEnds, TypeOK

FindingOn(k, c, where) ==
  \/ where = "answer" /\ Finding(k, c, "read")
  \/ where = "read" /\ Finding(k, c, "blocked")
  \/ where = "blocked" /\ Finding(k, c, "disconnect")
LEMMA FindingStep ==
  ASSUME OneWayIn, CallsInv, NEW k \in Calls, NEW c \in Conns, NEW where, Finding(k, c, where)
  PROVE  /\ [ClientNext]_allVars /\ ~closed' =>
              Finding(k, c, where)' \/ Found(k, c)' \/ (call[k] = "leave")' \/ FindingOn(k, c, where)'
         /\ <<~Panicked /\ Reads(c)>>_allVars /\ ~closed' =>
              Found(k, c)' \/ (call[k] = "leave")' \/ FindingOn(k, c, where)'
         /\ where # "answer" => ReaderReady(c)
         /\ ~WriteStuck
<1>1. /\ TypeOK /\ IndInv /\ CallsTypeOK /\ Deserted(k, c) /\ c = ws /\ ~closed /\ ~WriteStuck
      /\ loop[c] \in Reading \cup {"disconnect"} /\ Gone(c) /\ sock[c] # "open" /\ loop[c] = where
  BY DesertedStep DEF Finding, Deserted, Gone, CallsInv, LinkInv, OneWay
<1>2. ASSUME [ClientNext]_allVars
      PROVE  /\ Deserted(k, c)' \/ (call[k] = "leave")'
             /\ loop'[c] = loop[c] \/ Finds(c) \/ (loop[c] = "answer" /\ loop'[c] = "read")
  BY <1>1, <1>2, GoneIsSilent, DesertedStep, ReaderFinds DEF AnswerEnds, TypeOK
<1>3. ASSUME ~Panicked /\ Reads(c)
      PROVE  ClientNext /\ (Finds(c) \/ (loop[c] = "answer" /\ loop'[c] = "read"))
  <2>1. (ReadStep(c) /\ Bystanders) \/ AnswerFails(c)
    BY <1>1, <1>3, ReaderFinds DEF Gone, Reads, ReceiveResponse, ReaderSwaps, ReaderFails
  <2>2. AnswerFails(c) => loop[c] = "answer" /\ loop'[c] = "read"
    BY <1>1 DEF AnswerFails, AnswerReturns, AnswerEnds, TypeOK
  <2> QED
    BY <1>1, <1>3, <2>1, <2>2, ReaderFinds DEF ClientNext, ProgramStep, AnswerStep, Answerers
<1>4. where # "answer" => ReaderReady(c)
  BY <1>1 DEF ReaderReady, ReadReady, Reading
<1> QED
  BY <1>1, <1>2, <1>3, <1>4 DEF Finding, Found, Finds, FindingOn

LEMMA FoundCallsEnd ==
  ASSUME OneWayIn, NEW k \in Calls, NEW c \in Conns
  PROVE  Calm /\ (Found(k, c) \/ call[k] = "leave") => <>(call[k] = "done")
<1>1. TurnsCome => CallTurn(k)
  BY DEF TurnsCome
<1>2. Found(k, c) \/ call[k] = "leave" => CallReady(k)
  BY DEF CallReady, Found, Deserted
<1>3. CallsInv /\ Found(k, c) /\ [ClientNext]_allVars => Found(k, c)' \/ (call[k] = "leave")'
  BY DesertedStep DEF Found
<1>4. CallsInv /\ Found(k, c) /\ <<~Panicked /\ Goes(k)>>_allVars => (call[k] = "leave")'
  BY StepSends DEF CallsInv, Goes, Found, Deserted
<1>5. CallsInv /\ call[k] = "leave" /\ [ClientNext]_allVars => (call[k] = "leave")' \/ (call[k] = "done")'
  BY CallsInvNext DEF SendKept, Onward
<1>6. CallsInv /\ call[k] = "leave" /\ <<~Panicked /\ Goes(k)>>_allVars => (call[k] = "done")'
  BY StepSends DEF CallsInv, Goes
<1>7. Calm /\ call[k] = "leave" => <>(call[k] = "done")
  BY <1>1, <1>2, <1>5, <1>6, PTL DEF Calm, CallsGo, CallTurn
<1>8. Calm /\ Found(k, c) => <>(call[k] = "leave")
  BY <1>1, <1>2, <1>3, <1>4, PTL DEF Calm, CallsGo, CallTurn
<1> QED
  BY <1>7, <1>8, PTL DEF Calm, CallsGo

(* While the client is not closed.                                           *)
Opened == Calm /\ []~closed
LEMMA FindingGoesOn ==
  ASSUME OneWayIn, NEW k \in Calls, NEW c \in Conns
  PROVE  /\ Opened /\ Finding(k, c, "answer") =>
              <>(Finding(k, c, "read") \/ Found(k, c) \/ call[k] = "leave")
         /\ Opened /\ Finding(k, c, "read") =>
              <>(Finding(k, c, "blocked") \/ Found(k, c) \/ call[k] = "leave")
         /\ Opened /\ Finding(k, c, "blocked") =>
              <>(Finding(k, c, "disconnect") \/ Found(k, c) \/ call[k] = "leave")
         /\ Opened /\ Finding(k, c, "disconnect") => <>(Found(k, c) \/ call[k] = "leave")
<1>1. TurnsCome => ReaderTurn(c)
  BY DEF TurnsCome
<1>2. Opened /\ Finding(k, c, "answer") => <>(Finding(k, c, "read") \/ Found(k, c) \/ call[k] = "leave")
  <2>1. CallsInv /\ Finding(k, c, "answer") /\ [ClientNext]_allVars /\ (~closed)' =>
          \/ Finding(k, c, "answer")' \/ Finding(k, c, "read")'
          \/ Found(k, c)' \/ (call[k] = "leave")'
    BY FindingStep DEF FindingOn
  <2>2. CallsInv /\ Finding(k, c, "answer") /\ <<~Panicked /\ Reads(c)>>_allVars /\ (~closed)' =>
          Finding(k, c, "read")' \/ Found(k, c)' \/ (call[k] = "leave")'
    BY FindingStep DEF FindingOn
  <2>3. CallsInv /\ Finding(k, c, "answer") => ~WriteStuck /\ Answering(c)
    BY FindingStep DEF Finding, Answering
  <2>4. <<~Panicked /\ AnswerLocks(c)>>_allVars => (sendMu = c)'
    BY DEF AnswerLocks
  <2>5. CallsInv /\ Finding(k, c, "answer") /\ sendMu = c => Ending(c)
    BY DEF Finding, Deserted, Gone, Ending, Told, Carrier, CallsInv
  <2>6. CallsInv /\ Ending(c) => ReaderReady(c)
    BY EndingEnds
  <2>7. Opened /\ []Finding(k, c, "answer") => []Frees
    BY <2>3, SendFrees, PTL DEF Opened, CallsRun, Calm, CallsGo
  <2>8. CallsInv /\ sendMu = c /\ [ClientNext]_allVars => (sendMu = c)' \/ (loop[c] # "answer")'
    BY AnswerIsOver
  <2>9. Finding(k, c, "answer") => ~(loop[c] # "answer")
    BY DEF Finding
  <2> QED
    BY <1>1, <2>1, <2>2, <2>3, <2>4, <2>5, <2>6, <2>7, <2>8, <2>9, PTL DEF Opened, Calm, CallsGo, ReaderTurn, Frees
<1>3. Opened /\ Finding(k, c, "read") =>
        <>(Finding(k, c, "blocked") \/ Found(k, c) \/ call[k] = "leave")
  <2>1. CallsInv /\ Finding(k, c, "read") /\ [ClientNext]_allVars /\ (~closed)' =>
          \/ Finding(k, c, "read")' \/ Finding(k, c, "blocked")'
          \/ Found(k, c)' \/ (call[k] = "leave")'
    BY FindingStep DEF FindingOn
  <2>2. CallsInv /\ Finding(k, c, "read") /\ <<~Panicked /\ Reads(c)>>_allVars /\ (~closed)' =>
          Finding(k, c, "blocked")' \/ Found(k, c)' \/ (call[k] = "leave")'
    BY FindingStep DEF FindingOn
  <2>3. CallsInv /\ Finding(k, c, "read") => ReaderReady(c)
    BY FindingStep
  <2> QED
    BY <1>1, <2>1, <2>2, <2>3, PTL DEF Opened, Calm, CallsGo, ReaderTurn
<1>4. Opened /\ Finding(k, c, "blocked") =>
        <>(Finding(k, c, "disconnect") \/ Found(k, c) \/ call[k] = "leave")
  <2>1. CallsInv /\ Finding(k, c, "blocked") /\ [ClientNext]_allVars /\ (~closed)' =>
          \/ Finding(k, c, "blocked")' \/ Finding(k, c, "disconnect")'
          \/ Found(k, c)' \/ (call[k] = "leave")'
    BY FindingStep DEF FindingOn
  <2>2. CallsInv /\ Finding(k, c, "blocked") /\ <<~Panicked /\ Reads(c)>>_allVars /\ (~closed)' =>
          Finding(k, c, "disconnect")' \/ Found(k, c)' \/ (call[k] = "leave")'
    BY FindingStep DEF FindingOn
  <2>3. CallsInv /\ Finding(k, c, "blocked") => ReaderReady(c)
    BY FindingStep
  <2> QED
    BY <1>1, <2>1, <2>2, <2>3, PTL DEF Opened, Calm, CallsGo, ReaderTurn
<1>5. Opened /\ Finding(k, c, "disconnect") => <>(Found(k, c) \/ call[k] = "leave")
  <2>1. CallsInv /\ Finding(k, c, "disconnect") /\ [ClientNext]_allVars /\ (~closed)' =>
          Finding(k, c, "disconnect")' \/ Found(k, c)' \/ (call[k] = "leave")'
    BY FindingStep DEF FindingOn
  <2>2. CallsInv /\ Finding(k, c, "disconnect") /\ <<~Panicked /\ Reads(c)>>_allVars /\ (~closed)' =>
          Found(k, c)' \/ (call[k] = "leave")'
    BY FindingStep DEF FindingOn
  <2>3. CallsInv /\ Finding(k, c, "disconnect") => ReaderReady(c)
    BY FindingStep
  <2> QED
    BY <1>1, <2>1, <2>2, <2>3, PTL DEF Opened, Calm, CallsGo, ReaderTurn
<1> QED
  BY <1>2, <1>3, <1>4, <1>5

ReturnsOrPanics(k) == <>(call[k] = "done" \/ Panicked)
LEMMA DesertedCallsEnd ==
  ASSUME OneWayIn, NEW k \in Calls, NEW c \in Conns
  PROVE  CallsGo /\ Deserted(k, c) => ReturnsOrPanics(k)
<1>1. CallsInv /\ Deserted(k, c) /\ ~closed =>
        \/ Finding(k, c, "answer") \/ Finding(k, c, "read") \/ Finding(k, c, "blocked")
        \/ Finding(k, c, "disconnect") \/ Found(k, c)
  BY DesertedStep DEF Finding, Found, Reading
<1>2. Opened /\ Finding(k, c, "answer") =>
        <>(Finding(k, c, "read") \/ Found(k, c) \/ call[k] = "leave")
  BY FindingGoesOn
<1>3. Opened /\ Finding(k, c, "read") =>
        <>(Finding(k, c, "blocked") \/ Found(k, c) \/ call[k] = "leave")
  BY FindingGoesOn
<1>4. Opened /\ Finding(k, c, "blocked") =>
        <>(Finding(k, c, "disconnect") \/ Found(k, c) \/ call[k] = "leave")
  BY FindingGoesOn
<1>5. Opened /\ Finding(k, c, "disconnect") => <>(Found(k, c) \/ call[k] = "leave")
  BY FindingGoesOn
<1>6. Calm /\ (Found(k, c) \/ call[k] = "leave") => <>(call[k] = "done")
  BY FoundCallsEnd
<1>7. CallsGo => (closed /\ Active(k) ~> call[k] = "done" \/ Panicked)
  BY ClosedCallsEnd
<1>8. CallsInv /\ [ClientNext]_allVars => (Active(k) => Active(k)' \/ (call[k] = "done")')
  BY CallsInvNext, Zenon DEF CallsInv, SendKept, Onward, Active, CallsTypeOK
<1>9. Deserted(k, c) => Active(k)
  BY DEF Deserted, Active
<1> QED
  BY <1>1, <1>2, <1>3, <1>4, <1>5, <1>6, <1>7, <1>8, <1>9, PTL DEF Opened, Calm, CallsGo, ReturnsOrPanics

(* LossEndsWaits: no call outlives its connection once that has been read       *)
(* empty (readLoop at client.go:319, onDisconnect at 354).                    *)
THEOREM LossEndsWaitsCorrect ==
  ASSUME OneWayIn PROVE ClientSpec /\ []TurnsCome => LossEndsWaits
<1>1. ASSUME NEW k \in Calls
      PROVE  CallsGo /\ []Emptied =>
               (call[k] = "wait" /\ (sock[on[k]] = "closed" \/ Gone(on[k]))
                ~> call[k] = "done" \/ Panicked)
  <2>1. CallsGo => CallsInv
    BY PTL DEF CallsGo
  <2>2. CallsInv /\ call[k] = "wait" => on[k] \in Conns
    BY DEF CallsInv, CallsTypeOK
  <2>3. CallsGo /\ call[k] = "wait" /\ Gone(on[k]) => ReturnsOrPanics(k)
    BY <2>1, <2>2, DesertedCallsEnd DEF Deserted
  <2>4. CallsInv /\ Emptied /\ call[k] = "wait" /\ sock[on[k]] = "closed" => Gone(on[k])
    BY <2>2 DEF Gone, Emptied
  <2> QED
    BY <2>3, <2>4, PTL DEF CallsGo, ReturnsOrPanics
<1> QED
  BY <1>1, CallsGoOn, EmptiedCorrect DEF LossEndsWaits

-----------------------------------------------------------------------------
(* Close.  What TurnsCome says of the client's goroutines is what Turns says of *)
(* those of ClientLifecycle, the swap of the pending map being the one step of *)
(* theirs that ClientLifecycle does not see.                                 *)

LEMMA SwappedStays ==
  ASSUME CallsTypeOK, [ClientNext]_allVars, NEW f \in Failers, swapped[f] # {}
  PROVE  \/ swapped'[f] # {}
         \/ f \in Conns /\ ReaderFails(f) /\ ~Panicked
         \/ CloserFails /\ ~Panicked
<1> USE DEF CallsTypeOK
<1>1. ASSUME NEW g \in Failers, SwapPending(g) PROVE swapped'[f] # {}
  BY <1>1 DEF SwapPending
<1>2. ASSUME NEW g \in Failers, g # f, FailSwapped(g) PROVE swapped'[f] # {}
  BY <1>2 DEF FailSwapped
<1>3. ASSUME NEW x \in Answerers, AnswerStep(x) PROVE UNCHANGED swapped
  BY <1>3 DEF AnswerStep, AnswerLocks, AnswerSent, AnswerFails, AnswerReturns, AnswerSevers
<1>4. ASSUME NEW k \in Calls, InvokeStep(k) \/ Expire(k) \/ \E r \in Replies : Answer(k, r)
      PROVE  UNCHANGED swapped
  BY <1>4 DEF InvokeStep, Refuse, CurrentConn, Register, LockSend, Write, WriteFails, WriteExpires,
              WriteReturnsError, Returns, TakeResponse, ContextEnds, ConnectionEnds, Unregister,
              Expire, Answer
<1> HIDE DEF CallsTypeOK
<1> QED
  BY <1>1, <1>2, <1>3, <1>4
     DEF ClientNext, Bystanders, ReceiveResponse, ReceiveOther, LoseConn, AnswerUnasked, HandlerReturns,
         Over, callVars, allVars, ReaderSwaps, ReaderFails, CloserSwaps, CloserFails, Failers

LEMMA ReadTurns == ASSUME NEW c \in Conns PROVE CallsGo => ReadTurn(c)
<1> DEFINE Life == ~Panicked /\ (ReadStep(c) \/ FailPending(c) \/ Receive(c))
           full == swapped[c] # {}
<1>1. TurnsCome => ReaderTurn(c)
  BY DEF TurnsCome
<1>2. ReadReady(c) => ReaderReady(c)
  BY DEF ReaderReady
<1>3. CallsInv => (Life => <<Life>>_vars)
  BY NoneAssumption DEF CallsInv, LinkInv, TypeOK, vars, connVars, ReadStep, ReadNext, ReadNilContext,
     ReadFails, OnDisconnect, SendWake, FailPending, Receive
<1>4. CallsInv /\ ReadReady(c) /\ <<~Panicked /\ Reads(c)>>_allVars => <<Life>>_vars \/ (~full /\ full')
  <2>1. CallsInv /\ ReaderSwaps(c) => ~full /\ full'
    BY DEF ReaderSwaps, SwapPending, CallsInv, CallsTypeOK, Failers
  <2>2. AnswerFails(c) => ~ReadReady(c)
    BY DEF AnswerFails, AnswerReturns, AnswerEnds, ReadReady
  <2> QED
    BY <1>3, <2>1, <2>2 DEF Reads, ReaderFails, ReceiveResponse
<1>5. CallsInv /\ full /\ [ClientNext]_allVars => full' \/ <<Life>>_vars
  <2>1. CallsInv /\ full /\ CloserFails => full'
    BY NoneAssumption DEF CloserFails, FailSwapped, CallsInv, CallsTypeOK, Failers
  <2> QED
    BY <1>3, <2>1, SwappedStays DEF Failers, ReaderFails, CallsInv
<1> HIDE DEF Life, full
<1>6. CallsGo => []<>~(~Panicked /\ ReadReady(c)) \/ []<><<Life>>_vars
  BY <1>1, <1>2, <1>4, <1>5, PTL DEF CallsGo, ReaderTurn
<1> QED
  BY <1>6 DEF ReadTurn, Life

LEMMA LoopTurns == ASSUME NEW r \in Sessions PROVE CallsGo => LoopTurn(r)
<1>1. TurnsCome => SessionTurn(r)
  BY DEF TurnsCome
<1>2. CallsInv /\ <<~Panicked /\ LoopStep(r) /\ Bystanders>>_allVars => <<~Panicked /\ LoopStep(r)>>_vars
  BY DEF CallsInv, LinkInv, TypeOK, vars, sessVars, LoopStep, LoopStops, LoopWakes, LoopChecks, Redials,
         Redial, RedialFails, InstallRedialed, LoopConfirms, DelayExpires, RLoopAt
<1> QED
  BY <1>1, <1>2, PTL DEF CallsGo, SessionTurn, LoopTurn

LEMMA CloseTakesTurns == CallsGo => CloseTurn
<1> DEFINE Life == ~Panicked /\ (CloseStep \/ CloseFailsPending)
           full == swapped[None] # {}
<1>1. TurnsCome => CloserTurn
  BY DEF TurnsCome
<1>2. Life => <<Life>>_vars
  BY DEF vars, closeVars, CloseStep, CloseCancels, CloseAwaitsRead, CloseAwaitsLoop, CloseFailsPending
<1>3. CallsInv /\ <<~Panicked /\ CloserGoes>>_allVars => <<Life>>_vars \/ (~full /\ full')
  <2>1. CallsInv /\ CloserSwaps => ~full /\ full'
    BY DEF CloserSwaps, SwapPending, CallsInv, CallsTypeOK, Failers
  <2> QED
    BY <1>2, <2>1 DEF CloserGoes, CloserFails
<1>4. CallsInv /\ full /\ [ClientNext]_allVars => full' \/ <<Life>>_vars
  BY <1>2, SwappedStays, NoneAssumption DEF Failers, CloserFails, CallsInv
<1> HIDE DEF Life, full
<1>5. CallsGo => []<>~(~Panicked /\ CloseReady) \/ []<><<Life>>_vars
  BY <1>1, <1>3, <1>4, PTL DEF CallsGo, CloserTurn
<1> QED
  BY <1>5 DEF CloseTurn, Life

LEMMA CallsGoRuns == CallsGo => Runs
<1>1. CallsGo => CloseTurns
  BY ReadTurns, LoopTurns, CloseTakesTurns DEF CloseTurns
<1>2. CallsInv /\ [ClientNext]_allVars => [Next]_vars
  BY StepRefines DEF CallsInv
<1>3. CallsInv => TypeOK /\ CloseInv
  BY DEF CallsInv, LinkInv
<1> QED
  BY <1>1, <1>2, <1>3, PTL DEF CallsGo, Runs

(* Past the cancelling, the read loop that Close waits for comes to the end of *)
(* the answer it may be at, and receives nothing that it would answer.         *)
Stays(c) == CloseIsPast /\ closeWs = c
Hindered(c) == Stays(c) /\ c # None /\ loop[c] = "answer"
Unhindered(c) == Stays(c) /\ (c # None => loop[c] # "answer")

LEMMA UnhinderedStays ==
  ASSUME CallsInv, [ClientNext]_allVars, NEW c \in Conns \cup {None}, Stays(c)
  PROVE  Stays(c)' /\ (Unhindered(c) => Unhindered(c)')
<1>0. TypeOK /\ CloseInv /\ InvDial /\ CallsTypeOK /\ [Next]_vars
  BY StepRefines DEF CallsInv, LinkInv, WakeInv
<1>1. Stays(c)'
  BY <1>0, PastStays, CloserAlone DEF Stays, CloseIsPast, closeVars, CloseStep, CloseCancels, CloseAwaitsRead,
     CloseAwaitsLoop, CloseFailsPending
<1>2. ASSUME c # None, loop[c] # "answer", loop'[c] = "answer" PROVE FALSE
  <2>1. c \in Conns /\ c \in Senders /\ c \notin Calls /\ c \notin Handlers
    BY <1>2 DEF Senders, Answerers
  <2>2. Begins(c)
    BY <1>0, <1>2, <2>1, SendingKept DEF Sending, Answering
  <2>3. ReceiveOther(c)
    BY <2>1, <2>2 DEF Begins, Carrier
  <2> QED
    BY <1>0, <1>2, <2>3, NoneAssumption DEF Stays, CloseIsPast, CloseInv, ReceiveOther, Receive
<1> QED
  BY <1>1, <1>2 DEF Unhindered

LEMMA HinderedEnds ==
  ASSUME NEW c \in Conns PROVE CallsRun /\ Hindered(c) => <>Unhindered(c)
<1>1. TurnsCome => ReaderTurn(c)
  BY DEF TurnsCome
<1>2. CallsInv /\ Hindered(c) /\ [ClientNext]_allVars => Hindered(c)' \/ Unhindered(c)'
  BY UnhinderedStays DEF Hindered, Unhindered
<1>3. Hindered(c) => Answering(c) /\ ~(loop[c] # "answer")
  BY DEF Hindered, Answering
<1>4. <<~Panicked /\ AnswerLocks(c)>>_allVars => (sendMu = c)'
  BY DEF AnswerLocks
<1>5. CallsInv /\ Hindered(c) /\ sendMu = c => Ending(c)
  <2>1. ASSUME Hindered(c) PROVE Sending(c) /\ c \in Senders
    BY <2>1 DEF Hindered, Sending, Answering, Senders, Answerers
  <2> QED
    BY <2>1, PastIsGone DEF Hindered, Stays, Ending, Told, Carrier
<1>6. CallsInv /\ Ending(c) => ReaderReady(c)
  BY EndingEnds
<1>7. CallsInv /\ Ending(c) /\ <<~Panicked /\ Reads(c)>>_allVars => (sendMu = None)'
  BY EndingEnds
<1>8. CallsInv /\ sendMu = c /\ [ClientNext]_allVars => (sendMu = c)' \/ (loop[c] # "answer")'
  BY AnswerIsOver
<1>9. ~(sendMu = None /\ sendMu = c)
  BY NoneAssumption
<1> QED
  BY <1>1, <1>2, <1>3, <1>4, <1>5, <1>6, <1>7, <1>8, <1>9, SendFrees, PTL
     DEF CallsRun, Calm, CallsGo, ReaderTurn, Frees

LEMMA UnhinderedReturns ==
  ASSUME NEW c \in Conns \cup {None}
  PROVE  CallsGo /\ Unhindered(c) => <>(closer = "returned" \/ Panicked)
<1>1. CallsInv /\ Unhindered(c) /\ [ClientNext]_allVars => Unhindered(c)'
  BY UnhinderedStays DEF Unhindered
<1>2. Unhindered(c) => closer # "idle" /\ ~AwaitsAnswer
  BY NoneAssumption DEF Unhindered, Stays, CloseIsPast, AwaitsAnswer
<1> QED
  BY <1>1, <1>2, CallsGoRuns, CloseRuns, PTL DEF CallsGo, CloseEndsUp

CloseIsOver == <>(closer = "returned" \/ Panicked)
LEMMA PastReturns == Calm /\ CallsRun /\ CloseIsPast => CloseIsOver
<1>1. ASSUME NEW c \in Conns \cup {None} PROVE CallsRun /\ Stays(c) => CloseIsOver
  <2>1. CallsRun /\ Unhindered(c) => CloseIsOver
    BY UnhinderedReturns, PTL DEF CallsRun, Calm, CloseIsOver
  <2>2. Stays(c) => Unhindered(c) \/ Hindered(c)
    BY DEF Hindered, Unhindered
  <2>3. CASE c \in Conns
    <3>1. CallsRun /\ Hindered(c) => <>Unhindered(c)
      BY <2>3, HinderedEnds
    <3>2. CallsGo /\ Unhindered(c) => <>(closer = "returned" \/ Panicked)
      BY UnhinderedReturns
    <3> QED
      BY <2>2, <3>1, <3>2, PTL DEF CallsRun, Calm, CallsGo, CloseIsOver
  <2>4. CASE c = None
    BY <2>1, <2>2, <2>4 DEF Hindered
  <2> QED
    BY <2>3, <2>4
<1>2. CallsRun => TypeOK
  <2>1. CallsInv => TypeOK
    BY DEF CallsInv, LinkInv
  <2> QED
    BY <2>1, PTL DEF CallsRun, Calm, CallsGo
<1>3. TypeOK /\ CloseIsPast => \E c \in Conns \cup {None} : Stays(c)
  BY DEF TypeOK, Stays
<1> QED
  BY <1>1, <1>2, <1>3

(* CloseEnds: where connections are made one way only, Close returns, for any  *)
(* number of calls, handlers and connections, although the read loop it waits  *)
(* for may be waiting for sendMu behind them (client.go:221, 334, 645).        *)
THEOREM CloseEndsCorrect == ClientSpec /\ []TurnsCome => CloseEnds
<1>1. ASSUME OneWayIn PROVE CallsGo => (closer = "stop" ~> closer = "returned" \/ Panicked)
  <2>1. CallsInv /\ closer = "stop" => closed
    BY DEF CallsInv, LinkInv, CloseInv
  <2>2. Calm /\ closed => <>(CloseIsPast /\ CallsRun)
    BY <1>1, ClosePasses
  <2>3. Calm /\ CallsRun /\ CloseIsPast => CloseIsOver
    BY PastReturns
  <2> QED
    BY <2>1, <2>2, <2>3, PTL DEF Calm, CallsGo, CloseIsOver
<1> QED
  BY <1>1, CallsGoOn DEF CloseEnds
=============================================================================
