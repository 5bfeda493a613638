-------------------------- MODULE WebBridgeProofs --------------------------
(* Theorems about WebBridge, for every number of requests and calls, and    *)
(* for every width of the connection.                                       *)
EXTENDS WebBridge, TLAPS

USE WithinAssumption, BridgeMessagesAssumption, BridgeWindowAssumption,
    BridgeNamesAssumption, BridgeNoneAssumption

-----------------------------------------------------------------------------
(* Types, the two directions first.                                         *)

InMsgs == [kind : {"request"}, of : Requests] \cup [kind : {"garbled", "neither"}]
          \cup [kind : {"response"}, of : Invokes, response : Responses]
OutMsgs == [kind : {"request"}, of : Invokes] \cup [kind : {"refusal"}]
           \cup [kind : {"answer"}, of : Requests, answer : Answers \cup NoResponse]

Box(box, Msgs) == box \in Seq(Msgs) /\ Len(box) \in Nat /\ Len(box) <= Window

LEMMA Boxes == TypeOK => Box(inbox, InMsgs) /\ Box(outbox, OutMsgs)
<1> SUFFICES ASSUME TypeOK PROVE Box(inbox, InMsgs) /\ Box(outbox, OutMsgs)
  OBVIOUS
<1>1. inbox \in Seq(InMsgs) /\ outbox \in Seq(OutMsgs)
  BY DEF TypeOK, InMsgs, OutMsgs
<1>2. Len(inbox) \in Nat /\ Len(outbox) \in Nat
  BY <1>1
<1> QED
  BY <1>1, <1>2 DEF TypeOK, Box

LEMMA Appended ==
  ASSUME NEW Msgs, NEW box, Box(box, Msgs), NEW m \in Msgs, Len(box) < Window
  PROVE  /\ Box(Append(box, m), Msgs) /\ Len(Append(box, m)) = Len(box) + 1
         /\ \A j \in 1..Len(Append(box, m)) :
              Append(box, m)[j] = IF j = Len(box) + 1 THEN m ELSE box[j]
         /\ \A j \in 1..Len(box) : j \in 1..Len(Append(box, m)) /\ j # Len(box) + 1
BY DEF Box

LEMMA Taken ==
  ASSUME NEW Msgs, NEW box, Box(box, Msgs), box # <<>>
  PROVE  /\ Box(Tail(box), Msgs) /\ Len(Tail(box)) = Len(box) - 1
         /\ Head(box) \in Msgs /\ Head(box) = box[1] /\ 1 \in 1..Len(box)
         /\ \A j \in 1..Len(Tail(box)) : j + 1 \in 1..Len(box) /\ Tail(box)[j] = box[j + 1]
BY DEF Box

LEMMA Emptied ==
  ASSUME NEW Msgs
  PROVE  Box(<<>>, Msgs) /\ 1..Len(<<>>) = {}
BY DEF Box

LEMMA InFields ==
  ASSUME NEW w \in InMsgs
  PROVE  /\ w.kind \in {"request", "garbled", "neither", "response"}
         /\ w.kind = "request" => w.of \in Requests
         /\ w.kind = "response" => w.of \in Invokes /\ w.response \in Responses
<1>1. CASE w \in [kind : {"request"}, of : Requests]
  BY <1>1
<1>2. CASE w \in [kind : {"garbled", "neither"}]
  BY <1>2
<1>3. CASE w \in [kind : {"response"}, of : Invokes, response : Responses]
  BY <1>3
<1> QED
  BY <1>1, <1>2, <1>3 DEF InMsgs

LEMMA OutFields ==
  ASSUME NEW w \in OutMsgs
  PROVE  /\ w.kind \in {"request", "refusal", "answer"}
         /\ w.kind = "request" => w.of \in Invokes
         /\ w.kind = "answer" => w.of \in Requests /\ w.answer \in Answers \cup NoResponse
<1>1. CASE w \in [kind : {"request"}, of : Invokes]
  BY <1>1
<1>2. CASE w \in [kind : {"refusal"}]
  BY <1>2
<1>3. CASE w \in [kind : {"answer"}, of : Requests, answer : Answers \cup NoResponse]
  BY <1>3
<1> QED
  BY <1>1, <1>2, <1>3 DEF OutMsgs

LEMMA MsgMembers ==
  /\ \A r \in Requests : [kind |-> "request", of |-> r] \in InMsgs
  /\ \A kind \in {"garbled", "neither"} : [kind |-> kind] \in InMsgs
  /\ \A i \in Invokes : \A v \in Responses :
       [kind |-> "response", of |-> i, response |-> v] \in InMsgs
  /\ \A i \in Invokes : [kind |-> "request", of |-> i] \in OutMsgs
  /\ [kind |-> "refusal"] \in OutMsgs
  /\ \A r \in Requests : \A a \in Answers \cup NoResponse :
       [kind |-> "answer", of |-> r, answer |-> a] \in OutMsgs
BY DEF InMsgs, OutMsgs

(* The parts of TypeOK but the two directions.                                *)
RestType ==
  /\ link \in {"up", "lost"}
  /\ loop \in {"accept", "read", "bare", "lock", "write", "ended"}
  /\ mu \in {None, "loop"} \cup Invokes \cup Requests
  /\ invoke \in [Invokes -> {"idle", "lock", "write", "wait", "done"}]
  /\ expired \subseteq Invokes
  /\ ch \in [Invokes -> Responses \cup {None}]
  /\ outcome \in [Invokes -> Responses \cup {"failed", None}]
  /\ heard \in [Invokes -> Responses \cup {"idle", "running"}]
  /\ asked \in [Requests -> Answers \cup {"idle", "open"}]
  /\ shape \in [Requests -> Messages \cup {None}]
  /\ task \in [Requests -> {"idle", "loop", "handler", "lock", "write", "ended"}]
  /\ answer \in [Requests -> Answers \cup NoResponse \cup {"silent", None}]
  /\ noise \in 0..MaxNoise

LEMMA TypeWhole == TypeOK => RestType /\ Box(inbox, InMsgs) /\ Box(outbox, OutMsgs)
BY Boxes DEF TypeOK, RestType

LEMMA TypeParts == RestType' /\ Box(inbox', InMsgs) /\ Box(outbox', OutMsgs) => TypeOK'
BY DEF TypeOK, RestType, Box, InMsgs, OutMsgs

(* What is written is put last, or lost.                                      *)
LEMMA Written ==
  ASSUME Box(outbox, OutMsgs), NEW m \in OutMsgs, Write(m)
  PROVE  /\ Box(outbox', OutMsgs)
         /\ \/ outbox' = outbox
            \/ Len(outbox) < Window /\ outbox' = Append(outbox, m)
<1>1. CASE outbox' = outbox
  BY <1>1
<1>2. CASE Len(outbox) < Window /\ outbox' = Append(outbox, m)
  BY <1>2, Appended
<1> QED
  BY <1>1, <1>2 DEF Write

LEMMA Sent ==
  ASSUME Box(inbox, InMsgs), NEW m \in InMsgs, Sends(m)
  PROVE  /\ Box(inbox', InMsgs) /\ Len(inbox) < Window /\ inbox' = Append(inbox, m)
BY Appended DEF Sends

(* What a request's goroutine comes to, about that request and no other.      *)
LEMMA AnswersType ==
  ASSUME RestType, NEW r \in Requests, NEW from \in {"idle", "handler"},
         NEW a \in Answers \cup NoResponse, AnswersWith(r, from, a)
  PROVE  /\ task[r] = from
         /\ task' \in [Requests -> {"idle", "loop", "handler", "lock", "write", "ended"}]
         /\ answer' \in [Requests -> Answers \cup NoResponse \cup {"silent", None}]
         /\ \A n \in Requests \ {r} : task'[n] = task[n] /\ answer'[n] = answer[n]
         /\ \/ task'[r] = "lock" /\ answer'[r] = a /\ shape[r].id
            \/ task'[r] = "ended" /\ answer'[r] = "silent" /\ ~shape[r].id
<1>1. CASE shape[r].id
  BY <1>1 DEF AnswersWith, TaskAt, RestType
<1>2. CASE ~shape[r].id
  BY <1>2 DEF AnswersWith, TaskAt, RestType
<1> QED
  BY <1>1, <1>2

LEMMA TreatmentType ==
  ASSUME NEW m, Treatment(m) # "handler"
  PROVE  Treatment(m) \in Answers
BY DEF Treatment, Answers

(* A request is refused by the loop, is run, or is answered or not at once.    *)
LEMMA TakeRequestType ==
  ASSUME RestType, NEW r \in Requests, TakeRequest(r)
  PROVE  /\ task[r] = "idle" /\ UNCHANGED invokeVars
         /\ task' \in [Requests -> {"idle", "loop", "handler", "lock", "write", "ended"}]
         /\ answer' \in [Requests -> Answers \cup NoResponse \cup {"silent", None}]
         /\ loop' \in {"lock", "read", loop}
         /\ \A n \in Requests \ {r} : task'[n] = task[n] /\ answer'[n] = answer[n]
         /\ \/ task'[r] \in {"loop", "lock"} /\ answer'[r] \in Answers /\ shape[r].id
            \/ task'[r] = "handler" /\ answer'[r] = answer[r]
            \/ task'[r] = "ended" /\ answer'[r] = "silent"
<1>1. CASE shape[r].version # "2.0"
  <2>1. /\ TaskAt(r, "idle", IF shape[r].id THEN "loop" ELSE "ended")
        /\ answer' = [answer EXCEPT ![r] = IF shape[r].id THEN "invalid request" ELSE "silent"]
        /\ loop' \in {"lock", "read"} /\ UNCHANGED invokeVars
    BY <1>1 DEF TakeRequest
  <2>2. CASE shape[r].id
    BY <2>1, <2>2 DEF TaskAt, RestType, Answers
  <2>3. CASE ~shape[r].id
    BY <2>1, <2>3 DEF TaskAt, RestType
  <2> QED
    BY <2>2, <2>3
<1>2. CASE shape[r].version = "2.0" /\ Treatment(shape[r]) = "handler"
  <2>1. TaskAt(r, "idle", "handler") /\ UNCHANGED <<answer, loop, invokeVars>>
    BY <1>2 DEF TakeRequest
  <2> QED
    BY <2>1 DEF TaskAt, RestType
<1>3. CASE shape[r].version = "2.0" /\ Treatment(shape[r]) # "handler"
  <2>1. AnswersWith(r, "idle", Treatment(shape[r])) /\ UNCHANGED <<loop, invokeVars>>
    BY <1>3 DEF TakeRequest
  <2>2. Treatment(shape[r]) \in Answers
    BY <1>3, TreatmentType
  <2> QED
    BY <2>1, <2>2, AnswersType
<1> QED
  BY <1>1, <1>2, <1>3

LEMMA TypeInit == Init => TypeOK
BY DEF Init, TypeOK

LEMMA LoopType ==
  ASSUME TypeOK, \A r \in Refused : answer[r] \in Answers, LoopStep
  PROVE  TypeOK'
<1> SUFFICES RestType' /\ Box(inbox', InMsgs) /\ Box(outbox', OutMsgs)
  BY TypeParts
<1>0. RestType /\ Box(inbox, InMsgs) /\ Box(outbox, OutMsgs)
  BY TypeWhole
<1>1. CASE Reject \/ Accept \/ LoopEnds
  BY <1>0, <1>1 DEF Reject, Accept, LoopEnds, LoopAt, RestType, invokeVars, browserVars, taskVars
<1>2. CASE LoopLocks
  BY <1>0, <1>2 DEF LoopLocks, LoopAt, Lock, RestType, invokeVars, browserVars, taskVars
<1>3. CASE Read
  <2> DEFINE m == Head(inbox)
  <2>1. inbox # <<>> /\ inbox' = Tail(inbox) /\ loop = "read" /\ UNCHANGED <<link, mu, outbox, browserVars, noise>>
    BY <1>3 DEF Read, Reads
  <2>2. Box(inbox', InMsgs) /\ m \in InMsgs
    BY <1>0, <2>1, Taken
  <2> HIDE DEF m
  <2>3. CASE m.kind = "request" /\ TakeRequest(m.of)
    <3>1. PICK r \in Requests : r = m.of
      BY <2>2, <2>3, InFields
    <3>2. TakeRequest(r)
      BY <2>3, <3>1
    <3> QED
      BY <1>0, <2>1, <2>2, <3>2, TakeRequestType DEF RestType, invokeVars, browserVars
  <2>4. CASE m.kind = "response" /\ handleResponse(m.of, m.response)
    <3>1. m.of \in Invokes /\ m.response \in Responses
      BY <2>2, <2>4, InFields
    <3>2. ch' \in [Invokes -> Responses \cup {None}]
      BY <1>0, <2>4, <3>1 DEF handleResponse, RestType
    <3> QED
      BY <1>0, <2>1, <2>2, <2>4, <3>2 DEF handleResponse, RestType, taskVars, browserVars
  <2>5. CASE loop' \in {"bare", "lock"} /\ UNCHANGED <<invokeVars, taskVars>>
    BY <1>0, <2>1, <2>2, <2>5 DEF RestType, invokeVars, taskVars, browserVars
  <2> QED
    BY <1>3, <2>3, <2>4, <2>5 DEF Read, m
<1>4. CASE WriteBare
  <2>1. Box(outbox', OutMsgs)
    BY <1>0, <1>4, Written, MsgMembers DEF WriteBare
  <2> QED
    BY <1>0, <1>4, <2>1 DEF WriteBare, LoopAt, RestType, invokeVars, browserVars, taskVars
<1>5. CASE LoopWrites
  <2>1. CASE Refused = {}
    <3>1. Box(outbox', OutMsgs)
      BY <1>0, <1>5, <2>1, Written, MsgMembers DEF LoopWrites
    <3> QED
      BY <1>0, <1>5, <2>1, <3>1 DEF LoopWrites, LoopAt, RestType, invokeVars, browserVars
  <2>2. CASE Refused # {}
    <3>1. PICK r \in Refused : /\ TaskAt(r, "loop", "ended")
                               /\ Write([kind |-> "answer", of |-> r, answer |-> answer[r]])
      BY <1>5, <2>2 DEF LoopWrites
    <3>2. r \in Requests /\ answer[r] \in Answers \cup NoResponse
      BY DEF Refused
    <3>3. Box(outbox', OutMsgs)
      BY <1>0, <3>1, <3>2, Written, MsgMembers
    <3> QED
      BY <1>0, <1>5, <3>1, <3>2, <3>3 DEF LoopWrites, LoopAt, TaskAt, RestType, invokeVars, browserVars
  <2> QED
    BY <2>1, <2>2
<1> QED
  BY <1>1, <1>2, <1>3, <1>4, <1>5 DEF LoopStep

LEMMA TaskType ==
  ASSUME TypeOK, NEW r \in Requests, TaskStep(r),
         task[r] \in {"lock", "write"} => answer[r] \in Answers \cup NoResponse
  PROVE  TypeOK'
<1> SUFFICES RestType' /\ Box(inbox', InMsgs) /\ Box(outbox', OutMsgs)
  BY TypeParts
<1>0. RestType /\ Box(inbox, InMsgs) /\ Box(outbox, OutMsgs)
  BY TypeWhole
<1>1. CASE HandlerReturns(r)
  <2>1. PICK a \in Answers \cup NoResponse : AnswersWith(r, "handler", a)
    BY <1>1 DEF HandlerReturns, Answers
  <2> QED
    BY <1>0, <1>1, <2>1, AnswersType DEF HandlerReturns, RestType, invokeVars, browserVars
<1>2. CASE LockAnswer(r)
  BY <1>0, <1>2 DEF LockAnswer, TaskAt, Lock, RestType, invokeVars, browserVars
<1>3. CASE WriteAnswer(r)
  <2>1. answer[r] \in Answers \cup NoResponse
    BY <1>3 DEF WriteAnswer, TaskAt
  <2>2. Box(outbox', OutMsgs)
    BY <1>0, <1>3, <2>1, Written, MsgMembers DEF WriteAnswer
  <2> QED
    BY <1>0, <1>3, <2>2 DEF WriteAnswer, TaskAt, RestType, invokeVars, browserVars
<1> QED
  BY <1>1, <1>2, <1>3 DEF TaskStep

LEMMA InvokeType ==
  ASSUME TypeOK, NEW i \in Invokes, Invoke(i) \/ ContextEnds(i) \/ InvokeStep(i)
  PROVE  TypeOK'
<1> SUFFICES RestType' /\ Box(inbox', InMsgs) /\ Box(outbox', OutMsgs)
  BY TypeParts
<1>0. RestType /\ Box(inbox, InMsgs) /\ Box(outbox, OutMsgs)
  BY TypeWhole
<1>1. CASE Invoke(i)
  BY <1>0, <1>1 DEF Invoke, InvokeAt, RestType, browserVars, taskVars
<1>2. CASE ContextEnds(i)
  BY <1>0, <1>2 DEF ContextEnds, RestType, browserVars, taskVars
<1>3. CASE LockInvoke(i)
  BY <1>0, <1>3 DEF LockInvoke, InvokeAt, Lock, RestType, browserVars, taskVars
<1>4. CASE WriteInvoke(i)
  <2>1. Box(outbox', OutMsgs)
    BY <1>0, <1>4, Written, MsgMembers DEF WriteInvoke
  <2> QED
    BY <1>0, <1>4, <2>1 DEF WriteInvoke, InvokeAt, RestType, browserVars, taskVars
<1>5. CASE WriteFails(i)
  <2>1. Box(inbox', InMsgs) /\ Box(outbox', OutMsgs) /\ link' \in {"up", "lost"}
    BY <1>0, <1>5, Emptied DEF WriteFails, RestType
  <2> QED
    BY <1>0, <1>5, <2>1 DEF WriteFails, Fails, InvokeAt, RestType, browserVars, taskVars
<1>6. CASE TakeResponse(i)
  BY <1>0, <1>6 DEF TakeResponse, InvokeAt, RestType, browserVars, taskVars
<1>7. CASE WaitEnds(i)
  BY <1>0, <1>7 DEF WaitEnds, Fails, InvokeAt, RestType, browserVars, taskVars
<1> QED
  BY <1>1, <1>2, <1>3, <1>4, <1>5, <1>6, <1>7 DEF InvokeStep

LEMMA BrowserType ==
  ASSUME TypeOK, Browser
  PROVE  TypeOK'
<1> SUFFICES RestType' /\ Box(inbox', InMsgs) /\ Box(outbox', OutMsgs)
  BY TypeParts
<1>0. RestType /\ Box(inbox, InMsgs) /\ Box(outbox, OutMsgs)
  BY TypeWhole
<1>1. ASSUME NEW r \in Requests, BrowserAsks(r) PROVE RestType' /\ Box(inbox', InMsgs) /\ Box(outbox', OutMsgs)
  <2>1. Sends([kind |-> "request", of |-> r])
    BY <1>1 DEF BrowserAsks
  <2>2. Box(inbox', InMsgs)
    BY <1>0, <2>1, Sent, MsgMembers
  <2> QED
    BY <1>0, <1>1, <2>1, <2>2 DEF BrowserAsks, Sends, RestType, invokeVars, taskVars
<1>2. ASSUME NEW i \in Invokes, BrowserAnswers(i) PROVE RestType' /\ Box(inbox', InMsgs) /\ Box(outbox', OutMsgs)
  <2>1. PICK v \in Responses :
          /\ Sends([kind |-> "response", of |-> i, response |-> v])
          /\ heard' = IF heard[i] = "running" THEN [heard EXCEPT ![i] = v] ELSE heard
          /\ noise' = IF heard[i] = "running" THEN noise ELSE noise + 1
          /\ noise' <= MaxNoise
    BY <1>2 DEF BrowserAnswers
  <2>2. Box(inbox', InMsgs)
    BY <1>0, <2>1, Sent, MsgMembers
  <2>3. noise' \in 0..MaxNoise /\ heard' \in [Invokes -> Responses \cup {"idle", "running"}]
    BY <1>0, <2>1 DEF RestType
  <2> QED
    BY <1>0, <1>2, <2>1, <2>2, <2>3 DEF BrowserAnswers, Sends, RestType, invokeVars, taskVars
<1>3. CASE BrowserSendsNoise
  <2>1. PICK kind \in {"garbled", "neither"} : Sends([kind |-> kind])
    BY <1>3 DEF BrowserSendsNoise
  <2>2. Box(inbox', InMsgs)
    BY <1>0, <2>1, Sent, MsgMembers
  <2> QED
    BY <1>0, <1>3, <2>1, <2>2 DEF BrowserSendsNoise, Sends, RestType, invokeVars, taskVars, browserVars
<1>4. CASE BrowserReads
  <2> DEFINE m == Head(outbox)
  <2>1. outbox # <<>> /\ outbox' = Tail(outbox)
    BY <1>4 DEF BrowserReads
  <2>2. Box(outbox', OutMsgs) /\ m \in OutMsgs
    BY <1>0, <2>1, Taken
  <2>3. /\ heard' = IF m.kind = "request" THEN [heard EXCEPT ![m.of] = "running"] ELSE heard
        /\ asked' = IF m.kind = "answer" /\ m.answer \in Answers /\ asked[m.of] = "open"
                    THEN [asked EXCEPT ![m.of] = m.answer] ELSE asked
    BY <1>4 DEF BrowserReads
  <2> HIDE DEF m
  <2>4. heard' \in [Invokes -> Responses \cup {"idle", "running"}]
    BY <1>0, <2>3 DEF RestType
  <2>5. asked' \in [Requests -> Answers \cup {"idle", "open"}]
    BY <1>0, <2>3 DEF RestType
  <2> QED
    BY <1>0, <1>4, <2>2, <2>4, <2>5 DEF BrowserReads, RestType, invokeVars, taskVars
<1>5. CASE BrowserLeaves
  <2>1. Box(inbox', InMsgs) /\ Box(outbox', OutMsgs)
    BY <1>5, Emptied DEF BrowserLeaves
  <2> QED
    BY <1>0, <1>5, <2>1 DEF BrowserLeaves, RestType, invokeVars, taskVars, browserVars
<1> QED
  BY <1>1, <1>2, <1>3, <1>4, <1>5 DEF Browser

-----------------------------------------------------------------------------
(* The invariant.                                                           *)

(* What a message on its way to the browser, or to Go, stands for.            *)
OutStands(w) ==
  /\ w.kind = "request" => invoke[w.of] \in {"wait", "done"} /\ heard[w.of] = "idle"
  /\ w.kind = "answer" => shape[w.of].id /\ task[w.of] = "ended" /\ answer[w.of] = w.answer
InStands(w) ==
  /\ w.kind = "request" => asked[w.of] # "idle"
  /\ w.kind = "response" => heard[w.of] \in Responses
AllStand == /\ \A j \in 1..Len(outbox) : OutStands(outbox[j])
            /\ \A j \in 1..Len(inbox) : InStands(inbox[j])

(* Every Invoke is written once, and every request answered once.             *)
SameMatter(v, w) == v.kind # "refusal" /\ v.kind = w.kind /\ v.of = w.of
OutOnce == \A j, l \in 1..Len(outbox) : SameMatter(outbox[j], outbox[l]) => j = l

(* A request that is refused or answered has an id, and waits with its answer. *)
RequestFits(r) ==
  /\ asked[r] = "idle" => task[r] = "idle"
  /\ asked[r] # "idle" => shape[r] \in Messages
  /\ task[r] = "loop" => answer[r] \in Answers /\ shape[r].id
  /\ task[r] \in {"lock", "write"} => answer[r] \in Answers \cup NoResponse /\ shape[r].id

InvokeFits(i) ==
  /\ invoke[i] \in {"idle", "lock", "write"} => heard[i] = "idle"
  /\ invoke[i] = "done" => outcome[i] # None
  /\ ch[i] # None => heard[i] = ch[i]

(* The response that the browser came to first is the first to be read.       *)
Responds(w, i) == w.kind = "response" /\ w.of = i
FirstCounts(i) ==
  invoke[i] = "wait" /\ ch[i] = None /\ link = "up" /\ heard[i] \in Responses =>
    \E j \in 1..Len(inbox) :
      /\ Responds(inbox[j], i) /\ inbox[j].response = heard[i]
      /\ \A l \in 1..Len(inbox) : l < j => ~Responds(inbox[l], i)

(* Nothing is on its way to Go before the connection is accepted, or after it. *)
NothingKept == loop = "accept" \/ link = "lost" => inbox = <<>>

BridgeInv ==
  /\ TypeOK /\ AllStand /\ OutOnce
  /\ \A r \in Requests : RequestFits(r)
  /\ \A i \in Invokes : InvokeFits(i) /\ FirstCounts(i)
  /\ NothingKept

Parts == /\ RestType /\ Box(inbox, InMsgs) /\ Box(outbox, OutMsgs) /\ AllStand /\ OutOnce
         /\ \A r \in Requests : RequestFits(r)
         /\ \A i \in Invokes : InvokeFits(i) /\ FirstCounts(i)
         /\ NothingKept

LEMMA InvParts == BridgeInv => Parts
BY TypeWhole DEF BridgeInv, Parts

-----------------------------------------------------------------------------
(* What the loop and the browser find at the head.                            *)

LEMMA ReadHead ==
  ASSUME BridgeInv, Read
  PROVE  /\ inbox # <<>> /\ inbox' = Tail(inbox) /\ inbox[1] \in InMsgs /\ InStands(inbox[1])
         /\ link = "up" /\ UNCHANGED <<link, mu, outbox, browserVars, noise, expired, outcome>>
         /\ \/ /\ inbox[1].kind = "request" /\ UNCHANGED invokeVars
               /\ \E r \in Requests : inbox[1].of = r /\ TakeRequest(r) /\ asked[r] # "idle"
            \/ /\ inbox[1].kind = "response" /\ UNCHANGED <<loop, taskVars, invoke>>
               /\ \E i \in Invokes : \E v \in Responses :
                    inbox[1].of = i /\ inbox[1].response = v /\ handleResponse(i, v)
            \/ inbox[1].kind \notin {"request", "response"} /\ UNCHANGED <<invokeVars, taskVars>>
<1>0. Parts
  BY InvParts
<1> DEFINE m == Head(inbox)
<1>1. inbox # <<>> /\ inbox' = Tail(inbox) /\ UNCHANGED <<link, mu, outbox, browserVars, noise>>
  BY DEF Read, Reads
<1>2. m \in InMsgs /\ m = inbox[1] /\ 1 \in 1..Len(inbox)
  BY <1>0, <1>1, Taken DEF Parts
<1>3. InStands(inbox[1])
  BY <1>0, <1>2 DEF Parts, AllStand
<1>4. link = "up"
  BY <1>0, <1>1 DEF Parts, RestType, NothingKept
<1>5. \/ m.kind = "request"  /\ TakeRequest(m.of)
      \/ m.kind = "response" /\ handleResponse(m.of, m.response)
      \/ m.kind \notin {"request", "response"} /\ UNCHANGED <<invokeVars, taskVars>>
  BY DEF Read
<1> HIDE DEF m
<1>6. CASE m.kind = "request"  /\ TakeRequest(m.of)
  <2>1. m.of \in Requests /\ asked[m.of] # "idle"
    BY <1>2, <1>3, <1>6, InFields DEF InStands
  <2>2. UNCHANGED invokeVars
    BY <1>6 DEF TakeRequest
  <2> QED
    BY <1>1, <1>2, <1>3, <1>4, <1>6, <2>1, <2>2 DEF invokeVars
<1>7. CASE m.kind = "response" /\ handleResponse(m.of, m.response)
  <2>1. m.of \in Invokes /\ m.response \in Responses
    BY <1>2, <1>7, InFields
  <2>2. UNCHANGED <<loop, taskVars, invoke, expired, outcome>>
    BY <1>7 DEF handleResponse
  <2> QED
    BY <1>1, <1>2, <1>3, <1>4, <1>7, <2>1, <2>2
<1>8. CASE m.kind \notin {"request", "response"} /\ UNCHANGED <<invokeVars, taskVars>>
  BY <1>1, <1>2, <1>3, <1>4, <1>8 DEF invokeVars
<1> QED
  BY <1>5, <1>6, <1>7, <1>8

LEMMA BrowserHead ==
  ASSUME BridgeInv, BrowserReads
  PROVE  /\ outbox # <<>> /\ outbox' = Tail(outbox) /\ outbox[1] \in OutMsgs
         /\ UNCHANGED <<link, loop, mu, inbox, invokeVars, shape, taskVars, noise>>
         /\ \/ /\ outbox[1].kind = "request" /\ asked' = asked
               /\ \E i \in Invokes : /\ outbox[1].of = i /\ heard[i] = "idle"
                                     /\ invoke[i] \in {"wait", "done"}
                                     /\ heard' = [heard EXCEPT ![i] = "running"]
            \/ /\ outbox[1].kind = "answer" /\ heard' = heard
               /\ \E r \in Requests : \E a \in Answers :
                    /\ outbox[1].of = r /\ answer[r] = a /\ task[r] = "ended"
                    /\ asked[r] = "open" /\ asked' = [asked EXCEPT ![r] = a]
            \/ UNCHANGED <<asked, heard>> /\ outbox[1].kind # "request"
<1>0. Parts
  BY InvParts
<1> DEFINE m == Head(outbox)
<1>1. /\ outbox # <<>> /\ outbox' = Tail(outbox)
      /\ UNCHANGED <<link, loop, mu, inbox, invokeVars, shape, taskVars, noise>>
      /\ heard' = IF m.kind = "request" THEN [heard EXCEPT ![m.of] = "running"] ELSE heard
      /\ asked' = IF m.kind = "answer" /\ m.answer \in Answers /\ asked[m.of] = "open"
                  THEN [asked EXCEPT ![m.of] = m.answer] ELSE asked
  BY DEF BrowserReads
<1>2. m \in OutMsgs /\ m = outbox[1] /\ 1 \in 1..Len(outbox)
  BY <1>0, <1>1, Taken DEF Parts
<1> HIDE DEF m
<1>3. OutStands(m)
  BY <1>0, <1>2 DEF Parts, AllStand
<1>4. CASE m.kind = "request"
  <2>1. m.of \in Invokes
    BY <1>2, <1>4, OutFields
  <2> QED
    BY <1>1, <1>2, <1>3, <1>4, <2>1 DEF OutStands
<1>5. CASE m.kind = "answer" /\ m.answer \in Answers /\ asked[m.of] = "open"
  <2>1. m.of \in Requests
    BY <1>2, <1>5, OutFields
  <2> QED
    BY <1>1, <1>2, <1>3, <1>5, <2>1 DEF OutStands
<1>6. CASE m.kind # "request" /\ ~(m.kind = "answer" /\ m.answer \in Answers /\ asked[m.of] = "open")
  BY <1>1, <1>2, <1>6
<1> QED
  BY <1>4, <1>5, <1>6

-----------------------------------------------------------------------------
(* Requests and Invokes, one at a time.                                       *)

LEMMA RequestSame ==
  ASSUME NEW r \in Requests, RequestFits(r),
         asked'[r] = asked[r], shape'[r] = shape[r], task'[r] = task[r], answer'[r] = answer[r]
  PROVE  RequestFits(r)'
BY DEF RequestFits

LEMMA RequestsFit ==
  ASSUME BridgeInv, [Next]_vars, NEW n \in Requests
  PROVE  RequestFits(n)'
<1>0. Parts /\ RestType /\ RequestFits(n)
  BY InvParts DEF Parts
<1>1. CASE UNCHANGED <<asked, shape, task, answer>>
  BY <1>0, <1>1, RequestSame
<1>2. ASSUME NEW r \in Requests, TakeRequest(r), asked[r] # "idle", UNCHANGED browserVars
      PROVE  RequestFits(n)'
  <2>1. CASE n # r
    BY <1>0, <1>2, <2>1, TakeRequestType, RequestSame DEF browserVars
  <2>2. CASE n = r
    <3>1. \/ task'[r] \in {"loop", "lock"} /\ answer'[r] \in Answers /\ shape[r].id
          \/ task'[r] \in {"handler", "ended"}
      BY <1>0, <1>2, TakeRequestType
    <3>2. asked' = asked /\ shape' = shape
      BY <1>2 DEF browserVars
    <3> QED
      BY <1>0, <1>2, <2>2, <3>1, <3>2 DEF RequestFits
  <2> QED
    BY <2>1, <2>2
<1>3. CASE Read
  BY <1>1, <1>2, <1>3, ReadHead DEF browserVars, taskVars
<1>4. CASE LoopWrites
  <2>1. CASE Refused = {}
    BY <1>1, <1>4, <2>1 DEF LoopWrites, browserVars
  <2>2. CASE Refused # {}
    <3>1. PICK r \in Requests : TaskAt(r, "loop", "ended")
      BY <1>4, <2>2 DEF LoopWrites, Refused
    <3> QED
      BY <1>0, <1>4, <3>1 DEF LoopWrites, TaskAt, RequestFits, RestType, browserVars
  <2> QED
    BY <2>1, <2>2
<1>5. ASSUME NEW r \in Requests, HandlerReturns(r) PROVE RequestFits(n)'
  <2>1. PICK a \in Answers \cup NoResponse : AnswersWith(r, "handler", a)
    BY <1>5 DEF HandlerReturns, Answers
  <2>2. UNCHANGED browserVars
    BY <1>5 DEF HandlerReturns
  <2>3. CASE n # r
    BY <1>0, <2>1, <2>2, <2>3, AnswersType, RequestSame DEF browserVars
  <2>4. CASE n = r
    <3>1. /\ task[r] = "handler"
          /\ \/ task'[r] = "lock" /\ answer'[r] = a /\ shape[r].id
             \/ task'[r] = "ended"
      BY <1>0, <2>1, AnswersType
    <3> QED
      BY <1>0, <2>2, <2>4, <3>1 DEF RequestFits, browserVars
  <2> QED
    BY <2>3, <2>4
<1>6. ASSUME NEW r \in Requests, LockAnswer(r) \/ WriteAnswer(r) PROVE RequestFits(n)'
  BY <1>0, <1>6 DEF LockAnswer, WriteAnswer, TaskAt, RequestFits, RestType, browserVars
<1>7. ASSUME NEW r \in Requests, BrowserAsks(r) PROVE RequestFits(n)'
  <2>1. PICK m \in Messages : shape' = [shape EXCEPT ![r] = m]
    BY <1>7 DEF BrowserAsks
  <2>2. asked[r] = "idle" /\ asked' = [asked EXCEPT ![r] = "open"] /\ UNCHANGED <<task, answer>>
    BY <1>7 DEF BrowserAsks, Sends, taskVars
  <2> QED
    BY <1>0, <2>1, <2>2 DEF RequestFits, RestType
<1>8. CASE BrowserReads
  <2>1. UNCHANGED <<shape, task, answer>>
    BY <1>8, BrowserHead DEF taskVars
  <2>2. CASE asked' = asked
    BY <1>1, <2>1, <2>2
  <2>3. ASSUME NEW r \in Requests, NEW a \in Answers,
               asked[r] = "open", asked' = [asked EXCEPT ![r] = a]
        PROVE  RequestFits(n)'
    BY <1>0, <2>1, <2>3 DEF RequestFits, RestType, Answers
  <2> QED
    BY <1>8, <2>2, <2>3, BrowserHead
<1>9. ASSUME NEW i \in Invokes,
             Invoke(i) \/ ContextEnds(i) \/ InvokeStep(i) \/ BrowserAnswers(i)
      PROVE  UNCHANGED <<asked, shape, task, answer>>
  BY <1>9 DEF Invoke, ContextEnds, InvokeStep, LockInvoke, WriteInvoke, WriteFails, TakeResponse,
     WaitEnds, BrowserAnswers, Sends, browserVars, taskVars
<1>10. CASE Reject \/ Accept \/ WriteBare \/ LoopLocks \/ LoopEnds
  BY <1>1, <1>10 DEF Reject, Accept, WriteBare, LoopLocks, LoopEnds, browserVars, taskVars
<1>11. CASE BrowserSendsNoise \/ BrowserLeaves
  BY <1>1, <1>11 DEF BrowserSendsNoise, BrowserLeaves, Sends, browserVars, taskVars
<1>12. CASE UNCHANGED vars
  BY <1>1, <1>12 DEF vars, browserVars, taskVars
<1> QED
  BY <1>1, <1>3, <1>4, <1>5, <1>6, <1>7, <1>8, <1>9, <1>10, <1>11, <1>12
     DEF Next, LoopStep, Browser, TaskStep, Gone

LEMMA InvokeSame ==
  ASSUME NEW i \in Invokes, InvokeFits(i),
         invoke'[i] = invoke[i], heard'[i] = heard[i], outcome'[i] = outcome[i], ch'[i] = ch[i]
  PROVE  InvokeFits(i)'
BY DEF InvokeFits

LEMMA InvokesFit ==
  ASSUME BridgeInv, [Next]_vars, NEW n \in Invokes
  PROVE  InvokeFits(n)'
<1>0. Parts /\ RestType /\ InvokeFits(n) /\ FirstCounts(n)
  BY InvParts DEF Parts
<1>1. CASE UNCHANGED <<invoke, heard, outcome, ch>>
  BY <1>0, <1>1, InvokeSame
<1>2. CASE Read
  <2>1. heard' = heard
    BY <1>2, ReadHead DEF browserVars
  <2>2. CASE UNCHANGED invokeVars
    BY <1>1, <2>1, <2>2 DEF invokeVars
  <2>3. ASSUME NEW i \in Invokes, NEW v \in Responses, inbox[1].kind = "response",
               inbox[1].of = i, inbox[1].response = v, handleResponse(i, v)
        PROVE  InvokeFits(n)'
    <3>1. UNCHANGED <<invoke, outcome>>
      BY <2>3 DEF handleResponse
    <3>2. CASE ch'[n] = ch[n]
      BY <1>0, <2>1, <3>1, <3>2, InvokeSame
    <3>3. CASE ch'[n] # ch[n]
      <4>1. n = i /\ invoke[n] = "wait" /\ ch[n] = None /\ ch'[n] = v
        BY <1>0, <2>3, <3>3 DEF handleResponse, RestType
      <4>2. heard[n] \in Responses /\ link = "up" /\ inbox # <<>>
        BY <1>2, <2>3, <4>1, ReadHead DEF InStands
      <4>3. PICK j \in 1..Len(inbox) :
              /\ Responds(inbox[j], n) /\ inbox[j].response = heard[n]
              /\ \A l \in 1..Len(inbox) : l < j => ~Responds(inbox[l], n)
        BY <1>0, <4>1, <4>2 DEF FirstCounts
      <4>4. 1 \in 1..Len(inbox) /\ Responds(inbox[1], n)
        BY <1>0, <2>3, <4>1, <4>2, Taken DEF Parts, Responds
      <4>5. j = 1
        BY <4>3, <4>4
      <4>6. heard[n] = v
        BY <2>3, <4>3, <4>5
      <4> QED
        BY <1>0, <2>1, <3>1, <4>1, <4>6 DEF InvokeFits
    <3> QED
      BY <3>2, <3>3
  <2> QED
    BY <1>2, <2>2, <2>3, ReadHead
<1>3. ASSUME NEW i \in Invokes, Invoke(i) \/ ContextEnds(i) \/ LockInvoke(i) \/ WriteInvoke(i)
      PROVE  InvokeFits(n)'
  BY <1>0, <1>3 DEF Invoke, ContextEnds, LockInvoke, WriteInvoke, InvokeAt, InvokeFits, RestType,
     browserVars
<1>4. ASSUME NEW i \in Invokes, WriteFails(i) \/ WaitEnds(i) \/ TakeResponse(i)
      PROVE  InvokeFits(n)'
  <2>1. /\ UNCHANGED <<heard, ch>> /\ invoke' = [invoke EXCEPT ![i] = "done"]
        /\ \/ outcome' = [outcome EXCEPT ![i] = "failed"]
           \/ ch[i] # None /\ outcome' = [outcome EXCEPT ![i] = ch[i]]
    BY <1>4 DEF WriteFails, WaitEnds, TakeResponse, Fails, InvokeAt, browserVars
  <2> QED
    BY <1>0, <2>1 DEF InvokeFits, RestType
<1>5. ASSUME NEW i \in Invokes, BrowserAnswers(i) PROVE InvokeFits(n)'
  <2>1. /\ UNCHANGED <<invoke, outcome, ch>>
        /\ heard' = heard \/ \E v \in Responses : heard[i] = "running" /\ heard' = [heard EXCEPT ![i] = v]
    BY <1>5 DEF BrowserAnswers, Sends, invokeVars
  <2>2. CASE heard' = heard
    BY <1>1, <2>1, <2>2
  <2>3. ASSUME NEW v \in Responses, heard[i] = "running", heard' = [heard EXCEPT ![i] = v]
        PROVE  InvokeFits(n)'
    <3>1. "running" \notin Responses
      BY DEF Responses
    <3> QED
      BY <1>0, <2>1, <2>3, <3>1 DEF InvokeFits, RestType
  <2> QED
    BY <2>1, <2>2, <2>3
<1>6. CASE BrowserReads
  <2>1. UNCHANGED <<invoke, outcome, ch>>
    BY <1>6, BrowserHead DEF invokeVars
  <2>2. CASE heard' = heard
    BY <1>1, <2>1, <2>2
  <2>3. ASSUME NEW i \in Invokes, heard[i] = "idle", invoke[i] \in {"wait", "done"},
               heard' = [heard EXCEPT ![i] = "running"]
        PROVE  InvokeFits(n)'
    <3>1. "idle" \notin Responses
      BY DEF Responses
    <3> QED
      BY <1>0, <2>1, <2>3, <3>1 DEF InvokeFits, RestType
  <2> QED
    BY <1>6, <2>2, <2>3, BrowserHead
<1>7. CASE Reject \/ Accept \/ WriteBare \/ LoopLocks \/ LoopWrites \/ LoopEnds
  BY <1>1, <1>7 DEF Reject, Accept, WriteBare, LoopLocks, LoopWrites, LoopEnds, invokeVars, browserVars
<1>8. ASSUME NEW r \in Requests, TaskStep(r) \/ BrowserAsks(r) PROVE InvokeFits(n)'
  BY <1>1, <1>8 DEF TaskStep, HandlerReturns, LockAnswer, WriteAnswer, BrowserAsks, Sends,
     invokeVars, browserVars
<1>9. CASE BrowserSendsNoise \/ BrowserLeaves \/ UNCHANGED vars
  BY <1>1, <1>9 DEF BrowserSendsNoise, BrowserLeaves, Sends, vars, invokeVars, browserVars
<1> QED
  BY <1>2, <1>3, <1>4, <1>5, <1>6, <1>7, <1>8, <1>9 DEF Next, LoopStep, Browser, InvokeStep, Gone

-----------------------------------------------------------------------------
(* The messages on their way.                                                *)

(* What a message stands for stays so, but for the message that is read.       *)
OnwardR(r) ==
  /\ asked[r] # "idle" => asked'[r] # "idle" /\ shape'[r] = shape[r]
  /\ task[r] = "ended" => task'[r] = "ended" /\ answer'[r] = answer[r]
OnwardI(i) ==
  /\ invoke[i] \in {"wait", "done"} => invoke'[i] \in {"wait", "done"}
  /\ heard[i] \in Responses => heard'[i] = heard[i]

LEMMA OnwardRequest ==
  ASSUME BridgeInv, [Next]_vars, NEW n \in Requests
  PROVE  OnwardR(n)
<1>0. Parts /\ RestType /\ RequestFits(n)
  BY InvParts DEF Parts
<1>1. CASE UNCHANGED <<asked, shape, task, answer>>
  BY <1>1 DEF OnwardR
<1>2. CASE Read
  <2>1. UNCHANGED browserVars
    BY <1>2, ReadHead
  <2>2. ASSUME NEW r \in Requests, TakeRequest(r) PROVE OnwardR(n)
    BY <1>0, <2>1, <2>2, TakeRequestType DEF OnwardR, browserVars
  <2> QED
    BY <1>1, <1>2, <2>1, <2>2, ReadHead DEF browserVars, taskVars
<1>3. ASSUME NEW r \in Requests, NEW from \in {"loop", "lock", "write"}, NEW to,
             TaskAt(r, from, to), UNCHANGED <<asked, shape, answer>>
      PROVE  OnwardR(n)
  BY <1>0, <1>3 DEF TaskAt, OnwardR, RestType
<1>4. CASE LoopWrites
  <2>1. UNCHANGED <<asked, shape, answer>>
    BY <1>4 DEF LoopWrites, browserVars
  <2>2. UNCHANGED task \/ \E r \in Requests : TaskAt(r, "loop", "ended")
    BY <1>4 DEF LoopWrites, Refused
  <2> QED
    BY <1>1, <1>3, <2>1, <2>2
<1>5. ASSUME NEW r \in Requests, TaskStep(r) PROVE OnwardR(n)
  <2>1. CASE LockAnswer(r) \/ WriteAnswer(r)
    BY <1>3, <2>1 DEF LockAnswer, WriteAnswer, browserVars
  <2>2. CASE HandlerReturns(r)
    <3>1. PICK a \in Answers \cup NoResponse : AnswersWith(r, "handler", a)
      BY <2>2 DEF HandlerReturns, Answers
    <3> QED
      BY <1>0, <2>2, <3>1, AnswersType DEF HandlerReturns, OnwardR, browserVars
  <2> QED
    BY <1>5, <2>1, <2>2 DEF TaskStep
<1>6. ASSUME NEW r \in Requests, BrowserAsks(r) PROVE OnwardR(n)
  <2>1. PICK m \in Messages : shape' = [shape EXCEPT ![r] = m]
    BY <1>6 DEF BrowserAsks
  <2>2. asked[r] = "idle" /\ asked' = [asked EXCEPT ![r] = "open"] /\ UNCHANGED <<task, answer>>
    BY <1>6 DEF BrowserAsks, Sends, taskVars
  <2> QED
    BY <1>0, <2>1, <2>2 DEF OnwardR, RestType
<1>7. CASE BrowserReads
  <2>1. UNCHANGED <<shape, task, answer>>
    BY <1>7, BrowserHead DEF taskVars
  <2>2. ASSUME NEW r \in Requests, NEW a \in Answers, asked' = [asked EXCEPT ![r] = a]
        PROVE  OnwardR(n)
    BY <1>0, <2>1, <2>2 DEF OnwardR, RestType, Answers
  <2> QED
    BY <1>1, <1>7, <2>1, <2>2, BrowserHead
<1>8. ASSUME NEW i \in Invokes,
             Invoke(i) \/ ContextEnds(i) \/ InvokeStep(i) \/ BrowserAnswers(i)
      PROVE  UNCHANGED <<asked, shape, task, answer>>
  BY <1>8 DEF Invoke, ContextEnds, InvokeStep, LockInvoke, WriteInvoke, WriteFails, TakeResponse,
     WaitEnds, BrowserAnswers, Sends, browserVars, taskVars
<1>9. CASE Reject \/ Accept \/ WriteBare \/ LoopLocks \/ LoopEnds
  BY <1>1, <1>9 DEF Reject, Accept, WriteBare, LoopLocks, LoopEnds, browserVars, taskVars
<1>10. CASE BrowserSendsNoise \/ BrowserLeaves \/ UNCHANGED vars
  BY <1>1, <1>10 DEF BrowserSendsNoise, BrowserLeaves, Sends, vars, browserVars, taskVars
<1> QED
  BY <1>1, <1>2, <1>4, <1>5, <1>6, <1>7, <1>8, <1>9, <1>10 DEF Next, LoopStep, Browser, Gone

LEMMA OnwardInvoke ==
  ASSUME BridgeInv, [Next]_vars, NEW n \in Invokes
  PROVE  /\ OnwardI(n)
         /\ heard'[n] = heard[n] \/ heard[n] = "running" \/ BrowserReads
<1>0. Parts /\ RestType
  BY InvParts DEF Parts
<1>1. CASE UNCHANGED <<invoke, heard>>
  BY <1>1 DEF OnwardI
<1>2. ASSUME NEW i \in Invokes, Invoke(i) \/ ContextEnds(i) \/ InvokeStep(i)
      PROVE  OnwardI(n) /\ heard'[n] = heard[n]
  BY <1>0, <1>2 DEF Invoke, ContextEnds, InvokeStep, LockInvoke, WriteInvoke, WriteFails, TakeResponse,
     WaitEnds, Fails, InvokeAt, OnwardI, RestType, browserVars
<1>3. ASSUME NEW i \in Invokes, BrowserAnswers(i)
      PROVE  OnwardI(n) /\ (heard'[n] = heard[n] \/ heard[n] = "running")
  <2>1. /\ UNCHANGED invoke
        /\ heard' = heard \/ \E v \in Responses : heard[i] = "running" /\ heard' = [heard EXCEPT ![i] = v]
    BY <1>3 DEF BrowserAnswers, Sends, invokeVars
  <2>2. "running" \notin Responses
    BY DEF Responses
  <2> QED
    BY <1>0, <2>1, <2>2 DEF OnwardI, RestType
<1>4. CASE BrowserReads
  <2>1. invoke' = invoke
    BY <1>4, BrowserHead DEF invokeVars
  <2>2. "idle" \notin Responses
    BY DEF Responses
  <2>3. ASSUME NEW i \in Invokes, heard[i] = "idle", heard' = [heard EXCEPT ![i] = "running"]
        PROVE  OnwardI(n)
    BY <1>0, <2>1, <2>2, <2>3 DEF OnwardI, RestType
  <2> QED
    BY <1>1, <1>4, <2>1, <2>3, BrowserHead
<1>5. CASE Read
  BY <1>1, <1>5, ReadHead DEF invokeVars, browserVars
<1>6. CASE Reject \/ Accept \/ WriteBare \/ LoopLocks \/ LoopWrites \/ LoopEnds
  BY <1>1, <1>6 DEF Reject, Accept, WriteBare, LoopLocks, LoopWrites, LoopEnds, invokeVars, browserVars
<1>7. ASSUME NEW r \in Requests, TaskStep(r) \/ BrowserAsks(r) PROVE UNCHANGED <<invoke, heard>>
  BY <1>7 DEF TaskStep, HandlerReturns, LockAnswer, WriteAnswer, BrowserAsks, Sends,
     invokeVars, browserVars
<1>8. CASE BrowserSendsNoise \/ BrowserLeaves \/ UNCHANGED vars
  BY <1>1, <1>8 DEF BrowserSendsNoise, BrowserLeaves, Sends, vars, invokeVars, browserVars
<1> QED
  BY <1>1, <1>2, <1>3, <1>4, <1>5, <1>6, <1>7, <1>8 DEF Next, LoopStep, Browser, Gone

(* What is sent to Go is about a request that the browser has open, or the     *)
(* first, or a further, response to a call that it was sent.                  *)
LEMMA InboxMoves ==
  ASSUME BridgeInv, [Next]_vars
  PROVE  \/ inbox' = inbox /\ UNCHANGED <<link, heard>>
         \/ inbox' = inbox /\ BrowserReads
         \/ inbox' = <<>> /\ link' = "lost"
         \/ Read
         \/ \E m \in InMsgs :
              /\ Sends(m) /\ InStands(m)'
              /\ \/ UNCHANGED heard
                 \/ \E i \in Invokes :
                      /\ Responds(m, i) /\ m.response \in Responses
                      /\ heard[i] = "running" /\ heard' = [heard EXCEPT ![i] = m.response]
<1>0. Parts /\ RestType /\ NothingKept
  BY InvParts DEF Parts
<1>1. CASE UNCHANGED <<inbox, heard, link>>
  BY <1>1
<1>2. CASE Reject \/ BrowserLeaves
  BY <1>0, <1>2 DEF Reject, LoopAt, NothingKept, BrowserLeaves
<1>3. CASE Accept \/ WriteBare \/ LoopLocks \/ LoopWrites \/ LoopEnds
  BY <1>1, <1>3 DEF Accept, WriteBare, LoopLocks, LoopWrites, LoopEnds, browserVars
<1>4. ASSUME NEW i \in Invokes, WriteFails(i)
      PROVE  UNCHANGED <<inbox, heard, link>> \/ (inbox' = <<>> /\ link' = "lost")
  <2>1. heard' = heard
    BY <1>4 DEF WriteFails, browserVars
  <2>2. UNCHANGED <<inbox, link>> \/ (inbox' = <<>> /\ link' = "lost")
    BY <1>4 DEF WriteFails
  <2> QED
    BY <2>1, <2>2
<1>5. ASSUME NEW i \in Invokes, Invoke(i) \/ ContextEnds(i) \/ InvokeStep(i)
      PROVE  UNCHANGED <<inbox, heard, link>> \/ WriteFails(i)
  BY <1>5 DEF Invoke, ContextEnds, InvokeStep, LockInvoke, WriteInvoke, TakeResponse,
     WaitEnds, browserVars
<1>6. ASSUME NEW r \in Requests, TaskStep(r) PROVE UNCHANGED <<inbox, heard, link>>
  BY <1>6 DEF TaskStep, HandlerReturns, LockAnswer, WriteAnswer, browserVars
<1>7. ASSUME NEW r \in Requests, BrowserAsks(r)
      PROVE  \E m \in InMsgs : Sends(m) /\ InStands(m)' /\ UNCHANGED heard
  <2>1. PICK m \in InMsgs : m = [kind |-> "request", of |-> r]
    BY MsgMembers
  <2>2. m.kind = "request" /\ m.of = r
    BY <2>1
  <2>3. Sends(m) /\ asked' = [asked EXCEPT ![r] = "open"] /\ UNCHANGED heard
    BY <1>7, <2>1 DEF BrowserAsks
  <2>4. InStands(m)'
    BY <1>0, <2>2, <2>3 DEF InStands, RestType
  <2> QED
    BY <2>3, <2>4
<1>8. ASSUME NEW i \in Invokes, BrowserAnswers(i)
      PROVE  \E m \in InMsgs :
               /\ Sends(m) /\ InStands(m)'
               /\ \/ UNCHANGED heard
                  \/ /\ Responds(m, i) /\ m.response \in Responses
                     /\ heard[i] = "running" /\ heard' = [heard EXCEPT ![i] = m.response]
  <2>1. PICK v \in Responses :
          /\ Sends([kind |-> "response", of |-> i, response |-> v])
          /\ heard' = IF heard[i] = "running" THEN [heard EXCEPT ![i] = v] ELSE heard
    BY <1>8 DEF BrowserAnswers
  <2>2. PICK m \in InMsgs : m = [kind |-> "response", of |-> i, response |-> v]
    BY MsgMembers
  <2>3. m.kind = "response" /\ m.of = i /\ m.response = v
    BY <2>2
  <2>4. heard[i] # "idle"
    BY <1>8 DEF BrowserAnswers
  <2>5. heard'[i] \in Responses
    BY <1>0, <2>1, <2>4 DEF RestType
  <2>6. InStands(m)'
    BY <2>3, <2>5 DEF InStands
  <2> QED
    BY <2>1, <2>2, <2>3, <2>6 DEF Responds
<1>9. CASE BrowserSendsNoise
  <2>1. PICK kind \in {"garbled", "neither"} : Sends([kind |-> kind])
    BY <1>9 DEF BrowserSendsNoise
  <2>2. PICK m \in InMsgs : m = [kind |-> kind]
    BY MsgMembers
  <2>3. m.kind \notin {"request", "response"}
    BY <2>2
  <2> QED
    BY <1>9, <2>1, <2>2, <2>3 DEF BrowserSendsNoise, InStands, browserVars
<1>10. CASE BrowserReads
  BY <1>10 DEF BrowserReads
<1>11. CASE UNCHANGED vars
  BY <1>1, <1>11 DEF vars, browserVars
<1> QED
  BY <1>1, <1>2, <1>3, <1>4, <1>5, <1>6, <1>7, <1>8, <1>9, <1>10, <1>11
     DEF Next, LoopStep, Browser, Gone

LEMMA InNext ==
  ASSUME BridgeInv, [Next]_vars, NEW j \in 1..Len(inbox')
  PROVE  InStands(inbox[j])'
<1>0. Box(inbox, InMsgs) /\ \A l \in 1..Len(inbox) : InStands(inbox[l])
  BY InvParts DEF Parts, AllStand
<1>1. ASSUME NEW l \in 1..Len(inbox), inbox'[j] = inbox[l] PROVE InStands(inbox[j])'
  <2>1. PICK w \in InMsgs : w = inbox[l]
    BY <1>0 DEF Box
  <2>2. InStands(w)
    BY <1>0, <2>1
  <2>3. InStands(w)'
    <3>1. w.kind = "request" => OnwardR(w.of)
      BY OnwardRequest, InFields
    <3>2. w.kind = "response" => OnwardI(w.of)
      BY OnwardInvoke, InFields
    <3> QED
      BY <2>2, <3>1, <3>2 DEF InStands, OnwardR, OnwardI
  <2> QED
    BY <1>1, <2>1, <2>3 DEF InStands
<1>2. CASE inbox' = inbox
  BY <1>1, <1>2
<1>3. CASE inbox' = <<>>
  BY <1>3, Emptied
<1>4. CASE Read
  BY <1>0, <1>1, <1>4, ReadHead, Taken
<1>5. ASSUME NEW m \in InMsgs, Sends(m), InStands(m)' PROVE InStands(inbox[j])'
  <2>1. Len(inbox) < Window /\ inbox' = Append(inbox, m)
    BY <1>0, <1>5, Sent
  <2>2. Len(inbox') = Len(inbox) + 1 /\ inbox'[j] = IF j = Len(inbox) + 1 THEN m ELSE inbox[j]
    BY <1>0, <2>1, Appended
  <2>3. CASE j = Len(inbox) + 1
    BY <1>5, <2>2, <2>3 DEF InStands
  <2>4. CASE j # Len(inbox) + 1
    BY <1>0, <1>1, <2>2, <2>4 DEF Box
  <2> QED
    BY <2>3, <2>4
<1> QED
  BY <1>2, <1>3, <1>4, <1>5, InboxMoves

(* What is sent to the browser has not been sent before.                      *)
LEMMA OutboxMoves ==
  ASSUME BridgeInv, [Next]_vars
  PROVE  \/ outbox' = outbox \/ outbox' = <<>> \/ BrowserReads
         \/ \E m \in OutMsgs :
              /\ Len(outbox) < Window /\ outbox' = Append(outbox, m) /\ OutStands(m)'
              /\ ~BrowserReads
              /\ \A j \in 1..Len(outbox) : ~SameMatter(outbox[j], m)
<1> DEFINE Puts(m) == /\ Len(outbox) < Window /\ outbox' = Append(outbox, m)
                      /\ OutStands(m)' /\ ~BrowserReads
                      /\ \A j \in 1..Len(outbox) : ~SameMatter(outbox[j], m)
<1>0. Parts /\ RestType /\ Box(outbox, OutMsgs) /\ \A j \in 1..Len(outbox) : OutStands(outbox[j])
  BY InvParts DEF Parts, AllStand
<1>1. ASSUME NEW m \in OutMsgs, Write(m) PROVE outbox' = outbox \/ (Len(outbox) < Window /\ outbox' = Append(outbox, m))
  BY <1>0, <1>1, Written
<1>2. \A m \in OutMsgs : outbox' = Append(outbox, m) => ~BrowserReads
  <2> SUFFICES ASSUME NEW m \in OutMsgs, outbox' = Append(outbox, m), BrowserReads PROVE FALSE
    OBVIOUS
  <2>1. outbox # <<>> /\ outbox' = Tail(outbox)
    BY BrowserHead
  <2>2. Len(Tail(outbox)) = Len(outbox) - 1 /\ Len(outbox) \in Nat /\ outbox \in Seq(OutMsgs)
    BY <1>0, <2>1, Taken DEF Box
  <2>3. Len(Append(outbox, m)) = Len(outbox) + 1
    BY <2>2
  <2> QED
    BY <2>1, <2>2, <2>3
<1>3. ASSUME Write([kind |-> "refusal"])
      PROVE  outbox' = outbox \/ \E m \in OutMsgs : Puts(m)
  <2>1. PICK m \in OutMsgs : m = [kind |-> "refusal"]
    BY MsgMembers
  <2>2. m.kind = "refusal"
    BY <2>1
  <2>3. OutStands(m)' /\ \A j \in 1..Len(outbox) : ~SameMatter(outbox[j], m)
    BY <2>2 DEF OutStands, SameMatter
  <2> QED
    BY <1>1, <1>2, <1>3, <2>1, <2>3
<1>4. ASSUME NEW r \in Requests, NEW from \in {"loop", "write"}, TaskAt(r, from, "ended"),
             Write([kind |-> "answer", of |-> r, answer |-> answer[r]]), UNCHANGED <<answer, shape>>
      PROVE  outbox' = outbox \/ \E m \in OutMsgs : Puts(m)
  <2>1. RequestFits(r) /\ task[r] = from /\ task'[r] = "ended"
    BY <1>0, <1>4 DEF Parts, TaskAt, RestType
  <2>2. shape[r].id /\ answer[r] \in Answers \cup NoResponse
    BY <2>1 DEF RequestFits
  <2>3. PICK m \in OutMsgs : m = [kind |-> "answer", of |-> r, answer |-> answer[r]]
    BY <2>2, MsgMembers
  <2>4. m.kind = "answer" /\ m.of = r /\ m.answer = answer[r]
    BY <2>3
  <2>5. OutStands(m)'
    BY <1>4, <2>1, <2>2, <2>4 DEF OutStands
  <2>6. \A j \in 1..Len(outbox) : ~SameMatter(outbox[j], m)
    BY <1>0, <2>1, <2>4 DEF OutStands, SameMatter
  <2> QED
    BY <1>1, <1>2, <1>4, <2>3, <2>5, <2>6
<1>5. ASSUME NEW i \in Invokes, WriteInvoke(i)
      PROVE  outbox' = outbox \/ \E m \in OutMsgs : Puts(m)
  <2>1. PICK m \in OutMsgs : m = [kind |-> "request", of |-> i]
    BY MsgMembers
  <2>2. m.kind = "request" /\ m.of = i
    BY <2>1
  <2>3. InvokeFits(i) /\ invoke[i] = "write" /\ invoke'[i] = "wait" /\ heard' = heard
    BY <1>0, <1>5 DEF Parts, WriteInvoke, InvokeAt, RestType, browserVars
  <2>4. OutStands(m)'
    BY <2>2, <2>3 DEF OutStands, InvokeFits
  <2>5. \A j \in 1..Len(outbox) : ~SameMatter(outbox[j], m)
    BY <1>0, <2>2, <2>3 DEF OutStands, SameMatter
  <2>6. Write(m)
    BY <1>5, <2>1 DEF WriteInvoke
  <2> QED
    BY <1>1, <1>2, <2>4, <2>5, <2>6
<1>6. CASE LoopWrites
  <2>1. CASE Refused = {}
    BY <1>3, <1>6, <2>1 DEF LoopWrites
  <2>2. CASE Refused # {}
    <3>1. PICK r \in Refused : /\ TaskAt(r, "loop", "ended")
                               /\ Write([kind |-> "answer", of |-> r, answer |-> answer[r]])
      BY <1>6, <2>2 DEF LoopWrites
    <3>2. r \in Requests /\ UNCHANGED <<answer, shape>>
      BY <1>6 DEF LoopWrites, Refused, browserVars
    <3> QED
      BY <1>4, <3>1, <3>2
  <2> QED
    BY <2>1, <2>2
<1>7. CASE WriteBare
  BY <1>3, <1>7 DEF WriteBare
<1>8. ASSUME NEW r \in Requests, WriteAnswer(r) PROVE outbox' = outbox \/ \E m \in OutMsgs : Puts(m)
  BY <1>4, <1>8 DEF WriteAnswer, browserVars
<1>9. ASSUME NEW i \in Invokes, WriteFails(i) PROVE outbox' = outbox \/ outbox' = <<>>
  BY <1>9 DEF WriteFails
<1>10. ASSUME NEW i \in Invokes, Invoke(i) \/ ContextEnds(i) \/ InvokeStep(i) \/ BrowserAnswers(i)
       PROVE  outbox' = outbox \/ WriteFails(i) \/ WriteInvoke(i)
  BY <1>10 DEF Invoke, ContextEnds, InvokeStep, LockInvoke, TakeResponse, WaitEnds,
     BrowserAnswers, Sends
<1>11. ASSUME NEW r \in Requests, TaskStep(r) \/ BrowserAsks(r)
       PROVE  outbox' = outbox \/ WriteAnswer(r)
  BY <1>11 DEF TaskStep, HandlerReturns, LockAnswer, BrowserAsks, Sends
<1>12. CASE Reject \/ Accept \/ Read \/ LoopLocks \/ LoopEnds
  BY <1>12 DEF Reject, Accept, Read, LoopLocks, LoopEnds
<1>13. CASE BrowserSendsNoise \/ BrowserLeaves \/ UNCHANGED vars
  BY <1>13 DEF BrowserSendsNoise, BrowserLeaves, Sends, vars
<1> DEFINE Moves == outbox' = outbox \/ outbox' = <<>> \/ BrowserReads \/ \E m \in OutMsgs : Puts(m)
<1>14. ASSUME NEW i \in Invokes, Invoke(i) \/ ContextEnds(i) \/ InvokeStep(i) \/ BrowserAnswers(i)
       PROVE  Moves
  BY <1>5, <1>9, <1>10, <1>14
<1>15. ASSUME NEW r \in Requests, TaskStep(r) \/ BrowserAsks(r) PROVE Moves
  BY <1>8, <1>11, <1>15
<1>16. CASE LoopStep
  BY <1>6, <1>7, <1>12, <1>16 DEF LoopStep
<1>17. CASE Gone \/ UNCHANGED vars \/ BrowserSendsNoise \/ BrowserLeaves \/ BrowserReads
  BY <1>13, <1>17 DEF Gone
<1>18. Moves
  <2>1. CASE Browser
    BY <1>14, <1>15, <1>17, <2>1 DEF Browser
  <2>2. CASE ~Browser
    BY <1>14, <1>15, <1>16, <1>17, <2>2 DEF Next
  <2> QED
    BY <2>1, <2>2
<1> QED
  BY <1>18

LEMMA OutNext ==
  ASSUME BridgeInv, [Next]_vars, NEW j \in 1..Len(outbox')
  PROVE  OutStands(outbox[j])'
<1>0. /\ Parts /\ RestType /\ Box(outbox, OutMsgs) /\ OutOnce
      /\ \A l \in 1..Len(outbox) : OutStands(outbox[l])
  BY InvParts DEF Parts, AllStand
<1>1. ASSUME NEW l \in 1..Len(outbox), outbox'[j] = outbox[l], BrowserReads => l # 1
      PROVE  OutStands(outbox[j])'
  <2>1. PICK w \in OutMsgs : w = outbox[l]
    BY <1>0 DEF Box
  <2>2. OutStands(w)
    BY <1>0, <2>1
  <2>3. CASE w.kind = "answer"
    <3>1. OnwardR(w.of) /\ RequestFits(w.of)
      BY <1>0, <2>3, OnwardRequest, OutFields DEF Parts
    <3> QED
      BY <1>1, <2>1, <2>2, <2>3, <3>1 DEF OutStands, OnwardR, RequestFits
  <2>4. CASE w.kind = "request"
    <3>1. w.of \in Invokes
      BY <2>4, OutFields
    <3>2. OnwardI(w.of) /\ (heard'[w.of] = heard[w.of] \/ heard[w.of] = "running" \/ BrowserReads)
      BY <3>1, OnwardInvoke
    <3>3. heard'[w.of] = "idle"
      <4>1. CASE ~BrowserReads
        BY <2>2, <2>4, <3>2, <4>1 DEF OutStands
      <4>2. CASE BrowserReads
        <5>1. 1 \in 1..Len(outbox)
          BY <1>0, <4>2, Taken, BrowserHead
        <5>2. ~SameMatter(outbox[1], w)
          BY <1>0, <1>1, <2>1, <4>2, <5>1 DEF OutOnce
        <5>3. CASE heard' = heard
          BY <2>2, <2>4, <5>3 DEF OutStands
        <5>4. ASSUME NEW i \in Invokes, outbox[1].kind = "request", outbox[1].of = i,
                     heard' = [heard EXCEPT ![i] = "running"]
              PROVE  heard'[w.of] = "idle"
          <6>1. w.of # i
            BY <2>4, <5>2, <5>4 DEF SameMatter
          <6> QED
            BY <1>0, <2>2, <2>4, <3>1, <5>4, <6>1 DEF OutStands, RestType
        <5> QED
          BY <4>2, <5>3, <5>4, BrowserHead
      <4> QED
        BY <4>1, <4>2
    <3> QED
      BY <1>1, <2>1, <2>2, <2>4, <3>2, <3>3 DEF OutStands, OnwardI
  <2>5. CASE w.kind \notin {"request", "answer"}
    BY <1>1, <2>1, <2>5 DEF OutStands
  <2> QED
    BY <2>3, <2>4, <2>5
<1>2. CASE BrowserReads
  <2>1. j + 1 \in 1..Len(outbox) /\ outbox'[j] = outbox[j + 1] /\ j + 1 # 1
    BY <1>0, <1>2, BrowserHead, Taken
  <2> QED
    BY <1>1, <2>1
<1>3. CASE outbox' = outbox /\ ~BrowserReads
  BY <1>1, <1>3
<1>4. CASE outbox' = <<>>
  BY <1>4, Emptied
<1>5. ASSUME NEW m \in OutMsgs, Len(outbox) < Window, outbox' = Append(outbox, m), OutStands(m)',
             ~BrowserReads
      PROVE  OutStands(outbox[j])'
  <2>1. Len(outbox') = Len(outbox) + 1 /\ outbox'[j] = IF j = Len(outbox) + 1 THEN m ELSE outbox[j]
    BY <1>0, <1>5, Appended
  <2>2. CASE j = Len(outbox) + 1
    BY <1>5, <2>1, <2>2 DEF OutStands
  <2>3. CASE j # Len(outbox) + 1
    BY <1>0, <1>1, <1>5, <2>1, <2>3 DEF Box
  <2> QED
    BY <2>2, <2>3
<1> QED
  BY <1>2, <1>3, <1>4, <1>5, OutboxMoves

LEMMA OnceNext ==
  ASSUME BridgeInv, [Next]_vars
  PROVE  OutOnce'
<1> SUFFICES ASSUME NEW j \in 1..Len(outbox'), NEW l \in 1..Len(outbox'),
                    SameMatter(outbox[j], outbox[l])'
             PROVE  j = l
  BY DEF OutOnce
<1>0. Box(outbox, OutMsgs) /\ \A x, y \in 1..Len(outbox) : SameMatter(outbox[x], outbox[y]) => x = y
  BY InvParts DEF Parts, OutOnce
<1>1. SameMatter(outbox'[j], outbox'[l])
  BY DEF SameMatter
<1>2. CASE BrowserReads
  <2>1. /\ j + 1 \in 1..Len(outbox) /\ outbox'[j] = outbox[j + 1]
        /\ l + 1 \in 1..Len(outbox) /\ outbox'[l] = outbox[l + 1]
    BY <1>0, <1>2, BrowserHead, Taken
  <2> QED
    BY <1>0, <1>1, <2>1
<1>3. CASE outbox' = outbox
  BY <1>0, <1>1, <1>3
<1>4. CASE outbox' = <<>>
  BY <1>4, Emptied
<1>5. ASSUME NEW m \in OutMsgs, Len(outbox) < Window, outbox' = Append(outbox, m),
             \A x \in 1..Len(outbox) : ~SameMatter(outbox[x], m)
      PROVE  j = l
  <2>1. /\ Len(outbox') = Len(outbox) + 1
        /\ outbox'[j] = IF j = Len(outbox) + 1 THEN m ELSE outbox[j]
        /\ outbox'[l] = IF l = Len(outbox) + 1 THEN m ELSE outbox[l]
    BY <1>0, <1>5, Appended
  <2>2. /\ j # Len(outbox) + 1 => j \in 1..Len(outbox)
        /\ l # Len(outbox) + 1 => l \in 1..Len(outbox)
    BY <1>0, <2>1 DEF Box
  <2> QED
    BY <1>0, <1>1, <1>5, <2>1, <2>2 DEF SameMatter
<1> QED
  BY <1>2, <1>3, <1>4, <1>5, OutboxMoves

LEMMA NothingKeptNext ==
  ASSUME BridgeInv, [Next]_vars
  PROVE  NothingKept'
<1>0. Parts /\ RestType /\ NothingKept
  BY InvParts DEF Parts
<1>1. ASSUME loop' = "accept" PROVE loop = "accept" /\ ~Read
  <2>1. ~LoopStep
    <3>1. ~Read
      <4> SUFFICES ASSUME Read PROVE FALSE
        OBVIOUS
      <4>1. ASSUME NEW r \in Requests, TakeRequest(r) PROVE FALSE
        <5>1. loop = "read"
          BY DEF Read, Reads
        <5> QED
          BY <1>0, <1>1, <4>1, <5>1, TakeRequestType
      <4>2. CASE inbox[1].kind = "response"
        BY <1>1, <4>2, ReadHead DEF Read, Reads
      <4>3. CASE inbox[1].kind \notin {"request", "response"}
        <5>1. Head(inbox) = inbox[1]
          BY <1>0, ReadHead, Taken DEF Parts
        <5> QED
          BY <1>1, <4>3, <5>1 DEF Read
      <4> QED
        BY <4>1, <4>2, <4>3, ReadHead
    <3> QED
      BY <1>1, <3>1 DEF LoopStep, Reject, Accept, WriteBare, LoopLocks, LoopWrites, LoopEnds, LoopAt
  <2>2. ASSUME NEW i \in Invokes, Invoke(i) \/ ContextEnds(i) \/ InvokeStep(i) \/ BrowserAnswers(i)
        PROVE  loop' = loop
    BY <2>2 DEF Invoke, ContextEnds, InvokeStep, LockInvoke, WriteInvoke, WriteFails, TakeResponse,
       WaitEnds, BrowserAnswers, Sends
  <2>3. ASSUME NEW r \in Requests, TaskStep(r) \/ BrowserAsks(r) PROVE loop' = loop
    BY <2>3 DEF TaskStep, HandlerReturns, LockAnswer, WriteAnswer, BrowserAsks, Sends
  <2>4. CASE BrowserSendsNoise \/ BrowserReads \/ BrowserLeaves \/ UNCHANGED vars
    BY <1>1, <2>4 DEF BrowserSendsNoise, BrowserReads, BrowserLeaves, Sends, vars, LoopStep, Read,
       Reads, Reject, Accept, LoopAt
  <2> QED
    BY <1>1, <2>1, <2>2, <2>3, <2>4 DEF Next, Browser, Gone, LoopStep
<1>2. CASE inbox' = <<>>
  BY <1>2 DEF NothingKept
<1>3. CASE inbox' = inbox /\ UNCHANGED <<link, heard>>
  BY <1>0, <1>1, <1>3 DEF NothingKept
<1>4. CASE inbox' = inbox /\ BrowserReads
  <2>1. link' = link
    BY <1>4 DEF BrowserReads
  <2> QED
    BY <1>0, <1>1, <1>4, <2>1 DEF NothingKept
<1>5. CASE Read
  BY <1>1, <1>5, ReadHead DEF NothingKept
<1>6. ASSUME NEW m \in InMsgs, Sends(m) PROVE NothingKept'
  BY <1>1, <1>6 DEF Sends, NothingKept
<1> QED
  BY <1>2, <1>3, <1>4, <1>5, <1>6, InboxMoves

(* Nothing is undone: no call starts anew, no channel is emptied, and no       *)
(* connection comes back.                                                     *)
LEMMA NothingUndone ==
  ASSUME BridgeInv, [Next]_vars, NEW n \in Invokes
  PROVE  /\ invoke[n] = "done" => invoke'[n] = "done"
         /\ ch[n] # None => ch'[n] # None
         /\ link = "lost" => link' = "lost"
<1> DEFINE Kept == /\ invoke[n] = "done" => invoke'[n] = "done"
                   /\ ch[n] # None => ch'[n] # None
                   /\ link = "lost" => link' = "lost"
<1>0. RestType
  BY InvParts DEF Parts
<1>1. ASSUME NEW i \in Invokes, Invoke(i) \/ ContextEnds(i) \/ InvokeStep(i) PROVE Kept
  <2>1. \/ link' = link
        \/ link' = "lost"
    BY <1>1 DEF Invoke, ContextEnds, InvokeStep, LockInvoke, WriteInvoke, WriteFails,
       TakeResponse, WaitEnds
  <2>2. ch' = ch
    BY <1>1 DEF Invoke, ContextEnds, InvokeStep, LockInvoke, WriteInvoke, WriteFails,
       TakeResponse, WaitEnds
  <2>3. invoke[n] = "done" => invoke'[n] = "done"
    BY <1>0, <1>1 DEF Invoke, ContextEnds, InvokeStep, LockInvoke, WriteInvoke, WriteFails,
       TakeResponse, WaitEnds, Fails, InvokeAt, RestType
  <2> QED
    BY <2>1, <2>2, <2>3
<1>2. CASE Read
  <2>1. ASSUME NEW i \in Invokes, NEW v \in Responses, handleResponse(i, v)
        PROVE  ch[n] # None => ch'[n] # None
    BY <1>0, <2>1 DEF handleResponse, RestType
  <2>2. ch[n] # None => ch'[n] # None
    BY <1>2, <2>1, ReadHead DEF invokeVars
  <2> QED
    BY <1>2, <2>2, ReadHead DEF invokeVars
<1>3. ASSUME NEW r \in Requests, TaskStep(r) \/ BrowserAsks(r) PROVE Kept
  BY <1>3 DEF TaskStep, HandlerReturns, LockAnswer, WriteAnswer, BrowserAsks, Sends, invokeVars
<1>4. ASSUME NEW i \in Invokes, BrowserAnswers(i) PROVE Kept
  BY <1>4 DEF BrowserAnswers, Sends, invokeVars
<1>5. CASE Reject \/ Accept \/ WriteBare \/ LoopLocks \/ LoopWrites \/ LoopEnds
  BY <1>5 DEF Reject, Accept, WriteBare, LoopLocks, LoopWrites, LoopEnds, invokeVars
<1>6. CASE BrowserSendsNoise \/ BrowserReads \/ BrowserLeaves \/ UNCHANGED vars
  BY <1>6 DEF BrowserSendsNoise, BrowserReads, BrowserLeaves, Sends, vars, invokeVars
<1> QED
  BY <1>1, <1>2, <1>3, <1>4, <1>5, <1>6 DEF Next, LoopStep, Browser, Gone

(* The first response stays the first until it is read, and read it is taken.  *)
LEMMA FirstNext ==
  ASSUME BridgeInv, [Next]_vars, NEW i \in Invokes
  PROVE  FirstCounts(i)'
<1> DEFINE First(j) == /\ Responds(inbox'[j], i) /\ inbox'[j].response = heard'[i]
                       /\ \A l \in 1..Len(inbox') : l < j => ~Responds(inbox'[l], i)
<1> SUFFICES ASSUME invoke'[i] = "wait", ch'[i] = None, link' = "up", heard'[i] \in Responses
             PROVE  \E j \in 1..Len(inbox') : First(j)
  BY DEF FirstCounts, Responds
<1>0. /\ Parts /\ RestType /\ Box(inbox, InMsgs) /\ InvokeFits(i) /\ FirstCounts(i) /\ OnwardI(i)
      /\ \A l \in 1..Len(inbox) : InStands(inbox[l])
  BY InvParts, OnwardInvoke DEF Parts, AllStand
<1>1. invoke[i] # "done" /\ ch[i] = None /\ link = "up"
  BY <1>0, NothingUndone DEF RestType
<1>2. ~(inbox' = <<>> /\ link' = "lost")
  OBVIOUS
<1>3. CASE heard[i] \in Responses
  <2>1. heard'[i] = heard[i] /\ heard[i] # "idle" /\ heard[i] # "running"
    BY <1>0, <1>3 DEF OnwardI, Responses
  <2>2. invoke[i] = "wait"
    BY <1>0, <1>1, <2>1 DEF InvokeFits, RestType
  <2>3. PICK j \in 1..Len(inbox) :
          /\ Responds(inbox[j], i) /\ inbox[j].response = heard[i]
          /\ \A l \in 1..Len(inbox) : l < j => ~Responds(inbox[l], i)
    BY <1>0, <1>1, <1>3, <2>2 DEF FirstCounts
  <2>4. CASE inbox' = inbox
    BY <2>1, <2>3, <2>4
  <2>5. CASE Read
    <3>1. /\ inbox # <<>> /\ inbox' = Tail(inbox) /\ Len(inbox') = Len(inbox) - 1
          /\ \A l \in 1..Len(inbox') : l + 1 \in 1..Len(inbox) /\ inbox'[l] = inbox[l + 1]
      BY <1>0, <2>5, ReadHead, Taken
    <3>2. ~Responds(inbox[1], i)
      <4>1. ASSUME NEW n \in Invokes, NEW v \in Responses, inbox[1].of = n, handleResponse(n, v)
            PROVE  n # i
        BY <1>0, <1>1, <2>2, <4>1 DEF handleResponse, RestType
      <4> QED
        BY <2>5, <4>1, ReadHead DEF Responds
    <3>3. j # 1 /\ j - 1 \in 1..Len(inbox')
      BY <1>0, <2>3, <3>1, <3>2 DEF Box
    <3>4. First(j - 1)
      BY <2>1, <2>3, <3>1, <3>3
    <3> HIDE DEF First
    <3> QED
      BY <3>3, <3>4
  <2>6. ASSUME NEW m \in InMsgs, Sends(m) PROVE \E k \in 1..Len(inbox') : First(k)
    <3>1. Len(inbox) < Window /\ inbox' = Append(inbox, m)
      BY <1>0, <2>6, Sent
    <3>2. /\ Len(inbox') = Len(inbox) + 1 /\ j \in 1..Len(inbox')
          /\ \A l \in 1..Len(inbox) : inbox'[l] = inbox[l]
      BY <1>0, <3>1, Appended DEF Box
    <3>3. \A l \in 1..Len(inbox') : l < j => l \in 1..Len(inbox)
      BY <1>0, <3>2 DEF Box
    <3>4. First(j)
      BY <2>1, <2>3, <3>2, <3>3
    <3> HIDE DEF First
    <3> QED
      BY <3>2, <3>4
  <2> QED
    BY <1>2, <2>4, <2>5, <2>6, InboxMoves
<1>4. CASE heard[i] \notin Responses
  <2>1. heard'[i] # heard[i]
    BY <1>4
  <2>2. ~BrowserReads
    <3>1. ASSUME NEW n \in Invokes, heard' = [heard EXCEPT ![n] = "running"] PROVE FALSE
      BY <1>0, <2>1, <3>1 DEF RestType, Responses
    <3> QED
      BY <2>1, <3>1, BrowserHead
  <2>3. ~Read
    BY <2>1, ReadHead DEF browserVars
  <2>4. PICK m \in InMsgs :
          /\ Sends(m)
          /\ \/ UNCHANGED heard
             \/ \E n \in Invokes :
                  /\ Responds(m, n) /\ m.response \in Responses
                  /\ heard[n] = "running" /\ heard' = [heard EXCEPT ![n] = m.response]
    BY <1>2, <2>1, <2>2, <2>3, InboxMoves
  <2>5. Responds(m, i) /\ heard'[i] = m.response
    BY <1>0, <2>1, <2>4 DEF RestType
  <2>6. Len(inbox) < Window /\ inbox' = Append(inbox, m)
    BY <1>0, <2>4, Sent
  <2>7. /\ Len(inbox') = Len(inbox) + 1 /\ Len(inbox) \in Nat
        /\ inbox'[Len(inbox) + 1] = m
        /\ \A l \in 1..Len(inbox) : inbox'[l] = inbox[l]
    BY <1>0, <2>6, Appended DEF Box
  <2>8. \A l \in 1..Len(inbox) : ~Responds(inbox[l], i)
    BY <1>0, <1>4 DEF InStands, Responds
  <2>9. Len(inbox) + 1 \in 1..Len(inbox') /\ First(Len(inbox) + 1)
    BY <2>5, <2>7, <2>8
  <2> QED
    BY <2>9
<1> QED
  BY <1>3, <1>4

-----------------------------------------------------------------------------
(* The theorems.                                                            *)

LEMMA BridgeInit == Init => BridgeInv
<1> SUFFICES ASSUME Init PROVE BridgeInv
  OBVIOUS
<1>1. 1..Len(inbox) = {} /\ 1..Len(outbox) = {} /\ inbox = <<>>
  BY DEF Init
<1>2. AllStand /\ OutOnce /\ NothingKept
  BY <1>1 DEF AllStand, OutOnce, NothingKept
<1>3. \A r \in Requests : RequestFits(r)
  BY DEF Init, RequestFits
<1>4. \A i \in Invokes : InvokeFits(i) /\ FirstCounts(i)
  BY DEF Init, InvokeFits, FirstCounts
<1> QED
  BY <1>2, <1>3, <1>4, TypeInit DEF BridgeInv

LEMMA BridgeTypeNext ==
  ASSUME BridgeInv, [Next]_vars
  PROVE  TypeOK'
<1>0. TypeOK /\ \A r \in Requests : RequestFits(r)
  BY DEF BridgeInv
<1>1. \A r \in Refused : answer[r] \in Answers
  BY <1>0 DEF Refused, RequestFits
<1>2. \A r \in Requests : task[r] \in {"lock", "write"} => answer[r] \in Answers \cup NoResponse
  BY <1>0 DEF RequestFits
<1>3. CASE UNCHANGED vars
  BY <1>0, <1>3 DEF vars, invokeVars, browserVars, taskVars, TypeOK
<1> QED
  BY <1>0, <1>1, <1>2, <1>3, LoopType, TaskType, InvokeType, BrowserType DEF Next, Gone

(* The inductive invariant: what each message on its way stands for, that none *)
(* is sent twice, and that the response the browser came to first is the first *)
(* to be read (HandleWebSocket, Invoke, handleRequest, handleResponse).       *)
THEOREM BridgeCorrect == Spec => []BridgeInv
<1>1. BridgeInv /\ [Next]_vars => BridgeInv'
  <2> SUFFICES ASSUME BridgeInv, [Next]_vars PROVE BridgeInv'
    OBVIOUS
  <2>1. AllStand'
    BY InNext, OutNext DEF AllStand
  <2>2. TypeOK' /\ OutOnce' /\ NothingKept'
    BY BridgeTypeNext, OnceNext, NothingKeptNext
  <2>3. (\A r \in Requests : RequestFits(r))'
    BY RequestsFit
  <2>4. (\A i \in Invokes : InvokeFits(i) /\ FirstCounts(i))'
    BY InvokesFit, FirstNext
  <2> QED
    BY <2>1, <2>2, <2>3, <2>4 DEF BridgeInv
<1> QED
  BY <1>1, BridgeInit, PTL DEF Spec

(* Every variable keeps its type, and neither direction holds more than fits:  *)
(* every Write of the bridge waits for room.                                  *)
THEOREM BridgeTypeCorrect == Spec => []TypeOK
<1>1. BridgeInv => TypeOK
  BY DEF BridgeInv
<1> QED
  BY <1>1, BridgeCorrect, PTL

(* What the bridge sends as an answer answers a request with an id, and each   *)
(* such request at most once (sendWSResult, sendWSError, handleRequest).      *)
THEOREM AnswersCorrect == Spec => []AnswersAreForRequests
<1>1. BridgeInv => AnswersAreForRequests
  <2> SUFFICES ASSUME BridgeInv, NEW j \in DOMAIN outbox, outbox[j].kind = "answer"
               PROVE  /\ shape[outbox[j].of].id /\ task[outbox[j].of] = "ended"
                      /\ \A l \in DOMAIN outbox :
                           outbox[l].kind = "answer" /\ outbox[l].of = outbox[j].of => l = j
    BY DEF AnswersAreForRequests
  <2>1. Parts /\ DOMAIN outbox = 1..Len(outbox)
    BY InvParts DEF Parts, Box
  <2>2. OutStands(outbox[j])
    BY <2>1 DEF Parts, AllStand
  <2> QED
    BY <2>1, <2>2 DEF Parts, OutOnce, OutStands, SameMatter
<1> QED
  BY <1>1, BridgeCorrect, PTL

-----------------------------------------------------------------------------
(* The refinement.                                                          *)

Keys == Requests \cup Invokes
CallerOf == [k \in Keys |-> CallerState(k)]
CalleeOf == [k \in Keys |-> CalleeState(k)]

LEMMA CallerMoves ==
  ASSUME NEW k \in Keys, NEW from, NEW to, CallerState(k) = from, CallerState(k)' = to,
         \A n \in Keys \ {k} : CallerState(n)' = CallerState(n)
  PROVE  CallerOf[k] = from /\ CallerOf' = [CallerOf EXCEPT ![k] = to]
BY DEF CallerOf

LEMMA CalleeMoves ==
  ASSUME NEW k \in Keys, NEW from, NEW to, CalleeState(k) = from, CalleeState(k)' = to,
         \A n \in Keys \ {k} : CalleeState(n)' = CalleeState(n)
  PROVE  CalleeOf[k] = from /\ CalleeOf' = [CalleeOf EXCEPT ![k] = to]
BY DEF CalleeOf

LEMMA CallerStands == UNCHANGED <<asked, invoke, outcome>> => CallerOf' = CallerOf
BY DEF CallerOf, CallerState

LEMMA CalleeStands == UNCHANGED <<heard, task, answer>> => CalleeOf' = CalleeOf
BY DEF CalleeOf, CalleeState

(* A request is made, and gets its answer.                                    *)
LEMMA AskedMoves ==
  ASSUME RestType, NEW r \in Requests, NEW to, asked' = [asked EXCEPT ![r] = to],
         UNCHANGED <<invoke, outcome>>
  PROVE  CallerOf[r] = asked[r] /\ CallerOf' = [CallerOf EXCEPT ![r] = to]
<1>1. r \in Keys /\ asked'[r] = to /\ \A n \in Requests \ {r} : asked'[n] = asked[n]
  BY DEF RestType, Keys
<1>2. CallerState(r) = asked[r] /\ CallerState(r)' = to
  BY <1>1 DEF CallerState
<1>3. \A n \in Keys \ {r} : CallerState(n)' = CallerState(n)
  BY <1>1 DEF CallerState, Keys
<1> QED
  BY <1>1, <1>2, <1>3, CallerMoves

(* The browser takes a call up, and answers it.                               *)
LEMMA HeardMoves ==
  ASSUME RestType, NEW i \in Invokes, NEW to, heard' = [heard EXCEPT ![i] = to],
         UNCHANGED <<task, answer>>
  PROVE  CalleeOf[i] = heard[i] /\ CalleeOf' = [CalleeOf EXCEPT ![i] = to]
<1>1. i \in Keys /\ heard'[i] = to /\ \A n \in Invokes \ {i} : heard'[n] = heard[n]
  BY DEF RestType, Keys
<1>2. CalleeState(i) = heard[i] /\ CalleeState(i)' = to
  BY <1>1 DEF CalleeState
<1>3. \A n \in Keys \ {i} : CalleeState(n)' = CalleeState(n)
  BY <1>1 DEF CalleeState, Keys
<1> QED
  BY <1>1, <1>2, <1>3, CalleeMoves

(* An Invoke asks, or returns.                                                *)
LEMMA InvokeMoves ==
  ASSUME RestType, NEW i \in Invokes, NEW from, NEW to,
         CallerState(i) = from, CallerState(i)' = to, UNCHANGED asked,
         \A n \in Invokes \ {i} : invoke'[n] = invoke[n] /\ outcome'[n] = outcome[n]
  PROVE  CallerOf[i] = from /\ CallerOf' = [CallerOf EXCEPT ![i] = to]
<1>1. i \in Keys
  BY DEF Keys
<1>2. \A n \in Keys \ {i} : CallerState(n)' = CallerState(n)
  BY DEF CallerState, Keys
<1> QED
  BY <1>1, <1>2, CallerMoves

(* The goroutine of a request takes it up, or comes to an answer.              *)
LEMMA TaskMoves ==
  ASSUME RestType, NEW r \in Requests, NEW from, NEW to,
         CalleeState(r) = from, CalleeState(r)' = to, UNCHANGED heard,
         \A n \in Requests \ {r} : task'[n] = task[n] /\ answer'[n] = answer[n]
  PROVE  CalleeOf[r] = from /\ CalleeOf' = [CalleeOf EXCEPT ![r] = to]
<1>1. r \in Keys
  BY DEF Keys
<1>2. \A n \in Keys \ {r} : CalleeState(n)' = CalleeState(n)
  BY DEF CalleeState, Keys
<1> QED
  BY <1>1, <1>2, CalleeMoves

LEMMA InvokeRefines ==
  ASSUME BridgeInv, NEW i \in Invokes, Invoke(i) \/ ContextEnds(i) \/ InvokeStep(i)
  PROVE  AsRpc!Ask(i) \/ AsRpc!Answer(i) \/ AsRpc!Fail(i) \/ UNCHANGED <<CallerOf, CalleeOf>>
<1> USE DEF AsRpc!Ask, AsRpc!Answer, AsRpc!Fail, AsRpc!Moves
<1>0. RestType /\ InvokeFits(i) /\ i \notin Requests
  BY InvParts DEF Parts
<1>1. UNCHANGED <<asked, heard, task, answer>> /\ CalleeOf' = CalleeOf
  <2>1. UNCHANGED <<asked, heard, task, answer>>
    BY DEF Invoke, ContextEnds, InvokeStep, LockInvoke, WriteInvoke, WriteFails, TakeResponse,
       WaitEnds, browserVars, taskVars
  <2> QED
    BY <2>1, CalleeStands
<1>2. CASE Invoke(i)
  <2>1. /\ invoke[i] = "idle" /\ invoke'[i] = "lock"
        /\ \A n \in Invokes \ {i} : invoke'[n] = invoke[n] /\ outcome'[n] = outcome[n]
    BY <1>0, <1>2 DEF Invoke, InvokeAt, RestType
  <2>2. CallerState(i) = "idle" /\ CallerState(i)' = "open"
    BY <1>0, <2>1 DEF CallerState
  <2>3. CallerOf[i] = "idle" /\ CallerOf' = [CallerOf EXCEPT ![i] = "open"]
    BY <1>0, <1>1, <2>1, <2>2, InvokeMoves
  <2> QED
    BY <1>1, <2>3 DEF CallerOf, CalleeOf, Keys
<1>3. CASE ContextEnds(i)
  BY <1>1, <1>3, CallerStands DEF ContextEnds
<1>4. CASE LockInvoke(i) \/ WriteInvoke(i)
  <2>1. /\ invoke[i] \in {"lock", "write"} /\ invoke'[i] \in {"write", "wait"}
        /\ \A n \in Invokes \ {i} : invoke'[n] = invoke[n]
        /\ outcome' = outcome
    BY <1>0, <1>4 DEF LockInvoke, WriteInvoke, InvokeAt, RestType
  <2>2. \A n \in Keys : CallerState(n)' = CallerState(n)
    BY <1>0, <1>1, <2>1 DEF CallerState, Keys
  <2>3. CallerOf' = CallerOf
    BY <2>2 DEF CallerOf
  <2> QED
    BY <1>1, <2>3
<1>5. CASE WriteFails(i) \/ WaitEnds(i)
  <2>1. /\ invoke[i] \in {"write", "wait"} /\ invoke'[i] = "done" /\ outcome'[i] = "failed"
        /\ \A n \in Invokes \ {i} : invoke'[n] = invoke[n] /\ outcome'[n] = outcome[n]
    BY <1>0, <1>5 DEF WriteFails, WaitEnds, Fails, InvokeAt, RestType
  <2>2. CallerState(i) = "open" /\ CallerState(i)' = "failed"
    BY <1>0, <2>1 DEF CallerState
  <2>3. CallerOf[i] = "open" /\ CallerOf' = [CallerOf EXCEPT ![i] = "failed"]
    BY <1>0, <1>1, <2>1, <2>2, InvokeMoves
  <2> QED
    BY <1>1, <2>3 DEF CallerOf, CalleeOf, Keys
<1>6. CASE TakeResponse(i)
  <2>1. /\ invoke[i] = "wait" /\ invoke'[i] = "done" /\ outcome'[i] = ch[i]
        /\ \A n \in Invokes \ {i} : invoke'[n] = invoke[n] /\ outcome'[n] = outcome[n]
        /\ ch[i] \in Responses
    BY <1>0, <1>6 DEF TakeResponse, InvokeAt, RestType
  <2>2. PICK v \in Responses : v = ch[i]
    BY <2>1
  <2>3. CallerState(i) = "open" /\ CallerState(i)' = v /\ CalleeState(i) = v
    BY <1>0, <2>1, <2>2 DEF CallerState, CalleeState, InvokeFits
  <2>4. CallerOf[i] = "open" /\ CallerOf' = [CallerOf EXCEPT ![i] = v]
    BY <1>0, <1>1, <2>1, <2>3, InvokeMoves
  <2>5. CalleeOf[i] = v
    BY <2>3 DEF CalleeOf, Keys
  <2> QED
    BY <1>1, <2>4, <2>5 DEF CallerOf, CalleeOf, Keys
<1> QED
  BY <1>2, <1>3, <1>4, <1>5, <1>6 DEF InvokeStep

LEMMA TakeRefines ==
  ASSUME BridgeInv, NEW r \in Requests, TakeRequest(r), asked[r] # "idle", UNCHANGED browserVars
  PROVE  AsRpc!Run(r) \/ AsRpc!Refuse(r)
<1> USE DEF AsRpc!Run, AsRpc!Refuse, AsRpc!Moves
<1>0. RestType /\ r \notin Invokes
  BY InvParts DEF Parts
<1>1. /\ task[r] = "idle" /\ UNCHANGED invokeVars
      /\ \A n \in Requests \ {r} : task'[n] = task[n] /\ answer'[n] = answer[n]
      /\ \/ task'[r] \in {"loop", "lock"} /\ answer'[r] \in Answers
         \/ task'[r] = "handler"
         \/ task'[r] = "ended" /\ answer'[r] = "silent"
  BY <1>0, TakeRequestType
<1>2. UNCHANGED heard /\ CallerOf' = CallerOf /\ CallerOf[r] # "idle"
  BY <1>1, CallerStands DEF browserVars, invokeVars, CallerOf, CallerState, Keys
<1>3. CalleeState(r) = "idle"
  BY <1>0, <1>1 DEF CalleeState
<1>4. CASE task'[r] = "handler"
  <2>1. CalleeState(r)' = "running"
    BY <1>0, <1>4 DEF CalleeState
  <2>2. CalleeOf[r] = "idle" /\ CalleeOf' = [CalleeOf EXCEPT ![r] = "running"]
    BY <1>0, <1>1, <1>2, <1>3, <2>1, TaskMoves
  <2> QED
    BY <1>2, <2>2 DEF CallerOf, CalleeOf, Keys
<1>5. CASE task'[r] # "handler"
  <2>1. PICK a \in Answers \cup {"silent"} : a = answer'[r]
    BY <1>1, <1>5
  <2>2. a \notin NoResponse
    BY DEF Answers, NoResponse
  <2>3. CalleeState(r)' = a
    BY <1>0, <1>1, <1>5, <2>1, <2>2 DEF CalleeState
  <2>4. CalleeOf[r] = "idle" /\ CalleeOf' = [CalleeOf EXCEPT ![r] = a]
    BY <1>0, <1>1, <1>2, <1>3, <2>3, TaskMoves
  <2>5. a \in (Answers \cup Responses) \cup {"silent"}
    OBVIOUS
  <2> QED
    BY <1>2, <2>4, <2>5 DEF CallerOf, CalleeOf, Keys
<1> QED
  BY <1>4, <1>5

LEMMA TaskRefines ==
  ASSUME BridgeInv, NEW r \in Requests, TaskStep(r)
  PROVE  AsRpc!Finish(r) \/ UNCHANGED <<CallerOf, CalleeOf>>
<1> USE DEF AsRpc!Finish, AsRpc!Moves
<1>0. RestType /\ r \notin Invokes
  BY InvParts DEF Parts
<1>1. UNCHANGED heard /\ CallerOf' = CallerOf
  <2>1. UNCHANGED <<heard, asked, invoke, outcome>>
    BY DEF TaskStep, HandlerReturns, LockAnswer, WriteAnswer, browserVars, invokeVars
  <2> QED
    BY <2>1, CallerStands
<1>2. CASE HandlerReturns(r)
  <2>1. PICK a \in Answers \cup NoResponse : AnswersWith(r, "handler", a)
    BY <1>2 DEF HandlerReturns, Answers
  <2>2. /\ task[r] = "handler"
        /\ \A n \in Requests \ {r} : task'[n] = task[n] /\ answer'[n] = answer[n]
        /\ \/ task'[r] = "lock" /\ answer'[r] = a
           \/ task'[r] = "ended" /\ answer'[r] = "silent"
    BY <1>0, <2>1, AnswersType
  <2>3. CalleeState(r) = "running"
    BY <1>0, <2>2 DEF CalleeState
  <2>4. \E v \in (Answers \cup Responses) \cup {"silent"} : CalleeState(r)' = v
    BY <1>0, <2>2 DEF CalleeState
  <2>5. PICK v \in (Answers \cup Responses) \cup {"silent"} : CalleeState(r)' = v
    BY <2>4
  <2>6. CalleeOf[r] = "running" /\ CalleeOf' = [CalleeOf EXCEPT ![r] = v]
    BY <1>0, <1>1, <2>2, <2>3, <2>5, TaskMoves
  <2> QED
    BY <1>1, <2>6 DEF CallerOf, CalleeOf, Keys
<1>3. CASE LockAnswer(r) \/ WriteAnswer(r)
  <2>1. /\ task[r] \in {"lock", "write"} /\ task'[r] \in {"write", "ended"}
        /\ \A n \in Requests \ {r} : task'[n] = task[n]
        /\ answer' = answer
    BY <1>0, <1>3 DEF LockAnswer, WriteAnswer, TaskAt, RestType
  <2>2. \A n \in Keys : CalleeState(n)' = CalleeState(n)
    BY <1>0, <1>1, <2>1 DEF CalleeState, Keys
  <2>3. CalleeOf' = CalleeOf
    BY <2>2 DEF CalleeOf
  <2> QED
    BY <1>1, <2>3
<1> QED
  BY <1>2, <1>3 DEF TaskStep

LEMMA LoopRefines ==
  ASSUME BridgeInv, LoopStep
  PROVE  (\E k \in Keys : AsRpc!Run(k) \/ AsRpc!Refuse(k)) \/ UNCHANGED <<CallerOf, CalleeOf>>
<1>0. RestType
  BY InvParts DEF Parts
<1>1. CASE UNCHANGED <<asked, invoke, outcome, heard, task, answer>>
  BY <1>1, CallerStands, CalleeStands
<1>2. CASE Read
  <2>1. UNCHANGED browserVars
    BY <1>2, ReadHead
  <2>2. ASSUME NEW r \in Requests, TakeRequest(r), asked[r] # "idle"
        PROVE  \E k \in Keys : AsRpc!Run(k) \/ AsRpc!Refuse(k)
    BY <2>1, <2>2, TakeRefines DEF Keys
  <2>3. \/ \E r \in Requests : TakeRequest(r) /\ asked[r] # "idle"
        \/ UNCHANGED <<invoke, outcome, task, answer>>
    BY <1>2, ReadHead DEF taskVars, invokeVars
  <2> QED
    BY <1>1, <2>1, <2>2, <2>3 DEF browserVars
<1>3. CASE LoopWrites
  <2>1. UNCHANGED <<asked, invoke, outcome, heard, answer>>
    BY <1>3 DEF LoopWrites, browserVars, invokeVars
  <2>2. UNCHANGED task \/ \E r \in Requests : TaskAt(r, "loop", "ended")
    BY <1>3 DEF LoopWrites, Refused
  <2>3. ASSUME NEW r \in Requests, TaskAt(r, "loop", "ended")
        PROVE  UNCHANGED <<CallerOf, CalleeOf>>
    <3>1. /\ task[r] = "loop" /\ task'[r] = "ended"
          /\ \A n \in Requests \ {r} : task'[n] = task[n]
      BY <1>0, <2>3 DEF TaskAt, RestType
    <3>2. \A n \in Keys : CalleeState(n)' = CalleeState(n)
      BY <2>1, <3>1 DEF CalleeState, Keys
    <3>3. CalleeOf' = CalleeOf
      BY <3>2 DEF CalleeOf
    <3> QED
      BY <2>1, <3>3, CallerStands
  <2> QED
    BY <1>1, <2>1, <2>2, <2>3
<1>4. CASE Reject \/ Accept \/ WriteBare \/ LoopLocks \/ LoopEnds
  BY <1>1, <1>4
     DEF Reject, Accept, WriteBare, LoopLocks, LoopEnds, browserVars, invokeVars, taskVars
<1> QED
  BY <1>2, <1>3, <1>4 DEF LoopStep

LEMMA BrowserRefines ==
  ASSUME BridgeInv, Browser
  PROVE  \/ \E k \in Keys : AsRpc!Ask(k) \/ AsRpc!Run(k) \/ AsRpc!Finish(k) \/ AsRpc!Answer(k)
         \/ UNCHANGED <<CallerOf, CalleeOf>>
<1> USE DEF AsRpc!Ask, AsRpc!Run, AsRpc!Finish, AsRpc!Answer, AsRpc!Moves
<1>0. RestType
  BY InvParts DEF Parts
<1>1. CASE UNCHANGED <<asked, invoke, outcome, heard, task, answer>>
  BY <1>1, CallerStands, CalleeStands
<1>2. ASSUME NEW r \in Requests, BrowserAsks(r) PROVE AsRpc!Ask(r)
  <2>1. asked[r] = "idle" /\ asked' = [asked EXCEPT ![r] = "open"]
        /\ UNCHANGED <<invoke, outcome, heard, task, answer>>
    BY <1>2 DEF BrowserAsks, Sends, invokeVars, taskVars
  <2>2. CallerOf[r] = "idle" /\ CallerOf' = [CallerOf EXCEPT ![r] = "open"]
    BY <1>0, <2>1, AskedMoves
  <2>3. CalleeOf' = CalleeOf
    BY <2>1, CalleeStands
  <2> QED
    BY <2>2, <2>3 DEF CallerOf, CalleeOf, Keys
<1>3. ASSUME NEW i \in Invokes, BrowserAnswers(i)
      PROVE  AsRpc!Finish(i) \/ UNCHANGED <<CallerOf, CalleeOf>>
  <2>1. UNCHANGED <<asked, invoke, outcome, task, answer>>
    BY <1>3 DEF BrowserAnswers, Sends, invokeVars, taskVars
  <2>2. heard' = heard \/ \E v \in Responses : heard[i] = "running" /\ heard' = [heard EXCEPT ![i] = v]
    BY <1>3 DEF BrowserAnswers
  <2>3. ASSUME NEW v \in Responses, heard[i] = "running", heard' = [heard EXCEPT ![i] = v]
        PROVE  AsRpc!Finish(i)
    <3>1. CalleeOf[i] = "running" /\ CalleeOf' = [CalleeOf EXCEPT ![i] = v]
      BY <1>0, <2>1, <2>3, HeardMoves
    <3>2. CallerOf' = CallerOf
      BY <2>1, CallerStands
    <3> QED
      BY <3>1, <3>2 DEF CallerOf, CalleeOf, Keys
  <2>4. CASE heard' = heard
    BY <2>1, <2>4, CallerStands, CalleeStands
  <2> QED
    BY <2>2, <2>3, <2>4
<1>4. CASE BrowserReads
  <2>1. UNCHANGED <<invoke, outcome, task, answer>>
    BY <1>4, BrowserHead DEF invokeVars, taskVars
  <2>2. ASSUME NEW i \in Invokes, heard[i] = "idle", invoke[i] \in {"wait", "done"}, asked' = asked,
               heard' = [heard EXCEPT ![i] = "running"]
        PROVE  AsRpc!Run(i)
    <3>1. CalleeOf[i] = "idle" /\ CalleeOf' = [CalleeOf EXCEPT ![i] = "running"]
      BY <1>0, <2>1, <2>2, HeardMoves
    <3>2. CallerOf' = CallerOf
      BY <2>1, <2>2, CallerStands
    <3>3. CallerOf[i] # "idle"
      <4>1. InvokeFits(i) /\ outcome[i] \in Responses \cup {"failed", None} /\ i \notin Requests
        BY <1>0, InvParts DEF Parts, RestType
      <4>2. invoke[i] = "done" => outcome[i] # "idle"
        BY <4>1 DEF InvokeFits, Responses
      <4>3. CallerState(i) # "idle"
        BY <2>2, <4>1, <4>2 DEF CallerState
      <4> QED
        BY <4>3 DEF CallerOf, Keys
    <3> QED
      BY <3>1, <3>2, <3>3 DEF CallerOf, CalleeOf, Keys
  <2>3. ASSUME NEW r \in Requests, NEW a \in Answers, answer[r] = a, task[r] = "ended",
               asked[r] = "open", asked' = [asked EXCEPT ![r] = a], heard' = heard
        PROVE  AsRpc!Answer(r)
    <3>1. CallerOf[r] = "open" /\ CallerOf' = [CallerOf EXCEPT ![r] = a]
      BY <1>0, <2>1, <2>3, AskedMoves
    <3>2. CalleeOf' = CalleeOf
      BY <2>1, <2>3, CalleeStands
    <3>3. a \notin NoResponse /\ r \notin Invokes
      BY DEF Answers, NoResponse
    <3>4. CalleeState(r) = a
      BY <2>3, <3>3 DEF CalleeState
    <3>5. CalleeOf[r] = a
      BY <3>4 DEF CalleeOf, Keys
    <3> QED
      BY <3>1, <3>2, <3>5 DEF CallerOf, CalleeOf, Keys
  <2> QED
    BY <1>1, <1>4, <2>1, <2>2, <2>3, BrowserHead DEF Keys
<1>5. CASE BrowserSendsNoise \/ BrowserLeaves
  BY <1>1, <1>5 DEF BrowserSendsNoise, BrowserLeaves, Sends, browserVars, invokeVars, taskVars
<1> QED
  BY <1>2, <1>3, <1>4, <1>5 DEF Browser, Keys

(* However the two directions, the mutex and the goroutines interleave, every  *)
(* Invoke and every request of the browser is one of module Rpc: taken up at   *)
(* most once, and its caller gets what its callee came to first or nothing     *)
(* (Invoke, handleResponse, handleRequest).                                   *)
THEOREM BridgeRefinement == Spec => ImplementsRpc
<1>1. Init => AsRpc!Init
  BY DEF Init, AsRpc!Init, CallerState, CalleeState
<1>2. BridgeInv /\ [Next]_vars => [AsRpc!Next]_<<CallerOf, CalleeOf>>
  <2> SUFFICES ASSUME BridgeInv, [Next]_vars
               PROVE  AsRpc!Next \/ UNCHANGED <<CallerOf, CalleeOf>>
    OBVIOUS
  <2>1. CASE UNCHANGED vars
    <3>1. UNCHANGED <<asked, invoke, outcome, heard, task, answer>>
      BY <2>1 DEF vars, invokeVars, browserVars, taskVars
    <3> QED
      BY <3>1, CallerStands, CalleeStands
  <2>2. ASSUME NEW i \in Invokes, Invoke(i) \/ ContextEnds(i) \/ InvokeStep(i)
        PROVE  AsRpc!Next \/ UNCHANGED <<CallerOf, CalleeOf>>
    BY <2>2, InvokeRefines DEF AsRpc!Next
  <2>3. ASSUME NEW r \in Requests, TaskStep(r)
        PROVE  AsRpc!Next \/ UNCHANGED <<CallerOf, CalleeOf>>
    BY <2>3, TaskRefines DEF AsRpc!Next
  <2>4. CASE LoopStep \/ Browser
    BY <2>4, LoopRefines, BrowserRefines DEF AsRpc!Next, Keys
  <2> QED
    BY <2>1, <2>2, <2>3, <2>4 DEF Next, Gone
<1>3. BridgeInv /\ [Next]_vars => [AsRpc!Next]_(AsRpc!rpcVars)
  BY <1>2 DEF AsRpc!rpcVars, CallerOf, CalleeOf, Keys
<1> QED
  BY <1>1, <1>3, BridgeCorrect, PTL DEF Spec, ImplementsRpc, AsRpc!Spec

-----------------------------------------------------------------------------
(* What Rpc promises, for the calls of this connection.                      *)

P == INSTANCE RpcProofs WITH Calls <- Keys, Verdicts <- Answers \cup Responses,
                             caller <- CallerOf, callee <- CalleeOf

(* The Rpc that is implemented is the one RpcProofs is about.                *)
LEMMA SameRpc ==
  /\ AsRpc!Spec => P!Spec
  /\ P!Honest => AsRpc!Honest
  /\ P!OnceForAll => AsRpc!OnceForAll
<1> USE DEF CallerOf, CalleeOf, Keys
<1>1. AsRpc!Init => P!Init
  BY DEF AsRpc!Init, P!Init
<1>2. UNCHANGED AsRpc!rpcVars <=> UNCHANGED P!rpcVars
  BY DEF AsRpc!rpcVars, P!rpcVars
<1>3. [AsRpc!Next]_(AsRpc!rpcVars) => [P!Next]_(P!rpcVars)
  <2>1. ASSUME NEW k \in Keys
        PROVE  /\ AsRpc!Ask(k) => P!Ask(k)
               /\ AsRpc!Run(k) => P!Run(k)
               /\ AsRpc!Refuse(k) => P!Refuse(k)
               /\ AsRpc!Finish(k) => P!Finish(k)
               /\ AsRpc!Answer(k) => P!Answer(k)
               /\ AsRpc!Fail(k) => P!Fail(k)
    BY DEF AsRpc!Ask, P!Ask, AsRpc!Run, P!Run, AsRpc!Refuse, P!Refuse, AsRpc!Finish, P!Finish,
       AsRpc!Answer, P!Answer, AsRpc!Fail, P!Fail, AsRpc!Moves, P!Moves
  <2> QED
    BY <1>2, <2>1 DEF AsRpc!Next, P!Next
<1>4. P!Honest => AsRpc!Honest
  BY DEF P!Honest, AsRpc!Honest
<1>5. [P!Final]_(P!rpcVars) => [AsRpc!Final]_(AsRpc!rpcVars)
  BY <1>2 DEF P!Final, AsRpc!Final, P!Settled, AsRpc!Settled
<1>6. AsRpc!Spec => P!Spec
  BY <1>1, <1>3, PTL DEF AsRpc!Spec, P!Spec
<1>7. P!OnceForAll => AsRpc!OnceForAll
  BY <1>5, PTL DEF P!OnceForAll, AsRpc!OnceForAll
<1> QED
  BY <1>4, <1>6, <1>7

(* An Invoke returns what the browser first came to for it, and the browser is  *)
(* told what its request came to, or nothing (wsweb.go:396 and 307).           *)
VerdictsAreTrue ==
  /\ \A i \in Invokes : invoke[i] = "done" /\ outcome[i] \in Responses => heard[i] = outcome[i]
  /\ \A r \in Requests : asked[r] \in Answers => answer[r] = asked[r]
THEOREM VerdictsCorrect == Spec => []VerdictsAreTrue
<1>1. P!Distinct
  BY DEF P!Distinct, Answers, Responses
<1>2. P!Spec => []P!Honest
  BY <1>1, P!HonestCorrect
<1>3. AsRpc!Honest => VerdictsAreTrue
  BY BridgeNamesAssumption
     DEF AsRpc!Honest, VerdictsAreTrue, CallerState, CalleeState, Answers, Responses, NoResponse
<1> QED
  BY <1>2, <1>3, SameRpc, BridgeRefinement, PTL DEF ImplementsRpc

(* A request is handled once, and what it came to is not taken back, however    *)
(* often the browser answers the Invokes of its handler.                      *)
THEOREM OnceCorrect == Spec => AsRpc!OnceForAll
<1>1. P!Distinct
  BY DEF P!Distinct, Answers, Responses
<1>2. P!Spec => P!OnceForAll
  BY <1>1, P!OnceForAllCorrect
<1> QED
  BY <1>2, SameRpc, BridgeRefinement, PTL DEF ImplementsRpc

-----------------------------------------------------------------------------
(* Liveness.  The provers know neither ENABLED nor that fairness, once        *)
(* assumed, holds from every state on.  Turns says what fairness does, with    *)
(* the guards of the steps in the place of ENABLED: what can run again and     *)
(* again takes its turns.  Nobody is passed over for ever: sync.Mutex hands    *)
(* itself to who has waited for a millisecond, and the Writes of a connection  *)
(* queue for a channel.  Among finitely many goroutines that each write once,  *)
(* this is no more than what Fairness says.                                   *)
HasRoom == link = "lost" \/ Len(outbox) < Window
LoopReady == \/ loop = "accept"
             \/ loop = "read" /\ (inbox # <<>> \/ link = "lost")
             \/ loop = "lock" /\ mu = None
             \/ loop \in {"bare", "write"} /\ HasRoom
InvokeReady(i) == \/ invoke[i] = "lock" /\ mu = None
                  \/ invoke[i] = "write" /\ (HasRoom \/ i \in expired)
                  \/ invoke[i] = "wait" /\ (ch[i] # None \/ i \in expired \/ Cancelled)
TaskReady(r) ==
  \/ task[r] = "handler" /\ \A i \in Invokes : Within[i] = r => invoke[i] \in {"idle", "done"}
  \/ task[r] = "lock" /\ mu = None
  \/ task[r] = "write" /\ HasRoom

LoopTurn      == <>[]~LoopReady \/ []<><<LoopStep>>_vars
InvokeTurn(i) == <>[]~InvokeReady(i) \/ []<><<InvokeStep(i)>>_vars
TaskTurn(r)   == <>[]~TaskReady(r) \/ []<><<TaskStep(r)>>_vars
Turns == /\ LoopTurn
         /\ \A i \in Invokes : InvokeTurn(i)
         /\ \A r \in Requests : TaskTurn(r)

(* The mutex is written down first: who holds it writes, and who writes holds  *)
(* it.                                                                       *)
HolderWrites == /\ loop = "write" <=> mu = "loop"
                /\ \A i \in Invokes : invoke[i] = "write" <=> mu = i
                /\ \A r \in Requests : task[r] = "write" <=> mu = r

(* The mutex changes hands by Lock and by the Write of its holder, and an     *)
(* Invoke goes on and never back.                                           *)
HandsOver == mu' = mu \/ mu = None \/ mu' = None
GoesOn(i) == /\ invoke[i] = "lock" => invoke'[i] \in {"lock", "write"}
             /\ invoke[i] = "write" => invoke'[i] \in {"write", "wait", "done"}
             /\ invoke[i] = "wait" => invoke'[i] \in {"wait", "done"}
             /\ invoke[i] = "done" => invoke'[i] = "done"
             /\ i \in expired => i \in expired'
             /\ i \in expired' => i \in expired \/ invoke[i] # "idle"
MutexKept == /\ HolderWrites' /\ HandsOver /\ \A i \in Invokes : GoesOn(i)
             /\ loop = "ended" => loop' = "ended"
             /\ loop' = "ended" => loop = "ended" \/ link' = "lost"

LEMMA LoopMutex ==
  ASSUME BridgeInv, HolderWrites, LoopStep
  PROVE  MutexKept /\ (mu = "loop" => mu' = None)
<1> USE DEF HolderWrites, HandsOver, GoesOn, MutexKept
<1>0. RestType
  BY InvParts DEF Parts
<1>1. CASE Reject \/ Accept \/ WriteBare \/ LoopEnds
  <2>1. /\ UNCHANGED <<mu, invoke, expired, task>> /\ loop # "write" /\ loop' # "write" /\ loop # "ended"
        /\ loop' = "ended" => link' = "lost"
    BY <1>1 DEF Reject, Accept, WriteBare, LoopEnds, LoopAt, invokeVars, taskVars
  <2> QED
    BY <2>1
<1>2. CASE LoopLocks
  <2>1. /\ UNCHANGED <<invoke, expired, task>> /\ loop = "lock" /\ loop' = "write" /\ mu = None /\ mu' = "loop"
    BY <1>2 DEF LoopLocks, LoopAt, Lock, invokeVars, taskVars
  <2> QED
    BY <1>0, <2>1 DEF RestType
<1>3. CASE Read
  <2>1. UNCHANGED <<mu, invoke, expired>> /\ loop = "read"
    BY <1>3, ReadHead DEF Read, Reads, handleResponse, invokeVars
  <2>2. /\ loop' \in {"lock", "read", "bare"}
        /\ \A r \in Requests : task'[r] = "write" <=> task[r] = "write"
    <3>1. ASSUME NEW r \in Requests, TakeRequest(r)
          PROVE  /\ loop' \in {"lock", "read", "bare"}
                 /\ \A n \in Requests : task'[n] = "write" <=> task[n] = "write"
      BY <1>0, <2>1, <3>1, TakeRequestType
    <3>2. CASE UNCHANGED <<loop, taskVars>>
      BY <2>1, <3>2 DEF taskVars
    <3>3. CASE loop' \in {"lock", "bare"} /\ UNCHANGED taskVars
      BY <3>3 DEF taskVars
    <3> QED
      BY <1>3, <3>1, <3>2, <3>3, ReadHead DEF Read, handleResponse
  <2> QED
    BY <2>1, <2>2
<1>4. CASE LoopWrites
  <2>1. UNCHANGED <<invoke, expired>> /\ loop = "write" /\ loop' = "read" /\ mu' = None
    BY <1>4 DEF LoopWrites, LoopAt, invokeVars
  <2>2. \A r \in Requests : task'[r] = "write" <=> task[r] = "write"
    BY <1>0, <1>4 DEF LoopWrites, Refused, TaskAt, RestType
  <2> QED
    BY <1>0, <2>1, <2>2 DEF RestType
<1> QED
  BY <1>1, <1>2, <1>3, <1>4 DEF LoopStep

LEMMA TaskMutex ==
  ASSUME BridgeInv, HolderWrites, NEW r \in Requests, TaskStep(r)
  PROVE  MutexKept /\ (mu = r => mu' = None)
<1> USE DEF HolderWrites, HandsOver, GoesOn, MutexKept
<1>0. RestType
  BY InvParts DEF Parts
<1>1. UNCHANGED <<loop, invoke, expired>>
  BY DEF TaskStep, HandlerReturns, LockAnswer, WriteAnswer, invokeVars
<1>2. CASE HandlerReturns(r)
  <2>1. PICK a \in Answers \cup NoResponse : AnswersWith(r, "handler", a)
    BY <1>2 DEF HandlerReturns, Answers
  <2>2. /\ mu' = mu /\ task[r] = "handler" /\ task'[r] \in {"lock", "ended"}
        /\ \A n \in Requests \ {r} : task'[n] = task[n]
    BY <1>0, <1>2, <2>1, AnswersType DEF HandlerReturns
  <2> QED
    BY <1>1, <2>2
<1>3. CASE LockAnswer(r) \/ WriteAnswer(r)
  <2>1. /\ \/ mu = None /\ mu' = r /\ task[r] = "lock" /\ task'[r] = "write"
           \/ mu' = None /\ task[r] = "write" /\ task'[r] = "ended"
        /\ \A n \in Requests \ {r} : task'[n] = task[n]
    BY <1>0, <1>3 DEF LockAnswer, WriteAnswer, TaskAt, Lock, RestType
  <2> QED
    BY <1>0, <1>1, <2>1 DEF RestType
<1> QED
  BY <1>2, <1>3 DEF TaskStep

LEMMA InvokeMutex ==
  ASSUME BridgeInv, HolderWrites, NEW i \in Invokes, Invoke(i) \/ ContextEnds(i) \/ InvokeStep(i)
  PROVE  /\ MutexKept
         /\ InvokeStep(i) => /\ mu = i => mu' = None
                             /\ invoke[i] = "lock" => invoke'[i] = "write"
                             /\ invoke[i] = "wait" => invoke'[i] = "done"
<1> USE DEF HolderWrites, HandsOver, GoesOn, MutexKept
<1>0. RestType
  BY InvParts DEF Parts
<1>1. UNCHANGED <<loop, task>>
  BY DEF Invoke, ContextEnds, InvokeStep, LockInvoke, WriteInvoke, WriteFails, TakeResponse, WaitEnds, taskVars
<1>2. /\ expired \subseteq expired'
      /\ expired' \subseteq expired \cup {i}
      /\ expired' # expired => invoke[i] # "idle"
  BY <1>0 DEF RestType, Invoke, ContextEnds, InvokeStep, LockInvoke, WriteInvoke, WriteFails, TakeResponse, WaitEnds
<1>3. /\ \A n \in Invokes \ {i} : invoke'[n] = invoke[n]
      /\ \/ mu' = mu /\ invoke[i] = "idle" /\ invoke'[i] = "lock" /\ ~InvokeStep(i)
         \/ mu' = mu /\ invoke' = invoke /\ ~InvokeStep(i)
         \/ mu = None /\ mu' = i /\ invoke[i] = "lock" /\ invoke'[i] = "write"
         \/ mu' = None /\ invoke[i] = "write" /\ invoke'[i] \in {"wait", "done"}
         \/ mu' = mu /\ invoke[i] = "wait" /\ invoke'[i] = "done"
  <2> USE DEF InvokeAt, Lock, Fails, RestType
  <2>1. CASE Invoke(i) /\ ~InvokeStep(i)
    BY <1>0, <2>1 DEF Invoke
  <2>2. CASE ContextEnds(i) /\ ~InvokeStep(i)
    BY <1>0, <2>2 DEF ContextEnds
  <2>3. CASE LockInvoke(i)
    BY <1>0, <2>3 DEF LockInvoke
  <2>4. CASE WriteInvoke(i)
    BY <1>0, <2>4 DEF WriteInvoke
  <2>5. CASE WriteFails(i)
    BY <1>0, <2>5 DEF WriteFails
  <2>6. CASE TakeResponse(i)
    BY <1>0, <2>6 DEF TakeResponse
  <2>7. CASE WaitEnds(i)
    BY <1>0, <2>7 DEF WaitEnds
  <2> QED
    BY <2>1, <2>2, <2>3, <2>4, <2>5, <2>6, <2>7 DEF InvokeStep
<1> QED
  BY <1>0, <1>1, <1>2, <1>3 DEF RestType

LEMMA MutexNext ==
  ASSUME BridgeInv, HolderWrites, [Next]_vars
  PROVE  MutexKept
<1>1. CASE Browser \/ UNCHANGED vars
  <2>1. UNCHANGED <<loop, mu, invoke, expired, task>>
    BY <1>1 DEF Browser, BrowserAsks, BrowserAnswers, BrowserSendsNoise, BrowserReads, BrowserLeaves, Sends,
       invokeVars, taskVars, vars
  <2> QED
    BY <2>1 DEF HolderWrites, HandsOver, GoesOn, MutexKept
<1> QED
  BY <1>1, LoopMutex, TaskMutex, InvokeMutex DEF Next, Gone

(* A goroutine writes under the mutex exactly while it holds it (conn.mu in    *)
(* HandleWebSocket, handleRequest and Invoke).                                *)
THEOREM MutexCorrect == Spec => []HolderWrites
<1>1. Init => HolderWrites
  BY DEF Init, HolderWrites
<1>2. BridgeInv /\ HolderWrites /\ [Next]_vars => HolderWrites'
  BY MutexNext DEF MutexKept
<1> QED
  BY <1>1, <1>2, BridgeCorrect, PTL DEF Spec

(* Nothing comes of a Write that holds the mutex while it waits for the        *)
(* browser, with no context of its own that has ended.                       *)
Runs == [][Next]_vars /\ []BridgeInv /\ []HolderWrites /\ []Turns
Blocked == mu \notin expired \cup {None} /\ ~HasRoom
Clears == Runs /\ []<>~Blocked
Frees == <>(mu = None)

(* Who holds the mutex gives it up when its Write comes to an end.            *)
LEMMA HolderFrees ==
  /\ Clears /\ mu = "loop" => Frees
  /\ \A i \in Invokes : Clears /\ mu = i => Frees
  /\ \A r \in Requests : Clears /\ mu = r => Frees
<1>0. BridgeInv => RestType
  BY InvParts DEF Parts
<1>1. Clears /\ mu = "loop" => Frees
  <2>1. BridgeInv /\ HolderWrites /\ mu = "loop" /\ [Next]_vars => (mu = "loop")' \/ (mu = None)'
    BY MutexNext DEF MutexKept, HandsOver
  <2>2. BridgeInv /\ HolderWrites /\ mu = "loop" /\ <<LoopStep>>_vars => (mu = None)'
    BY LoopMutex
  <2>3. BridgeInv /\ HolderWrites /\ mu = "loop" => loop = "write" /\ "loop" \notin expired
    BY <1>0 DEF HolderWrites, RestType
  <2>4. BridgeInv /\ HolderWrites /\ mu = "loop" /\ ~Blocked => LoopReady
    BY <2>3 DEF LoopReady, Blocked
  <2>5. Turns => LoopTurn
    BY DEF Turns
  <2> QED
    BY <2>1, <2>2, <2>4, <2>5, PTL DEF Clears, Runs, LoopTurn, Frees
<1>2. ASSUME NEW i \in Invokes PROVE Clears /\ mu = i => Frees
  <2>1. BridgeInv /\ HolderWrites /\ mu = i /\ [Next]_vars => (mu = i)' \/ (mu = None)'
    BY MutexNext DEF MutexKept, HandsOver
  <2>2. BridgeInv /\ HolderWrites /\ mu = i /\ <<InvokeStep(i)>>_vars => (mu = None)'
    BY InvokeMutex
  <2>3. HolderWrites /\ mu = i => invoke[i] = "write"
    BY DEF HolderWrites
  <2>4. HolderWrites /\ mu = i /\ ~Blocked => InvokeReady(i)
    BY <2>3 DEF InvokeReady, Blocked
  <2>5. Turns => InvokeTurn(i)
    BY DEF Turns
  <2> QED
    BY <2>1, <2>2, <2>4, <2>5, PTL DEF Clears, Runs, InvokeTurn, Frees
<1>3. ASSUME NEW r \in Requests PROVE Clears /\ mu = r => Frees
  <2>1. BridgeInv /\ HolderWrites /\ mu = r /\ [Next]_vars => (mu = r)' \/ (mu = None)'
    BY MutexNext DEF MutexKept, HandsOver
  <2>2. BridgeInv /\ HolderWrites /\ mu = r /\ <<TaskStep(r)>>_vars => (mu = None)'
    BY TaskMutex
  <2>3. BridgeInv /\ HolderWrites /\ mu = r => task[r] = "write" /\ r \notin expired
    BY <1>0 DEF HolderWrites, RestType
  <2>4. BridgeInv /\ HolderWrites /\ mu = r /\ ~Blocked => TaskReady(r)
    BY <2>3 DEF TaskReady, Blocked
  <2>5. Turns => TaskTurn(r)
    BY DEF Turns
  <2> QED
    BY <2>1, <2>2, <2>4, <2>5, PTL DEF Clears, Runs, TaskTurn, Frees
<1> QED
  BY <1>1, <1>2, <1>3

LEMMA MutexFrees == Clears => []Frees
<1>1. Clears => BridgeInv
  BY PTL DEF Clears, Runs
<1>2. mu = None => Frees
  BY PTL DEF Frees
<1>3. BridgeInv => mu \in {None, "loop"} \cup Invokes \cup Requests
  BY InvParts DEF Parts, RestType
<1>4. Clears => Frees
  BY <1>1, <1>2, <1>3, HolderFrees
<1> QED
  BY <1>4, PTL DEF Clears, Runs

(* An Invoke that has been told to end: its context has ended, or the loop.   *)
Told(i) == i \in expired \/ loop = "ended"
At(i, where) == Told(i) /\ invoke[i] = where

(* Where a told Invoke goes: to the mutex, through the Write, out of the wait. *)
LEMMA ToldEnds ==
  ASSUME NEW i \in Invokes
  PROVE  /\ Clears /\ At(i, "wait") => <>(invoke[i] = "done")
         /\ Clears /\ At(i, "write") => <>(At(i, "wait") \/ invoke[i] = "done")
         /\ Clears /\ At(i, "lock") => <>At(i, "write")
<1> USE DEF At, Told
<1>1. Turns => InvokeTurn(i)
  BY DEF Turns
<1>2. BridgeInv /\ HolderWrites /\ [Next]_vars => GoesOn(i) /\ (Told(i) => Told(i)')
  BY MutexNext DEF MutexKept, GoesOn
<1>3. Clears /\ At(i, "wait") => <>(invoke[i] = "done")
  <2>1. BridgeInv /\ HolderWrites /\ At(i, "wait") /\ [Next]_vars => At(i, "wait")' \/ (invoke[i] = "done")'
    BY <1>2 DEF GoesOn
  <2>2. BridgeInv /\ HolderWrites /\ At(i, "wait") /\ <<InvokeStep(i)>>_vars => (invoke[i] = "done")'
    BY InvokeMutex
  <2>3. At(i, "wait") => InvokeReady(i)
    BY DEF InvokeReady, Cancelled
  <2> QED
    BY <1>1, <2>1, <2>2, <2>3, PTL DEF Clears, Runs, InvokeTurn
<1>4. Clears /\ At(i, "write") => <>(At(i, "wait") \/ invoke[i] = "done")
  <2>1. BridgeInv /\ HolderWrites /\ At(i, "write") /\ [Next]_vars =>
          At(i, "write")' \/ At(i, "wait")' \/ (invoke[i] = "done")'
    BY <1>2 DEF GoesOn
  <2>2. HolderWrites /\ At(i, "write") => ~(mu = None)
    BY BridgeNoneAssumption DEF HolderWrites
  <2> QED
    BY <2>1, <2>2, MutexFrees, PTL DEF Clears, Runs, Frees
<1>5. Clears /\ At(i, "lock") => <>At(i, "write")
  <2>1. BridgeInv /\ HolderWrites /\ At(i, "lock") /\ [Next]_vars => At(i, "lock")' \/ At(i, "write")'
    BY <1>2 DEF GoesOn
  <2>2. BridgeInv /\ HolderWrites /\ At(i, "lock") /\ <<InvokeStep(i)>>_vars => At(i, "write")'
    <3>1. <<InvokeStep(i)>>_vars => [Next]_vars
      BY DEF Next
    <3> QED
      BY <1>2, <3>1, InvokeMutex
  <2>3. At(i, "lock") /\ mu = None => InvokeReady(i)
    BY DEF InvokeReady
  <2> QED
    BY <1>1, <2>1, <2>2, <2>3, MutexFrees, PTL DEF Clears, Runs, InvokeTurn, Frees
<1> QED
  BY <1>3, <1>4, <1>5

LEMMA ToldInvokesEnd ==
  ASSUME NEW i \in Invokes
  PROVE  Clears /\ Told(i) /\ invoke[i] # "idle" => <>(invoke[i] = "done")
<1>1. BridgeInv => invoke[i] \in {"idle", "lock", "write", "wait", "done"}
  BY InvParts DEF Parts, RestType
<1>2. BridgeInv /\ Told(i) /\ invoke[i] # "idle" =>
        At(i, "lock") \/ At(i, "write") \/ At(i, "wait") \/ invoke[i] = "done"
  BY <1>1 DEF At
<1>3. Clears /\ At(i, "wait") => <>(invoke[i] = "done")
  BY ToldEnds
<1>4. Clears /\ At(i, "write") => <>(At(i, "wait") \/ invoke[i] = "done")
  BY ToldEnds
<1>5. Clears /\ At(i, "lock") => <>At(i, "write")
  BY ToldEnds
<1> QED
  BY <1>2, <1>3, <1>4, <1>5, PTL DEF Clears, Runs

(* When the loop has ended the connection is lost, and no Write waits for the  *)
(* browser any more.                                                         *)
LEMMA EndedIsLost ==
  ASSUME NEW i \in Invokes
  PROVE  Spec => [](loop = "ended" => link = "lost")
<1>1. Init => (loop = "ended" => link = "lost")
  BY DEF Init
<1>2. BridgeInv /\ HolderWrites /\ [Next]_vars /\ (loop = "ended" => link = "lost") =>
        (loop = "ended" => link = "lost")'
  BY MutexNext, NothingUndone DEF MutexKept
<1> QED
  BY <1>1, <1>2, BridgeCorrect, MutexCorrect, PTL DEF Spec

(* Only the context of an Invoke that has begun ends.                         *)
LEMMA ExpiredBegan ==
  ASSUME NEW i \in Invokes
  PROVE  Spec => [](i \in expired => invoke[i] # "idle")
<1>1. Init => (i \in expired => invoke[i] # "idle")
  BY DEF Init
<1>2. BridgeInv => invoke[i] \in {"idle", "lock", "write", "wait", "done"}
  BY InvParts DEF Parts, RestType
<1>3. BridgeInv /\ HolderWrites /\ [Next]_vars /\ (i \in expired => invoke[i] # "idle") =>
        (i \in expired => invoke[i] # "idle")'
  BY <1>2, MutexNext DEF MutexKept, GoesOn
<1> QED
  BY <1>1, <1>3, BridgeCorrect, MutexCorrect, PTL DEF Spec

(* The end of HandleWebSocket ends every Invoke, those without a deadline, and *)
(* those that wait for the mutex or begin afterwards, included (wsweb.go:276). *)
THEOREM InvokesEndWithBrowserCorrect ==
  Spec /\ []Turns => InvokesEndWithBrowser
<1>1. ASSUME NEW i \in Invokes
      PROVE  Spec /\ []Turns =>
               (loop = "ended" /\ invoke[i] # "idle" ~> invoke[i] = "done")
  <2>1. BridgeInv /\ HolderWrites /\ [Next]_vars => (loop = "ended" => (loop = "ended")')
    BY MutexNext DEF MutexKept
  <2>2. (loop = "ended" => link = "lost") => (loop = "ended" => ~Blocked)
    BY DEF Blocked, HasRoom
  <2>3. loop = "ended" /\ invoke[i] # "idle" => Told(i) /\ invoke[i] # "idle"
    BY DEF Told
  <2>4. Clears /\ Told(i) /\ invoke[i] # "idle" => <>(invoke[i] = "done")
    BY ToldInvokesEnd
  <2>5. Spec => [](loop = "ended" => link = "lost")
    BY EndedIsLost
  <2> QED
    BY <2>1, <2>2, <2>3, <2>4, <2>5, BridgeCorrect, MutexCorrect, PTL DEF Spec, Clears, Runs
<1> QED
  BY <1>1 DEF InvokesEndWithBrowser

(* The end of its context ends an Invoke wherever it is, unless a Write holds  *)
(* the mutex for ever that nobody takes and that has no deadline itself       *)
(* (wsweb.go:260 to 275).                                                    *)
THEOREM DeadlinesEndInvokesCorrect ==
  Spec /\ []Turns => DeadlinesEndInvokes
<1>1. BridgeInv => (~Stalled => ~Blocked)
  <2> SUFFICES ASSUME BridgeInv, Blocked PROVE Stalled
    OBVIOUS
  <2>1. Len(outbox) \in Nat /\ Len(outbox) <= Window
    BY InvParts DEF Parts, Box
  <2> QED
    BY <2>1, BridgeWindowAssumption DEF Stalled, Blocked, HasRoom
<1>2. Spec => []BridgeInv /\ []HolderWrites
  BY BridgeCorrect, MutexCorrect, PTL
<1>3. ASSUME NEW i \in Invokes
      PROVE  Spec /\ []Turns /\ []<>~Stalled =>
               (i \in expired ~> invoke[i] = "done")
  <2>1. Clears /\ Told(i) /\ invoke[i] # "idle" => <>(invoke[i] = "done")
    BY ToldInvokesEnd
  <2>2. i \in expired => Told(i)
    BY DEF Told
  <2>3. Spec => [](i \in expired => invoke[i] # "idle")
    BY ExpiredBegan
  <2> QED
    BY <1>1, <1>2, <2>1, <2>2, <2>3, PTL DEF Spec, Clears, Runs
<1> QED
  BY <1>3 DEF DeadlinesEndInvokes

(* Both: what ends an Invoke ends it in every state it can be in.             *)
THEOREM InvokesEndCorrect == Spec /\ []Turns => InvokesEnd
BY InvokesEndWithBrowserCorrect, DeadlinesEndInvokesCorrect DEF InvokesEnd
=============================================================================
