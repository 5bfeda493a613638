----------------------------- MODULE WebBridge -----------------------------
(***************************************************************************)
(* One browser's connection to the WebBridge of pkg/transport/wsweb.go:    *)
(* the loop of HandleWebSocket, a goroutine per request of the browser     *)
(* (handleRequest) and one per call of Go to the browser (Invoke), which   *)
(* all write to the connection, under the mutex mu -- except the loop when  *)
(* it answers what does not parse.  The browser is anyone: it sends what it *)
(* likes, answers late, twice or never, may stop reading, and may leave.    *)
(***************************************************************************)
EXTENDS Naturals, Sequences

CONSTANTS Requests,        \* requests of the browser
          Invokes, Within, \* calls of Go; the request whose handler makes the call, or None
          Messages,        \* the shapes of request considered
          Window,          \* messages on their way in one direction
          MaxNoise,        \* messages that are no request and no response
          None

Shapes == [version : {"2.0", "other"}, id : BOOLEAN,
           method : {"blank", "rpc.heartbeat", "known", "unknown"}]

ASSUME WithinAssumption == Within \in [Invokes -> Requests \cup {None}]
ASSUME BridgeMessagesAssumption == Messages \subseteq Shapes
ASSUME BridgeWindowAssumption == Window \in Nat \ {0} /\ MaxNoise \in Nat
ASSUME BridgeNamesAssumption == Requests \cap Invokes = {} /\ "loop" \notin Requests \cup Invokes

VARIABLES
  link,              \* the WebSocket connection
  loop,              \* the loop of HandleWebSocket
  mu,                \* who holds the connection's mutex
  inbox, outbox,     \* messages on their way to Go and to the browser
  invoke, expired,   \* each Invoke: where it is; those whose context has ended
  ch, outcome,       \* its channel (capacity 1); what it returned
  heard,             \* what the browser came to for each Invoke
  asked, shape,      \* each request at the browser, and its shape
  task, answer,      \* its goroutine, what it comes to
  noise

invokeVars == <<invoke, expired, ch, outcome>>
browserVars == <<heard, asked, shape>>
taskVars == <<task, answer>>
vars == <<link, loop, mu, inbox, outbox, invokeVars, browserVars, taskVars, noise>>

Answers == {"result", "error", "invalid request", "method not found"}
Responses == {"result", "error", "invalid response"}
NoResponse == {"empty", "unaddressed"}   \* what a handler's result may be sent as

ASSUME BridgeNoneAssumption ==
  None \notin Requests \cup Invokes \cup Shapes \cup Answers \cup Responses
             \cup NoResponse \cup {"failed", "silent", "loop"}

TypeOK ==
  /\ link \in {"up", "lost"}
  /\ loop \in {"accept", "read", "bare", "lock", "write", "ended"}
  /\ mu \in {None, "loop"} \cup Invokes \cup Requests
  /\ inbox \in Seq([kind : {"request"}, of : Requests] \cup [kind : {"garbled", "neither"}]
                   \cup [kind : {"response"}, of : Invokes, response : Responses])
  /\ outbox \in Seq([kind : {"request"}, of : Invokes] \cup [kind : {"refusal"}]
                    \cup [kind : {"answer"}, of : Requests, answer : Answers \cup NoResponse])
  /\ Len(inbox) <= Window /\ Len(outbox) <= Window
  /\ invoke \in [Invokes -> {"idle", "lock", "write", "wait", "done"}]
  /\ expired \subseteq Invokes
  /\ ch \in [Invokes -> Responses \cup {None}]
  /\ outcome \in [Invokes -> Responses \cup {"failed", None}]
  /\ heard \in [Invokes -> Responses \cup {"idle", "running"}]
  /\ asked \in [Requests -> Answers \cup {"idle", "open"}]
  /\ shape \in [Requests -> Messages \cup {None}]
  /\ task \in [Requests -> {"idle", "loop", "handler", "lock", "write", "ended"}]
  /\ answer \in [Requests -> Answers \cup NoResponse \cup {"silent", None}]
  /\ noise \in 0..MaxNoise

Init ==
  /\ link = "up" /\ loop = "accept" /\ mu = None /\ inbox = <<>> /\ outbox = <<>>
  /\ invoke = [i \in Invokes |-> "idle"] /\ expired = {}
  /\ ch = [i \in Invokes |-> None] /\ outcome = [i \in Invokes |-> None]
  /\ heard = [i \in Invokes |-> "idle"]
  /\ asked = [r \in Requests |-> "idle"] /\ shape = [r \in Requests |-> None]
  /\ task = [r \in Requests |-> "idle"] /\ answer = [r \in Requests |-> None]
  /\ noise = 0

-----------------------------------------------------------------------------
Lock(w) == mu = None /\ mu' = w

(* A lost connection takes what it is given or refuses it.                   *)
Write(m) ==
  \/ /\ link = "up" /\ Len(outbox) < Window /\ outbox' = Append(outbox, m)
  \/ /\ link = "lost" /\ UNCHANGED outbox

LoopAt(from, to) == loop = from /\ loop' = to
InvokeAt(i, from, to) == invoke[i] = from /\ invoke' = [invoke EXCEPT ![i] = to]
TaskAt(r, from, to) == task[r] = from /\ task' = [task EXCEPT ![r] = to]

-----------------------------------------------------------------------------
(* HandleWebSocket.                                                         *)

(* The origin is not allowed, or the upgrade fails.                          *)
Reject ==
  /\ LoopAt("accept", "ended") /\ link' = "lost"
  /\ UNCHANGED <<mu, inbox, outbox, invokeVars, browserVars, taskVars, noise>>
Accept ==
  /\ LoopAt("accept", "read")
  /\ UNCHANGED <<link, mu, inbox, outbox, invokeVars, browserVars, taskVars, noise>>

(* handleRequest as the list of its tests: the first that applies decides.   *)
(* A request of another version is answered by the loop itself.              *)
Treatment(m) ==
  CASE m.version # "2.0"          -> "invalid request"
    [] m.method = "blank"         -> "invalid request"
    [] m.method = "rpc.heartbeat" -> "result"
    [] m.method = "unknown"       -> "method not found"
    [] OTHER                      -> "handler"

AnswersAlways(r, from, a) ==   \* mutant: notifications are answered
  TaskAt(r, from, "lock") /\ answer' = [answer EXCEPT ![r] = a]
AnswersWith(r, from, a) ==
  /\ task[r] = from
  /\ TaskAt(r, from, IF shape[r].id THEN "lock" ELSE "ended")
  /\ answer' = [answer EXCEPT ![r] = IF shape[r].id THEN a ELSE "silent"]

TakeRequest(r) ==
  /\ UNCHANGED invokeVars
  /\ CASE shape[r].version # "2.0" ->
            /\ loop' = IF shape[r].id THEN "lock" ELSE "read"
            /\ TaskAt(r, "idle", IF shape[r].id THEN "loop" ELSE "ended")
            /\ answer' = [answer EXCEPT ![r] = IF shape[r].id THEN "invalid request" ELSE "silent"]
       [] shape[r].version = "2.0" /\ Treatment(shape[r]) = "handler" ->
            TaskAt(r, "idle", "handler") /\ UNCHANGED <<answer, loop>>
       [] OTHER -> AnswersWith(r, "idle", Treatment(shape[r])) /\ UNCHANGED loop

(* handleResponse: the first response of a call that waits is delivered.     *)
LastResponseWins(i, v) ==   \* mutant: a later one takes its place
  /\ ch' = IF invoke[i] = "wait" THEN [ch EXCEPT ![i] = v] ELSE ch
  /\ UNCHANGED <<loop, invoke, expired, outcome, taskVars>>
handleResponse(i, v) ==
  /\ ch' = IF invoke[i] = "wait" /\ ch[i] = None THEN [ch EXCEPT ![i] = v] ELSE ch
  /\ UNCHANGED <<loop, invoke, expired, outcome, taskVars>>

(* Mutant: the loop calls the handlers itself.                               *)
ReadsWhenServed == /\ loop = "read" /\ inbox # <<>> /\ inbox' = Tail(inbox)
                   /\ \A r \in Requests : task[r] \in {"idle", "ended"}
Reads == loop = "read" /\ inbox # <<>> /\ inbox' = Tail(inbox)

Read ==
  /\ Reads
  /\ LET m == Head(inbox)
     IN \/ m.kind = "request"  /\ TakeRequest(m.of)
        \/ m.kind = "response" /\ handleResponse(m.of, m.response)
        \/ m.kind = "garbled"  /\ loop' = "bare" /\ UNCHANGED <<invokeVars, taskVars>>
        \/ m.kind = "neither"  /\ loop' = "lock" /\ UNCHANGED <<invokeVars, taskVars>>
  /\ UNCHANGED <<link, mu, outbox, browserVars, noise>>

(* What does not parse is answered without the mutex, the rest under it.      *)
Refused == {r \in Requests : task[r] = "loop"}
WriteBare ==
  /\ LoopAt("bare", "read") /\ Write([kind |-> "refusal"])
  /\ UNCHANGED <<link, mu, inbox, invokeVars, browserVars, taskVars, noise>>
LoopLocks ==
  /\ LoopAt("lock", "write") /\ Lock("loop")
  /\ UNCHANGED <<link, inbox, outbox, invokeVars, browserVars, taskVars, noise>>
LoopWrites ==
  /\ LoopAt("write", "read") /\ mu' = None
  /\ IF Refused = {}
     THEN Write([kind |-> "refusal"]) /\ UNCHANGED task
     ELSE \E r \in Refused : /\ TaskAt(r, "loop", "ended")
                             /\ Write([kind |-> "answer", of |-> r, answer |-> answer[r]])
  /\ UNCHANGED <<link, inbox, invokeVars, browserVars, answer, noise>>

(* Read fails: the connection's context is cancelled, the connection closed.  *)
LoopEnds ==
  /\ link = "lost" /\ LoopAt("read", "ended")
  /\ UNCHANGED <<link, mu, inbox, outbox, invokeVars, browserVars, taskVars, noise>>
NeverCancelled == FALSE   \* mutant
Cancelled == loop = "ended"

-----------------------------------------------------------------------------
(* handleRequest, from the handler on.                                       *)

(* A nil result leaves the message with neither a result nor an error; one    *)
(* that is no JSON is answered with an internal error that has no id.         *)
HandlerReturns(r) ==
  /\ \A i \in Invokes : Within[i] = r => invoke[i] \in {"idle", "done"}
  /\ \E a \in {"result", "error"} \cup NoResponse : AnswersWith(r, "handler", a)
  /\ UNCHANGED <<link, loop, mu, inbox, outbox, invokeVars, browserVars, noise>>
LockAnswer(r) ==
  /\ TaskAt(r, "lock", "write") /\ Lock(r)
  /\ UNCHANGED <<link, loop, inbox, outbox, invokeVars, browserVars, answer, noise>>
WriteAnswer(r) ==
  /\ TaskAt(r, "write", "ended") /\ mu' = None
  /\ Write([kind |-> "answer", of |-> r, answer |-> answer[r]])
  /\ UNCHANGED <<link, loop, inbox, invokeVars, browserVars, answer, noise>>

-----------------------------------------------------------------------------
(* Invoke and InvokeWithTimeout.                                             *)

Invoke(i) ==
  /\ loop # "accept" /\ InvokeAt(i, "idle", "lock")
  /\ Within[i] # None => task[Within[i]] = "handler"
  /\ UNCHANGED <<link, loop, mu, inbox, outbox, expired, ch, outcome, browserVars, taskVars, noise>>
ContextEnds(i) ==
  /\ invoke[i] \in {"lock", "write", "wait"} /\ expired' = expired \cup {i}
  /\ UNCHANGED <<link, loop, mu, inbox, outbox, invoke, ch, outcome, browserVars, taskVars, noise>>
LockInvoke(i) ==
  /\ InvokeAt(i, "lock", "write") /\ Lock(i)
  /\ UNCHANGED <<link, loop, inbox, outbox, expired, ch, outcome, browserVars, taskVars, noise>>
WriteInvoke(i) ==
  /\ InvokeAt(i, "write", "wait") /\ mu' = None
  /\ Write([kind |-> "request", of |-> i])
  /\ UNCHANGED <<link, loop, inbox, expired, ch, outcome, browserVars, taskVars, noise>>

(* The Write fails, or is given up with its context, which closes the         *)
(* connection unless the Write was still waiting for the loop's bare one.     *)
Fails(i, from) == InvokeAt(i, from, "done") /\ outcome' = [outcome EXCEPT ![i] = "failed"]
NeverGivesUp(i) ==   \* mutant: the Write has the connection's context
  /\ Fails(i, "write") /\ mu' = None /\ link = "lost"
  /\ UNCHANGED <<link, loop, inbox, outbox, expired, ch, browserVars, taskVars, noise>>
WriteFails(i) ==
  /\ Fails(i, "write") /\ mu' = None
  /\ \/ link = "lost" /\ UNCHANGED <<link, inbox, outbox>>
     \/ i \in expired /\ link' = "lost" /\ inbox' = <<>> /\ outbox' = <<>>
     \/ i \in expired /\ loop = "bare" /\ UNCHANGED <<link, inbox, outbox>>
  /\ UNCHANGED <<loop, expired, ch, browserVars, taskVars, noise>>

TakeResponse(i) ==
  /\ ch[i] # None /\ InvokeAt(i, "wait", "done") /\ outcome' = [outcome EXCEPT ![i] = ch[i]]
  /\ UNCHANGED <<link, loop, mu, inbox, outbox, expired, ch, browserVars, taskVars, noise>>
WaitEnds(i) ==
  /\ i \in expired \/ Cancelled
  /\ Fails(i, "wait")
  /\ UNCHANGED <<link, loop, mu, inbox, outbox, expired, ch, browserVars, taskVars, noise>>

-----------------------------------------------------------------------------
(* The browser.                                                             *)

Sends(m) ==
  /\ loop # "accept" /\ link = "up" /\ Len(inbox) < Window /\ inbox' = Append(inbox, m)
  /\ UNCHANGED <<link, loop, mu, outbox, invokeVars, taskVars>>

BrowserAsks(r) ==
  /\ asked[r] = "idle" /\ asked' = [asked EXCEPT ![r] = "open"]
  /\ \E m \in Messages : shape' = [shape EXCEPT ![r] = m]
  /\ Sends([kind |-> "request", of |-> r]) /\ UNCHANGED <<heard, noise>>

(* It answers what it was asked, more than once as it likes.                  *)
BrowserAnswers(i) ==
  /\ heard[i] # "idle"
  /\ \E v \in Responses :
       /\ Sends([kind |-> "response", of |-> i, response |-> v])
       /\ heard' = IF heard[i] = "running" THEN [heard EXCEPT ![i] = v] ELSE heard
       /\ noise' = IF heard[i] = "running" THEN noise ELSE noise + 1
       /\ noise' <= MaxNoise
  /\ UNCHANGED <<asked, shape>>

BrowserSendsNoise ==
  /\ noise < MaxNoise /\ noise' = noise + 1
  /\ \E kind \in {"garbled", "neither"} : Sends([kind |-> kind])
  /\ UNCHANGED browserVars

BrowserReads ==
  /\ outbox # <<>> /\ outbox' = Tail(outbox)
  /\ LET m == Head(outbox)
     IN /\ heard' = IF m.kind = "request" THEN [heard EXCEPT ![m.of] = "running"] ELSE heard
        /\ asked' = IF m.kind = "answer" /\ m.answer \in Answers /\ asked[m.of] = "open"
                    THEN [asked EXCEPT ![m.of] = m.answer] ELSE asked
  /\ UNCHANGED <<link, loop, mu, inbox, invokeVars, shape, taskVars, noise>>

BrowserLeaves ==
  /\ loop # "accept" /\ link = "up" /\ link' = "lost" /\ inbox' = <<>> /\ outbox' = <<>>
  /\ UNCHANGED <<loop, mu, invokeVars, browserVars, taskVars, noise>>

-----------------------------------------------------------------------------
LoopStep == Reject \/ Accept \/ Read \/ WriteBare \/ LoopLocks \/ LoopWrites \/ LoopEnds
InvokeStep(i) == LockInvoke(i) \/ WriteInvoke(i) \/ WriteFails(i) \/ TakeResponse(i) \/ WaitEnds(i)
TaskStep(r) == HandlerReturns(r) \/ LockAnswer(r) \/ WriteAnswer(r)
Browser == \/ \E r \in Requests : BrowserAsks(r)
           \/ \E i \in Invokes : BrowserAnswers(i)
           \/ BrowserSendsNoise \/ BrowserReads \/ BrowserLeaves

Gone == loop = "ended" /\ (\A i \in Invokes : invoke[i] \in {"idle", "done"}) /\ UNCHANGED vars

Next == \/ LoopStep \/ Browser \/ Gone
        \/ \E i \in Invokes : Invoke(i) \/ ContextEnds(i) \/ InvokeStep(i)
        \/ \E r \in Requests : TaskStep(r)

Spec == Init /\ [][Next]_vars

(* Goroutines that can run are run; nothing is expected of the browser.       *)
Fairness == /\ WF_vars(LoopStep)
            /\ \A i \in Invokes : WF_vars(InvokeStep(i))
            /\ \A r \in Requests : WF_vars(TaskStep(r))
FairSpec == Spec /\ Fairness

-----------------------------------------------------------------------------
(* Properties.                                                              *)

(* When HandleWebSocket has returned, every Invoke returns, even those        *)
(* without a deadline, those that wait for the mutex and those that begin     *)
(* afterwards.                                                              *)
InvokesEndWithBrowser ==
  \A i \in Invokes : loop = "ended" /\ invoke[i] # "idle" ~> invoke[i] = "done"

(* The end of its context ends an Invoke, wherever it is and whether or not   *)
(* the browser reads -- unless the mutex is held, for ever, by a Write that   *)
(* the browser does not take and that has no deadline itself.                *)
Stalled == mu \notin expired \cup {None} /\ Len(outbox) = Window
DeadlinesEndInvokes ==
  []<>~Stalled => \A i \in Invokes : i \in expired ~> invoke[i] = "done"
InvokesEnd == InvokesEndWithBrowser /\ DeadlinesEndInvokes

(* A browser that goes on reading gets an answer to each request it sent with *)
(* an id, whatever else is on its way in either direction, unless the handler *)
(* came to no response, or waits for what the browser itself has not answered. *)
WaitsForBrowser(r) ==
  \E i \in Invokes : /\ Within[i] = r /\ invoke[i] = "wait" /\ heard[i] \in {"idle", "running"}
RequestsAreAnswered ==
  []<>(outbox = <<>>) => \A r \in Requests :
    asked[r] = "open" /\ shape[r].id ~>
      asked[r] \in Answers \/ answer[r] \in NoResponse \/ link = "lost" \/ WaitsForBrowser(r)

(* What the loop and the handlers send as an answer answers a request that has *)
(* an id, is sent once, and only when the loop or the mutex's holder has it.  *)
AnswersAreForRequests ==
  \A j \in DOMAIN outbox : outbox[j].kind = "answer" =>
    /\ shape[outbox[j].of].id /\ task[outbox[j].of] = "ended"
    /\ \A l \in DOMAIN outbox : outbox[l].kind = "answer" /\ outbox[l].of = outbox[j].of => l = j

(* Each Invoke and each request is one of module Rpc: its callee takes it up   *)
(* once, and its caller gets what the callee came to first, and nothing else.  *)
CallerState(k) ==
  IF k \in Requests THEN asked[k]
  ELSE CASE invoke[k] = "idle" -> "idle" [] invoke[k] = "done" -> outcome[k] [] OTHER -> "open"
CalleeState(k) ==
  IF k \in Invokes THEN heard[k]
  ELSE CASE task[k] = "idle" -> "idle" [] task[k] = "handler" -> "running"
         [] OTHER -> IF answer[k] \in NoResponse THEN "silent" ELSE answer[k]
AsRpc == INSTANCE Rpc WITH Calls <- Requests \cup Invokes, Verdicts <- Answers \cup Responses,
                           caller <- [k \in Requests \cup Invokes |-> CallerState(k)],
                           callee <- [k \in Requests \cup Invokes |-> CalleeState(k)]
ImplementsRpc == AsRpc!Spec
=============================================================================
