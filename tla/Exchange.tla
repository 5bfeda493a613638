------------------------------ MODULE Exchange ------------------------------
(***************************************************************************)
(* One connection between the Holon-RPC client and the server (client.go   *)
(* and server.go of pkg/holonrpc), both of which call each other and serve  *)
(* each other's calls at the same time.  Each end has one goroutine that   *)
(* reads, a goroutine per request it serves, a goroutine per call it makes, *)
(* and one mutex for all of them to write under; what is on its way in each *)
(* direction is bounded, so that a Write blocks while the other end does    *)
(* not read.  A handler may call back over the connection that called it.   *)
(*                                                                         *)
(* The connection is made and lost as in ClientLifecycle and Server; here  *)
(* it stands from the beginning, until it is lost.                          *)
(***************************************************************************)
EXTENDS Naturals, Sequences, Envelope

CONSTANTS Calls, Caller,   \* the calls, and the end that makes each of them
          Parent,          \* the call whose handler makes it, or None
          Messages,        \* the requests considered
          Window,          \* messages on their way in one direction
          Noisy, Noises, MaxNoise,  \* ends that get messages of no use, which, how many
          None

Ends == {"client", "server"}
Other(e) == IF e = "client" THEN "server" ELSE "client"
Callee(k) == Other(Caller[k])

(* The shapes of a request, as far as its treatment depends on them.         *)
Shapes == [id : RawIDs, version : {"2.0", "other"},
           method : {"blank", "rpc.heartbeat", "known", "unknown"}, params : RawParams]

ASSUME CallerAssumption == Caller \in [Calls -> Ends]
ASSUME ParentAssumption ==
  /\ Parent \in [Calls -> Calls \cup {None}]
  /\ \A k \in Calls : Parent[k] # None => Callee(Parent[k]) = Caller[k]
ASSUME ExchangeMessagesAssumption == Messages \subseteq Shapes
ASSUME WindowAssumption == Window \in Nat \ {0} /\ MaxNoise \in Nat
ASSUME NoisyAssumption == Noisy \subseteq Ends /\ Noises \subseteq Frames
VARIABLES
  link, over,      \* the connection; the ends that know that it is lost
  wire,            \* messages on their way to each end
  reader,          \* the read loop of each end
  sendMu,          \* who holds the mutex of each end
  call, shape,     \* each call: where it is, the request it sent
  ch,              \* its response channel (capacity 1)
  outcome,         \* what it returned
  task, verdict,   \* each request: where its goroutine is, what it comes to
  noise            \* messages without a sense so far

vars == <<link, over, wire, reader, sendMu, call, shape, ch, outcome, task, verdict, noise>>
callVars == <<call, shape, ch, outcome>>
taskVars == <<task, verdict>>

Verdicts == {"result", "error", "invalid request", "invalid params", "method not found"}
Writers == ({"call", "task"} \X Calls) \cup ({"reader"} \X Ends)
ASSUME ExchangeNoneAssumption ==
  None \notin Calls \cup Shapes \cup Verdicts \cup Writers \cup {"silent", "failed", "sent"}
Wire == [kind : {"request"}, k : Calls]
        \cup [kind : {"response"}, k : Calls, verdict : Verdicts]
        \cup [kind : {"frame"}, frame : Frames] \cup [kind : {"refusal"}]

TypeOK ==
  /\ link \in {"up", "lost"} /\ over \in [Ends -> BOOLEAN]
  /\ wire \in [Ends -> Seq(Wire)] /\ \A e \in Ends : Len(wire[e]) <= Window
  /\ reader \in [Ends -> {"read", "lock", "write", "ended"}]
  /\ sendMu \in [Ends -> Writers \cup {None}]
  /\ call \in [Calls -> {"idle", "lock", "write", "wait", "done"}]
  /\ shape \in [Calls -> Messages \cup {None}]
  /\ ch \in [Calls -> Verdicts \cup {None}]
  /\ outcome \in [Calls -> Verdicts \cup {"failed", "sent", None}]
  /\ task \in [Calls -> {"idle", "handler", "lock", "write", "ended"}]
  /\ verdict \in [Calls -> Verdicts \cup {"silent", None}]
  /\ noise \in 0..MaxNoise

Init ==
  /\ link = "up" /\ over = [e \in Ends |-> FALSE]
  /\ wire = [e \in Ends |-> <<>>] /\ reader = [e \in Ends |-> "read"]
  /\ sendMu = [e \in Ends |-> None]
  /\ call = [k \in Calls |-> "idle"] /\ shape = [k \in Calls |-> None]
  /\ ch = [k \in Calls |-> None] /\ outcome = [k \in Calls |-> None]
  /\ task = [k \in Calls |-> "idle"] /\ verdict = [k \in Calls |-> None]
  /\ noise = 0

-----------------------------------------------------------------------------
(* Writing, at either end: under the mutex, one message after the other.     *)

Lock(e, w) == sendMu[e] = None /\ sendMu' = [sendMu EXCEPT ![e] = w]
Unlock(e)  == sendMu' = [sendMu EXCEPT ![e] = None]

Send(e, m) ==
  /\ link = "up" /\ Len(wire[Other(e)]) < Window
  /\ wire' = [wire EXCEPT ![Other(e)] = Append(@, m)]
  /\ Unlock(e)

(* A connection that is lost takes what it is given or refuses it.           *)
SendIsLost(e) == link = "lost" /\ Unlock(e) /\ UNCHANGED wire

-----------------------------------------------------------------------------
(* Invoke.  Its requests have an id of their own, so that a response can be  *)
(* told by it; a peer's program may send others.                             *)

CallAt(k, from, to) == call[k] = from /\ call' = [call EXCEPT ![k] = to]

UnprefixedRequest(e) ==   \* mutant: the server counts like the client
  [id : {"string"}, version : {"2.0"},
   method : {"rpc.heartbeat", "known", "unknown"}, params : {"object"}]
InvokedRequest(e) ==
  [id : {IF e = "server" THEN "s string" ELSE "string"}, version : {"2.0"},
   method : {"rpc.heartbeat", "known", "unknown"}, params : {"object"}]

(* A handler calls back only while it runs.                                  *)
Ask(k) ==
  /\ CallAt(k, "idle", "lock") /\ ~over[Caller[k]]
  /\ Parent[k] # None => task[Parent[k]] = "handler"
  /\ \E m \in (Messages \ (InvokedRequest("client") \cup InvokedRequest("server")))
             \cup InvokedRequest(Caller[k]) :
       m \in Messages /\ shape' = [shape EXCEPT ![k] = m]
  /\ UNCHANGED <<link, over, wire, reader, sendMu, ch, outcome, taskVars, noise>>

LockRequest(k) ==
  /\ CallAt(k, "lock", "write") /\ Lock(Caller[k], <<"call", k>>)
  /\ UNCHANGED <<link, over, wire, reader, shape, ch, outcome, taskVars, noise>>

Identified(k) == hasID(shape[k].id)
Written(k) ==
  /\ call[k] = "write"
  /\ IF Identified(k)
     THEN CallAt(k, "write", "wait") /\ UNCHANGED outcome
     ELSE CallAt(k, "write", "done") /\ outcome' = [outcome EXCEPT ![k] = "sent"]

WriteRequest(k) ==
  /\ Written(k) /\ Send(Caller[k], [kind |-> "request", k |-> k])
  /\ UNCHANGED <<link, over, reader, shape, ch, taskVars, noise>>

WriteRequestIsLost(k) ==
  /\ \/ Written(k)
     \/ CallAt(k, "write", "done") /\ outcome' = [outcome EXCEPT ![k] = "failed"]
  /\ SendIsLost(Caller[k])
  /\ UNCHANGED <<link, over, reader, shape, ch, taskVars, noise>>

(* The client's Write has the context of the call, and a Write that is given *)
(* up closes the connection.                                                 *)
GiveUpWriting(k) ==
  /\ Caller[k] = "client" /\ CallAt(k, "write", "done")
  /\ outcome' = [outcome EXCEPT ![k] = "failed"]
  /\ Unlock(Caller[k])
  /\ link' = "lost" /\ wire' = [e \in Ends |-> <<>>]
  /\ UNCHANGED <<over, reader, shape, ch, taskVars, noise>>

Returns(k, o) ==
  /\ CallAt(k, "wait", "done") /\ outcome' = [outcome EXCEPT ![k] = o]
  /\ UNCHANGED <<link, over, wire, reader, sendMu, shape, ch, taskVars, noise>>
TakeResponse(k)   == ch[k] # None /\ Returns(k, ch[k])
ConnectionEnds(k) == over[Caller[k]] /\ Returns(k, "failed")
ContextEnds(k)    == Returns(k, "failed")

-----------------------------------------------------------------------------
(* The read loop.  It starts a goroutine per request and delivers responses; *)
(* only to what is neither does it answer itself.                            *)

(* What handleRequest and handlePeerRequest come to, by the first of their    *)
(* tests that applies.  (Requests that the server routes: module Routing.)    *)
ClientVerdict(m) ==
  CASE m.version # "2.0"                     -> "invalid request"
    [] m.method = "blank"                    -> "invalid request"
    [] m.method = "rpc.heartbeat"            -> "result"
    [] hasID(m.id) /\ ~isServerID(m.id)      -> "invalid request"
    [] decodeParams(m.params) = "error"      -> "invalid params"
    [] m.method = "unknown"                  -> "method not found"
    [] OTHER                                 -> "handler"
ServerVerdict(m) ==
  CASE m.version # "2.0"                     -> "invalid request"
    [] m.method = "blank"                    -> "invalid request"
    [] m.method = "rpc.heartbeat"            -> "result"
    [] decodeParams(m.params) = "error"      -> "invalid params"
    [] m.method = "unknown"                  -> "method not found"
    [] OTHER                                 -> "handler"
Verdict(e, m) == IF e = "client" THEN ClientVerdict(m) ELSE ServerVerdict(m)

TaskAt(k, from, to) == task[k] = from /\ task' = [task EXCEPT ![k] = to]

(* A request without an id is never answered.                                *)
RepliesAlways(k, from, v) ==   \* mutant
  TaskAt(k, from, "lock") /\ verdict' = [verdict EXCEPT ![k] = v]
Replies(k, from, v) ==
  /\ task[k] = from
  /\ TaskAt(k, from, IF Identified(k) THEN "lock" ELSE "ended")
  /\ verdict' = [verdict EXCEPT ![k] = IF Identified(k) THEN v ELSE "silent"]

ReceiveRequest(e, k) ==
  /\ IF Verdict(e, shape[k]) = "handler"
     THEN TaskAt(k, "idle", "handler") /\ UNCHANGED verdict
     ELSE Replies(k, "idle", Verdict(e, shape[k]))
  /\ UNCHANGED <<reader, callVars>>

(* Mutant: responses are taken to come in the order of the calls.             *)
ResponseInOrder(k, v) ==
  /\ \/ \E n \in Calls : /\ Caller[n] = Caller[k] /\ call[n] = "wait" /\ ch[n] = None
                         /\ ch' = [ch EXCEPT ![n] = v]
     \/ UNCHANGED ch
  /\ UNCHANGED <<reader, call, shape, outcome, taskVars>>

(* handleResponse: a call that has returned, or has its response, gets none.  *)
ReceiveResponse(k, v) ==
  /\ ch' = IF call[k] = "wait" /\ ch[k] = None THEN [ch EXCEPT ![k] = v] ELSE ch
  /\ UNCHANGED <<reader, call, shape, outcome, taskVars>>

ReceiveFrame(e, f) ==
  /\ reader' = IF Refusal(f) = "nothing" THEN reader ELSE [reader EXCEPT ![e] = "lock"]
  /\ UNCHANGED <<callVars, taskVars>>

(* Mutant: requests are served by the read loop, which goes on only when the  *)
(* answer is out.                                                            *)
TakesWhenServed(e) == /\ reader[e] = "read" /\ wire[e] # <<>> /\ wire' = [wire EXCEPT ![e] = Tail(@)]
                      /\ \A k \in Calls : Callee(k) = e => task[k] \in {"idle", "ended"}
Takes(e) == reader[e] = "read" /\ wire[e] # <<>> /\ wire' = [wire EXCEPT ![e] = Tail(@)]

Receive(e) ==
  /\ Takes(e)
  /\ LET m == Head(wire[e])
     IN \/ m.kind = "request"   /\ ReceiveRequest(e, m.k)
        \/ m.kind = "response"  /\ ReceiveResponse(m.k, m.verdict)
        \/ m.kind = "frame"     /\ ReceiveFrame(e, m.frame)
        \/ m.kind = "refusal"   /\ UNCHANGED <<reader, callVars, taskVars>>
  /\ UNCHANGED <<link, over, sendMu, noise>>

ReaderAt(e, from, to) == reader[e] = from /\ reader' = [reader EXCEPT ![e] = to]

LockRefusal(e) ==
  /\ ReaderAt(e, "lock", "write") /\ Lock(e, <<"reader", e>>)
  /\ UNCHANGED <<link, over, wire, callVars, taskVars, noise>>

WriteRefusal(e) ==
  /\ ReaderAt(e, "write", "read")
  /\ Send(e, [kind |-> "refusal"]) \/ SendIsLost(e)
  /\ UNCHANGED <<link, over, callVars, taskVars, noise>>

(* The end's context is cancelled: its calls and its handlers see it.         *)
NoticeLoss(e) ==
  /\ link = "lost" /\ ReaderAt(e, "read", "ended")
  /\ over' = [over EXCEPT ![e] = TRUE]
  /\ UNCHANGED <<link, wire, sendMu, callVars, taskVars, noise>>

-----------------------------------------------------------------------------
(* handleRequest and handlePeerRequest from the handler on.                  *)

NestedAreDone(k) == \A n \in Calls : Parent[n] = k => call[n] \in {"idle", "done"}

(* sendResult answers a result that cannot be encoded with an error.          *)
HandlerReturns(k) ==
  /\ NestedAreDone(k)
  /\ \E v \in Values : Replies(k, "handler", IF marshalObject(v) = "error" THEN "error" ELSE "result")
  /\ UNCHANGED <<link, over, wire, reader, sendMu, callVars, noise>>

(* sendError sends nothing when the error's own data cannot be encoded; nor   *)
(* is anything sent when a handler of the server fails with a context error.  *)
HandlerFails(k) ==
  /\ NestedAreDone(k)
  /\ \/ Replies(k, "handler", "error")
     \/ TaskAt(k, "handler", "ended") /\ verdict' = [verdict EXCEPT ![k] = "silent"]
  /\ UNCHANGED <<link, over, wire, reader, sendMu, callVars, noise>>

(* callPeerHandler does not wait for the handler of a peer that is gone.      *)
AbandonHandler(k) ==
  /\ Callee(k) = "server" /\ over["server"]
  /\ TaskAt(k, "handler", "ended") /\ verdict' = [verdict EXCEPT ![k] = "silent"]
  /\ UNCHANGED <<link, over, wire, reader, sendMu, callVars, noise>>

LockResponse(k) ==
  /\ TaskAt(k, "lock", "write") /\ Lock(Callee(k), <<"task", k>>)
  /\ UNCHANGED <<link, over, wire, reader, callVars, verdict, noise>>

WriteResponse(k) ==
  /\ TaskAt(k, "write", "ended")
  /\ \/ Send(Callee(k), [kind |-> "response", k |-> k, verdict |-> verdict[k]])
     \/ SendIsLost(Callee(k))
  /\ UNCHANGED <<link, over, reader, callVars, verdict, noise>>

-----------------------------------------------------------------------------
(* The environment.                                                         *)

LoseConnection ==
  /\ link = "up" /\ link' = "lost"
  /\ wire' = [e \in Ends |-> <<>>]
  /\ UNCHANGED <<over, reader, sendMu, callVars, taskVars, noise>>

(* A message that is neither a request nor a response.                        *)
MakeNoise(e) ==
  /\ e \in Noisy /\ noise < MaxNoise /\ noise' = noise + 1
  /\ link = "up" /\ Len(wire[e]) < Window
  /\ \E f \in Noises : wire' = [wire EXCEPT ![e] = Append(@, [kind |-> "frame", frame |-> f])]
  /\ UNCHANGED <<link, over, reader, sendMu, callVars, taskVars>>

-----------------------------------------------------------------------------

CallStep(k) == \/ LockRequest(k) \/ WriteRequest(k) \/ WriteRequestIsLost(k)
               \/ TakeResponse(k) \/ ConnectionEnds(k)
TaskStep(k) == \/ HandlerReturns(k) \/ HandlerFails(k) \/ AbandonHandler(k)
               \/ LockResponse(k) \/ WriteResponse(k)
ReaderStep(e) == Receive(e) \/ LockRefusal(e) \/ WriteRefusal(e) \/ NoticeLoss(e)

Over == /\ \A e \in Ends : over[e]
        /\ \A k \in Calls : call[k] \in {"idle", "done"} /\ task[k] \in {"idle", "ended"}
        /\ UNCHANGED vars

Next ==
  \/ \E k \in Calls : Ask(k) \/ CallStep(k) \/ TaskStep(k) \/ GiveUpWriting(k) \/ ContextEnds(k)
  \/ \E e \in Ends : ReaderStep(e) \/ MakeNoise(e)
  \/ LoseConnection \/ Over

Spec == Init /\ [][Next]_vars

(* Goroutines that can run are run, handlers return when the calls they make *)
(* have; no context has to end, and the connection may stand for ever.       *)
Fairness == /\ \A k \in Calls : WF_vars(CallStep(k)) /\ WF_vars(TaskStep(k))
            /\ \A e \in Ends : WF_vars(ReaderStep(e))
FairSpec == Spec /\ Fairness

-----------------------------------------------------------------------------
(* Properties.                                                              *)

(* However the two directions fill up, and although handlers call back over  *)
(* the connection that called them, every call returns without a deadline,    *)
(* unless its handler, or one that it waits for, came to what is not sent.    *)
Under(k) == {n \in Calls : n = k \/ Parent[n] = k}
CallsReturn ==
  \A k \in Calls : call[k] \in {"lock", "write", "wait"} ~>
    call[k] = "done" \/ \E n \in Under(k) : verdict[n] = "silent"

(* Ids are what tells the ends' requests apart: a request that Invoke made,   *)
(* for a method the other end has, is never refused by the other end.         *)
OwnCallsAreServed ==
  \A k \in Calls :
    /\ shape[k] \in InvokedRequest(Caller[k]) /\ shape[k].method # "unknown"
    => outcome[k] \notin {"invalid request", "invalid params", "method not found"}

(* A request without an id is never answered, whatever is wrong with it.      *)
NotificationsAreNotAnswered ==
  \A e \in Ends : \A i \in DOMAIN wire[e] :
    wire[e][i].kind = "response" => Identified(wire[e][i].k)

(* The id decides, at both ends: who serves a request, and whether anything is *)
(* sent back.                                                                *)
IdsDecide == OwnCallsAreServed /\ NotificationsAreNotAnswered

(* Every call is one of module Rpc: its handler runs at most once, and its    *)
(* caller gets nothing but the verdict of its own request.                   *)
CallerState(k) == IF call[k] = "idle" THEN "idle"
                  ELSE IF call[k] # "done" THEN "open"
                  ELSE IF outcome[k] = "sent" THEN "failed" ELSE outcome[k]
CalleeState(k) == IF task[k] = "idle" THEN "idle"
                  ELSE IF task[k] = "handler" THEN "running" ELSE verdict[k]
AsRpc == INSTANCE Rpc WITH caller <- [k \in Calls |-> CallerState(k)],
                           callee <- [k \in Calls |-> CalleeState(k)]
ImplementsRpc == AsRpc!Spec
=============================================================================
