------------------------------- MODULE Client -------------------------------
(***************************************************************************)
(* Invoke on the Holon-RPC client (pkg/holonrpc/client.go), on top of the  *)
(* connection management of ClientLifecycle: a call takes the current      *)
(* connection, registers a channel in the pending map, writes its request  *)
(* under sendMu, and then waits for the channel, its own context and the   *)
(* receive context of its connection.  The read loop delivers responses    *)
(* through the map; onDisconnect and Close fail every call in it.  sendMu is *)
(* also taken by the answers to what the server sends: the read loop's own,  *)
(* to malformed messages, and those of the handlers of its requests.         *)
(***************************************************************************)
EXTENDS ClientLifecycle, Naturals, Sequences

CONSTANTS Calls,        \* one Invoke each; its id is nextClientID at that time
          Handlers,     \* goroutines of handleRequest, used again when they end
          Replies,      \* what the peer may send back: see Verdict
          StaleIds,     \* ids no call waits for, which the peer may answer too
          MaxInbox      \* bound on the responses in flight on a connection

ASSUME CallsAssumption == None \notin Calls \cup {"result", "error", "unavailable"}
ASSUME SendersAssumption == /\ None \notin Handlers /\ Calls \cap Handlers = {}
                            /\ Conns \cap (Calls \cup Handlers) = {}
                            /\ Calls \cap StaleIds = {}
ASSUME RepliesAssumption == Replies \subseteq {"result", "error", "badversion"}

VARIABLES
  call, on,             \* each call: where it is, the connection it captured
  expired,              \* the contexts of calls that are done
  ch,                   \* each call's response channel (capacity 1)
  pending,              \* the calls registered in c.pending
  swapped,              \* failAllPending of a read loop, or of Close (at None): the
                        \*   map it has taken, if any, whose calls it has yet to fail
  sendMu,               \* the call, read loop or handler that holds sendMu
  via, under,           \* each handler: its connection; the context of each answer
  outcome,              \* what Invoke returns
  inbox,                \* responses in flight, by connection
  reached, answered     \* requests the peer can answer, answers it gave (history)

answerVars == <<via, under>>
callVars == <<call, on, expired, ch, pending, swapped, sendMu, answerVars, outcome,
              inbox, reached, answered>>
allVars == <<vars, callVars>>

Responses == (Calls \cup StaleIds) \X Replies
Failers   == Conns \cup {None}
Answerers == Conns \cup Handlers
Senders   == Calls \cup Answerers

Outcomes == {"result", "error", "unavailable", "connclosed", "deadline",
             "writefailed", "closed", "notconnected", "unencodable"}

CallsTypeOK ==
  /\ call \in [Calls -> {"idle", "register", "lock", "write", "wait", "leave", "done"}]
  /\ on \in [Calls -> Conns \cup {None}]
  /\ expired \in [Calls -> BOOLEAN]
  /\ ch \in [Calls -> {"result", "error", "unavailable", None}]
  /\ pending \subseteq Calls /\ swapped \in [Failers -> SUBSET SUBSET Calls]
  /\ sendMu \in Senders \cup {None}
  /\ \A h \in Handlers : sendMu = h => via[h] # None
  /\ via \in [Handlers -> Conns \cup {None}] /\ under \in [Answerers -> Conns \cup {None}]
  /\ outcome \in [Calls -> Outcomes \cup {None}]
  /\ inbox \in [Conns -> Seq(Responses)]
  /\ reached \subseteq Calls /\ answered \subseteq Calls \X Replies
  /\ \A k \in Calls : call[k] \notin {"idle", "done"} => on[k] # None

CallsInit ==
  /\ call = [k \in Calls |-> "idle"] /\ on = [k \in Calls |-> None]
  /\ expired = [k \in Calls |-> FALSE] /\ ch = [k \in Calls |-> None]
  /\ pending = {} /\ swapped = [f \in Failers |-> {}] /\ sendMu = None
  /\ via = [h \in Handlers |-> None] /\ under = [x \in Answerers |-> None]
  /\ outcome = [k \in Calls |-> None]
  /\ inbox = [c \in Conns |-> <<>>] /\ reached = {} /\ answered = {}

Active(k) == call[k] \notin {"idle", "done"}

(* Who writes or waits to write: on which connection, and whether the context *)
(* its Write is given is done.  An answer is given the receive context, or no  *)
(* context when there was none, and a Write that is not told may go on for ever. *)
Answering(x) == IF x \in Handlers THEN via[x] # None ELSE loop[x] = "answer"
Carrier(x)   == IF x \in Calls THEN on[x] ELSE IF x \in Handlers THEN via[x] ELSE x
Cut(x)       == IF x \in Calls THEN expired[x] ELSE under[x] # None /\ rxDone[under[x]]
Told(x)      == Cut(x) \/ sock[Carrier(x)] # "open"

-----------------------------------------------------------------------------
(* Invoke, call by call.                                                    *)

(* currentConn refuses, and Invoke returns at once ...                      *)
Refuse(k) ==
  /\ call[k] = "idle" /\ (closed \/ ws = None)
  /\ call' = [call EXCEPT ![k] = "done"]
  /\ outcome' = [outcome EXCEPT ![k] = IF closed THEN "closed"
                                       ELSE IF session # None THEN "unavailable"
                                       ELSE "notconnected"]
  /\ UNCHANGED <<vars, on, expired, ch, pending, swapped, sendMu, answerVars, inbox, reached, answered>>

(* ... or captures the connection and its receive context.                  *)
CurrentConn(k) ==
  /\ call[k] = "idle" /\ ~closed /\ ws # None
  /\ call' = [call EXCEPT ![k] = "register"]
  /\ on' = [on EXCEPT ![k] = ws]
  /\ UNCHANGED <<vars, expired, ch, pending, swapped, sendMu, answerVars, outcome, inbox, reached,
                 answered>>

(* The parameters of a call can be encoded, or the call ends here.          *)
Register(k) ==
  /\ call[k] = "register"
  /\ pending' = pending \cup {k}
  /\ \/ call' = [call EXCEPT ![k] = "lock"] /\ UNCHANGED outcome
     \/ /\ call' = [call EXCEPT ![k] = "leave"]
        /\ outcome' = [outcome EXCEPT ![k] = "unencodable"]
  /\ UNCHANGED <<vars, on, expired, ch, swapped, sendMu, answerVars, inbox, reached, answered>>

(* sendMu is taken without regard to the call's context.                    *)
LockSend(k) ==
  /\ call[k] = "lock" /\ sendMu = None
  /\ call' = [call EXCEPT ![k] = "write"]
  /\ sendMu' = k
  /\ UNCHANGED <<vars, on, expired, ch, pending, swapped, answerVars, outcome, inbox, reached, answered>>

(* A Write into a connection the peer has lost may succeed, unread.         *)
Write(k) ==
  /\ call[k] = "write" /\ sock[on[k]] # "closed"
  /\ call' = [call EXCEPT ![k] = "wait"]
  /\ sendMu' = None
  /\ reached' = IF sock[on[k]] = "open" THEN reached \cup {k} ELSE reached
  /\ UNCHANGED <<vars, on, expired, ch, pending, swapped, answerVars, outcome, inbox, answered>>

(* A connection that closes loses what was in flight on it.                 *)
InFlightIsLost ==
  /\ inbox' = [c \in Conns |-> IF sock'[c] = "closed" THEN <<>> ELSE inbox[c]]
  /\ reached' = {k \in reached : sock'[on[k]] # "closed"}

(* Mutant: sendMu is not unlocked after an error.                            *)
ErrorKeepsMutex(k) ==
  /\ call[k] = "write"
  /\ call' = [call EXCEPT ![k] = "leave"]
  /\ outcome' = [outcome EXCEPT ![k] = "writefailed"]
  /\ UNCHANGED <<on, expired, ch, pending, swapped, sendMu, answerVars, answered>>

WriteReturnsError(k) ==
  /\ call[k] = "write"
  /\ call' = [call EXCEPT ![k] = "leave"]
  /\ outcome' = [outcome EXCEPT ![k] = "writefailed"]
  /\ sendMu' = None
  /\ UNCHANGED <<on, expired, ch, pending, swapped, answerVars, answered>>

WriteFails(k) ==
  /\ WriteReturnsError(k) /\ sock[on[k]] # "open"
  /\ UNCHANGED <<vars, inbox, reached>>

(* Mutant: the Write is given a context that never ends.                    *)
WriteIgnoresContext(k) ==
  /\ WriteReturnsError(k) /\ expired[k] /\ sock[on[k]] # "open"
  /\ UNCHANGED <<vars, inbox, reached>>

(* The context ends before the Write, or during it: then the library closes *)
(* the connection all calls share.                                          *)
WriteExpires(k) ==
  /\ WriteReturnsError(k) /\ expired[k]
  /\ UNCHANGED vars \/ Sever(on[k])
  /\ InFlightIsLost

(* The three cases of the final select, in any order when several are ready. *)
Returns(k, o) ==
  /\ call[k] = "wait"
  /\ call' = [call EXCEPT ![k] = "leave"]
  /\ outcome' = [outcome EXCEPT ![k] = o]
  /\ UNCHANGED <<vars, on, expired, pending, swapped, sendMu, answerVars, inbox, reached, answered>>
TakeResponse(k)   == Returns(k, ch[k]) /\ ch[k] # None /\ ch' = [ch EXCEPT ![k] = None]
ContextEnds(k)    == Returns(k, "deadline") /\ expired[k] /\ UNCHANGED ch
ConnectionEnds(k) == Returns(k, "connclosed") /\ rxDone[on[k]] /\ UNCHANGED ch

(* The deferred delete.  Its channel, its context and what it returned are    *)
(* nothing to the client any more.                                           *)
Unregister(k) ==
  /\ call[k] = "leave"
  /\ call' = [call EXCEPT ![k] = "done"] /\ pending' = pending \ {k}
  /\ ch' = [ch EXCEPT ![k] = None] /\ outcome' = [outcome EXCEPT ![k] = None]
  /\ expired' = [expired EXCEPT ![k] = FALSE]
  /\ UNCHANGED <<vars, on, swapped, sendMu, answerVars, inbox, reached, answered>>

-----------------------------------------------------------------------------
(* What the other goroutines do to calls.                                   *)

(* handleResponse looks the id up and sends without blocking; a response of  *)
(* another JSON-RPC version is turned into an error.                         *)
Verdict(reply) == IF reply = "badversion" THEN "error" ELSE reply
RespondToAnyone(k, reply) ==       \* mutant: the id is not compared
  IF pending = {} THEN ch' = ch ELSE \E j \in pending : ch' = [ch EXCEPT ![j] = Verdict(reply)]
HandleResponse(k, reply) ==
  ch' = IF k \in pending /\ ch[k] = None THEN [ch EXCEPT ![k] = Verdict(reply)] ELSE ch

ReceiveResponse(c) ==
  /\ inbox[c] # <<>> /\ Receive(c) /\ loop'[c] = "read"
  /\ HandleResponse(Head(inbox[c])[1], Head(inbox[c])[2])
  /\ inbox' = [inbox EXCEPT ![c] = Tail(@)]
  /\ UNCHANGED <<call, on, expired, pending, swapped, sendMu, answerVars, outcome, reached,
                 answered>>

(* failAllPending swaps the map under pendingMu, and then, without it, answers *)
(* every channel that was in it with code 14.                                *)
Due(f, k) == \E map \in swapped[f] : k \in map
SwapPending(f) ==
  /\ swapped[f] = {}
  /\ swapped' = [swapped EXCEPT ![f] = {pending}] /\ pending' = {}
  /\ UNCHANGED <<vars, call, on, expired, ch, sendMu, answerVars, outcome, inbox, reached,
                 answered>>
ReaderSwaps(c) == loop[c] = "fail" /\ SwapPending(c)
CloserSwaps    == closer = "fail" /\ SwapPending(None)

FailSwapped(f) ==
  /\ swapped[f] # {}
  /\ ch' = [k \in Calls |-> IF Due(f, k) /\ ch[k] = None THEN "unavailable" ELSE ch[k]]
  /\ swapped' = [swapped EXCEPT ![f] = {}]
  /\ UNCHANGED <<call, on, expired, pending, sendMu, answerVars, outcome, inbox, reached,
                 answered>>
ReaderFails(c) == FailPending(c) /\ FailSwapped(c)
CloserFails    == CloseFailsPending /\ FailSwapped(None)

(* The identity of a connection is used again only when no call and no answer *)
(* refers to it.                                                             *)
Bystanders ==
  /\ InFlightIsLost
  /\ \A c \in Conns : sock[c] = "closed" /\ sock'[c] = "open" =>
       /\ \A k \in Calls : on[k] = c => ~Active(k)
       /\ \A x \in Answerers : c \in {Carrier(x), under[x]} => ~Answering(x)
  /\ UNCHANGED <<call, on, expired, ch, pending, swapped, sendMu, answerVars, outcome, answered>>

(* Anything else the server sends is dropped, starts a handler, or is answered *)
(* by the read loop itself because it is malformed.                          *)
ReceiveOther(c) ==
  /\ sock[c] = "open" /\ Receive(c)
  /\ \/ loop'[c] = "read" /\ UNCHANGED answerVars
     \/ /\ loop'[c] = "read"
        /\ \E h \in Handlers : /\ via[h] = None
                               /\ via' = [via EXCEPT ![h] = c]
                               /\ under' = [under EXCEPT ![h] = rxCtx]
     \/ loop'[c] = "answer" /\ under' = [under EXCEPT ![c] = rxCtx] /\ UNCHANGED via
  /\ UNCHANGED <<call, on, expired, ch, pending, swapped, sendMu, outcome, inbox, reached,
                 answered>>

-----------------------------------------------------------------------------
(* The answers: like a call's, their Writes need sendMu.                     *)

AnswerLocks(x) ==
  /\ Answering(x) /\ sendMu = None
  /\ sendMu' = x
  /\ UNCHANGED <<vars, call, on, expired, ch, pending, swapped, answerVars, outcome, inbox,
                 reached, answered>>

(* Whether the Write succeeded is ignored.                                   *)
AnswerReturns(x) ==
  /\ sendMu = x /\ sendMu' = None
  /\ under' = [under EXCEPT ![x] = None]
  /\ IF x \in Handlers THEN via' = [via EXCEPT ![x] = None] /\ UNCHANGED vars
                        ELSE AnswerEnds(x) /\ UNCHANGED via
  /\ UNCHANGED <<call, on, expired, ch, pending, swapped, outcome, inbox, reached, answered>>
AnswerSent(x)  == AnswerReturns(x) /\ sock[Carrier(x)] # "closed"
AnswerFails(x) == AnswerReturns(x) /\ Told(x)

(* The context ends during the Write.                                        *)
AnswerSevers(x) ==
  /\ sendMu = x /\ Cut(x) /\ Sever(Carrier(x))
  /\ InFlightIsLost
  /\ UNCHANGED <<call, on, expired, ch, pending, swapped, sendMu, answerVars, outcome, answered>>

(* A handler of a notification answers nothing.                              *)
HandlerReturns(h) ==
  /\ via[h] # None /\ sendMu # h
  /\ via' = [via EXCEPT ![h] = None] /\ under' = [under EXCEPT ![h] = None]
  /\ UNCHANGED <<vars, call, on, expired, ch, pending, swapped, sendMu, outcome, inbox, reached,
                 answered>>

-----------------------------------------------------------------------------

(* The environment: a context ends, the peer answers a request it has got,   *)
(* once or several times, in any order, or answers what nobody asked.        *)
Expire(k) ==
  /\ Active(k) /\ ~expired[k]
  /\ expired' = [expired EXCEPT ![k] = TRUE]
  /\ UNCHANGED <<vars, call, on, ch, pending, swapped, sendMu, answerVars, outcome, inbox, reached,
                 answered>>

Answer(k, reply) ==
  /\ k \in reached /\ sock[on[k]] = "open"
  /\ Len(inbox[on[k]]) < MaxInbox
  /\ inbox' = [inbox EXCEPT ![on[k]] = Append(@, <<k, reply>>)]
  /\ answered' = answered \cup {<<k, reply>>}
  /\ UNCHANGED <<vars, call, on, expired, ch, pending, swapped, sendMu, answerVars, outcome, reached>>

AnswerUnasked(c, id, reply) ==
  /\ sock[c] = "open" /\ Len(inbox[c]) < MaxInbox
  /\ inbox' = [inbox EXCEPT ![c] = Append(@, <<id, reply>>)]
  /\ UNCHANGED <<vars, call, on, expired, ch, pending, swapped, sendMu, answerVars, outcome,
                 reached, answered>>

-----------------------------------------------------------------------------

InvokeStep(k) == \/ Refuse(k) \/ CurrentConn(k) \/ Register(k)
                 \/ LockSend(k) \/ Write(k) \/ WriteFails(k) \/ WriteExpires(k)
                 \/ TakeResponse(k) \/ ContextEnds(k) \/ ConnectionEnds(k) \/ Unregister(k)
AnswerStep(x) == AnswerLocks(x) \/ AnswerSent(x) \/ AnswerFails(x) \/ AnswerSevers(x)
LoseConn(c) == Lose(c) /\ Bystanders

ClientNext ==
  \/ /\ ~Panicked
     /\ \/ ProgramStep /\ Bystanders
        \/ CloserSwaps \/ CloserFails
        \/ \E c \in Conns : \/ ReaderSwaps(c) \/ ReaderFails(c)
                            \/ ReceiveResponse(c) \/ ReceiveOther(c) \/ LoseConn(c)
        \/ \E x \in Answerers : AnswerStep(x)
        \/ \E h \in Handlers : HandlerReturns(h)
        \/ \E k \in Calls : InvokeStep(k) \/ Expire(k) \/ \E r \in Replies : Answer(k, r)
        \/ \E c \in Conns, id \in StaleIds, r \in Replies : AnswerUnasked(c, id, r)
  \/ Over /\ UNCHANGED callVars

ClientInit == Init /\ CallsInit
ClientSpec == ClientInit /\ [][ClientNext]_allVars

(* As in ClientLifecycle, goroutine by goroutine: the read loop also reads   *)
(* what has arrived, and a call goes on when it can, except that a Write     *)
(* into an open connection may block for ever, a context may last for ever,  *)
(* a handler may run for ever and a call need not be made.  Nobody is passed  *)
(* over for ever at sendMu: a sync.Mutex hands itself to who has waited for it *)
(* for a millisecond.                                                        *)
Reads(c) == \/ ReadStep(c) /\ Bystanders
            \/ ReaderSwaps(c) \/ ReaderFails(c)
            \/ ReceiveResponse(c) \/ AnswerFails(c)
Goes(k)  == InvokeStep(k) /\ ~CurrentConn(k) /\ ~Refuse(k) /\ ~Write(k)
CloserGoes == (CloseStep /\ Bystanders) \/ CloserSwaps \/ CloserFails
ClientFairness ==
  /\ \A t \in Connectors : WF_allVars(~Panicked /\ ConnectStep(t) /\ Bystanders)
  /\ \A r \in Sessions : WF_allVars(~Panicked /\ LoopStep(r) /\ Bystanders)
  /\ WF_allVars(~Panicked /\ CloserGoes)
  /\ \A c \in Conns : WF_allVars(~Panicked /\ Reads(c)) /\ SF_allVars(~Panicked /\ AnswerLocks(c))
  /\ \A h \in Handlers : WF_allVars(~Panicked /\ AnswerFails(h))
  /\ \A k \in Calls : WF_allVars(~Panicked /\ Goes(k)) /\ SF_allVars(~Panicked /\ LockSend(k))
ClientFairSpec == ClientSpec /\ ClientFairness

-----------------------------------------------------------------------------
(* Properties.                                                              *)

(* Invoke returns a result or the peer's error only when the peer answered   *)
(* this very call so, however late, duplicated or reordered answers are.      *)
Answered(k, verdict) == \E r \in Replies : <<k, r>> \in answered /\ Verdict(r) = verdict
ReplyIntegrity ==
  \A k \in Calls : outcome[k] \in {"result", "error"} => Answered(k, outcome[k])

(* A call that can still be answered is in the map; one that is not in it any *)
(* more has been failed through its channel, or is about to be; and no call   *)
(* stays in the map after it returned.                                       *)
PendingMap ==
  \A k \in Calls :
    /\ call[k] \in {"lock", "write", "wait"} =>
         k \in pending \/ ch[k] # None \/ \E f \in Failers : Due(f, k)
    /\ call[k] \in {"idle", "done"} => k \notin pending

(* A call that waits with nothing in its channel waits on the connection in   *)
(* use, whose read loop is running and will tell it when the connection ends, *)
(* or on the one that Close is about to cancel.                               *)
NoStrandedCall ==
  \A k \in Calls : call[k] = "wait" /\ ch[k] = None /\ ~rxDone[on[k]] =>
    IF closed THEN on[k] = closeWs /\ closer = "stop"
    ELSE on[k] = ws /\ loop[ws] \in Reading \cup {"disconnect"}

(* Without any deadline, every call returns when the client is closed, and a  *)
(* call whose request is out when its connection is lost -- whether the peer  *)
(* is gone or a call whose context ended has closed what they share.         *)
LossEndsCalls ==
  \A k \in Calls :
    (closed /\ Active(k)) \/ (call[k] = "wait" /\ sock[on[k]] # "open")
    ~> call[k] = "done" \/ Panicked

(* A call whose context has ended returns, unless from some time on sendMu is  *)
(* never to be had: its holder, a call, the read loop or a handler, writes     *)
(* into an open connection and the context of that Write is not done.         *)
WriteStuck == sendMu # None /\ ~Told(sendMu)
DeadlinesEndCalls ==
  []<>~WriteStuck => \A k \in Calls : expired[k] ~> call[k] = "done" \/ Panicked

(* Where connections are made one way only, Close returns: whoever holds sendMu *)
(* when it has cancelled and closed the connection lets it go, so that the     *)
(* read loop gets past an answer of its own and finds its connection closed.   *)
CloseEnds == OneWayIn => (closer = "stop" ~> closer = "returned" \/ Panicked)

(* AGENT.md:398 on reconnection, "pending Invoke calls during disconnection   *)
(* fail with UNAVAILABLE (code 14); calls after reconnection succeed": a call *)
(* on a connection that stands is not failed.                                *)
HealthyCallsNotFailed ==
  \A k \in Calls : call[k] = "leave" /\ outcome[k] = "unavailable" => rxDone[on[k]]
=============================================================================
