-------------------------- MODULE ClientLifecycle --------------------------
(***************************************************************************)
(* The connection management of the Holon-RPC client                      *)
(* (pkg/holonrpc/client.go): Connect, ConnectWithReconnect, Close, the    *)
(* read loop with its onDisconnect, the reconnect loop and                *)
(* disableReconnect, each as a goroutine whose steps are the sections of  *)
(* code between two operations another goroutine can observe.  The calls  *)
(* made through the client are added by module Client.                    *)
(*                                                                         *)
(* A WebSocket, its receive context, its cancel function and its done     *)
(* channel are created and dropped together: all four are named by one    *)
(* member of Conns.  Likewise a reconnect context with its cancel, its     *)
(* AfterFunc, its wake and its done channel is one member of Sessions.     *)
(* Both are recycled once no goroutine and no variable refers to them.     *)
(***************************************************************************)
CONSTANTS Connectors,   \* goroutines that call Connect or ConnectWithReconnect
          Sessions,     \* reconnect sessions
          Conns,        \* WebSocket connections
          Modes,        \* which of the two entry points the Connectors use
          None          \* Go's nil

ASSUME NoneAssumption == None \notin Conns \cup Sessions \cup Connectors
ASSUME DialersAssumption == Connectors \cap Sessions = {}
ASSUME ModesAssumption == Modes \subseteq {"Connect", "ConnectWithReconnect"}

VARIABLES
  ws, rxCtx, closed,    \* the fields of that name (client.go:25-29)
  session,              \* the six reconnect* fields (client.go:31-36)
  sock,                 \* what the transport is: open, lost by the peer, or closed here
  rxDone,               \* the receive contexts that were cancelled
  loop, readCtx, wakeOf,\* each readLoop: where it is, the context of its Read,
                        \*   onDisconnect's local reconnectWake
  wake, rctxDone, rloop,\* each session: its wake token, its context, its loop
  user, usess,          \* each connector: where it is, the session it registered
  dialed,               \* the connection a dialer holds and has not installed
  closer, closeWs, closeSession \* Close: where it is, what it captured

clientVars == <<ws, rxCtx, closed, session>>
connVars   == <<sock, rxDone, loop, readCtx, wakeOf>>
sessVars   == <<wake, rctxDone, rloop>>
userVars   == <<user, usess>>
closeVars  == <<closer, closeWs, closeSession>>
vars == <<clientVars, connVars, sessVars, userVars, dialed, closeVars>>

Dialers == Connectors \cup Sessions

TypeOK ==
  /\ ws \in Conns \cup {None} /\ rxCtx \in Conns \cup {None}
  /\ closed \in BOOLEAN /\ session \in Sessions \cup {None}
  /\ sock \in [Conns -> {"open", "lost", "closed"}]
  /\ rxDone \in [Conns -> BOOLEAN]
  /\ loop \in [Conns -> {"read", "blocked", "answer", "disconnect", "fail", "wake", "done", "panic"}]
  /\ readCtx \in [Conns -> Conns \cup {None}]
  /\ wakeOf \in [Conns -> Sessions \cup {None}]
  /\ wake \in [Sessions -> BOOLEAN] /\ rctxDone \in [Sessions -> BOOLEAN]
  /\ rloop \in [Sessions -> {"wait", "check", "dial", "install", "confirm", "delay", "done"}]
  /\ user \in [Connectors -> {"idle", "check", "dial", "install", "disable", "stop", "await"}]
  /\ usess \in [Connectors -> Sessions \cup {None}]
  /\ dialed \in [Dialers -> Conns \cup {None}]
  /\ closer \in {"idle", "stop", "awaitRead", "awaitLoop", "fail", "returned"}
  /\ closeWs \in Conns \cup {None} /\ closeSession \in Sessions \cup {None}
  \* a nil session is neither woken nor stopped
  /\ \A c \in Conns : loop[c] = "wake" => wakeOf[c] # None
  /\ \A t \in Connectors : user[t] \in {"disable", "stop", "await"} => usess[t] # None

Init ==
  /\ ws = None /\ rxCtx = None /\ closed = FALSE /\ session = None
  /\ sock = [c \in Conns |-> "closed"] /\ rxDone = [c \in Conns |-> TRUE]
  /\ loop = [c \in Conns |-> "done"]
  /\ readCtx = [c \in Conns |-> None] /\ wakeOf = [c \in Conns |-> None]
  /\ wake = [r \in Sessions |-> FALSE] /\ rctxDone = [r \in Sessions |-> TRUE]
  /\ rloop = [r \in Sessions |-> "done"]
  /\ user = [t \in Connectors |-> "idle"] /\ usess = [t \in Connectors |-> None]
  /\ dialed = [p \in Dialers |-> None]
  /\ closer = "idle" /\ closeWs = None /\ closeSession = None

-----------------------------------------------------------------------------
(* The guards the operations test under stateMu.                           *)

(* An identity is new: nothing in the program still refers to it.          *)
FreshConn(c) == /\ loop[c] = "done" /\ sock[c] = "closed"
                /\ \A p \in Dialers : dialed[p] # c
                /\ \A d \in Conns : loop[d] = "blocked" => readCtx[d] # c
FreshSession(r) == /\ rloop[r] = "done" /\ session # r
                   /\ \A t \in Connectors : usess[t] # r
                   /\ \A c \in Conns : loop[c] \in {"fail", "wake"} => wakeOf[c] # r

ReconnectUnlocked    == closed \/ ws # None        \* mutant: sessions overlap
InstallUnchecked     == FALSE                      \* mutant: no second look at closed
WakeBeforeDisconnect == IF closed \/ ws # None THEN None ELSE session \* mutant: ws not yet nil

ConnectRefused   == closed \/ ws # None
ReconnectRefused == closed \/ ws # None \/ session # None
InstallRefused   == closed
RedialRefused    == closed \/ ws # None
WakeTarget       == IF closed THEN None ELSE session

(* The connection and its read loop become the client's.                   *)
Install(c) == /\ ws' = c /\ rxCtx' = c
              /\ rxDone' = [rxDone EXCEPT ![c] = FALSE]
              /\ loop' = [loop EXCEPT ![c] = "read"]
              /\ UNCHANGED <<closed, session, sock, readCtx, wakeOf>>
Discard(c) == /\ sock' = [sock EXCEPT ![c] = "closed"]
              /\ UNCHANGED <<clientVars, rxDone, loop, readCtx, wakeOf>>

-----------------------------------------------------------------------------
(* Connect and ConnectWithReconnect, called by connector t.                 *)

CallConnect(t) ==
  /\ "Connect" \in Modes /\ user[t] = "idle"
  /\ user' = [user EXCEPT ![t] = "check"]
  /\ UNCHANGED <<clientVars, connVars, sessVars, usess, dialed, closeVars>>

CallConnectWithReconnect(t, r) ==
  /\ "ConnectWithReconnect" \in Modes /\ user[t] = "idle"
  /\ ~ReconnectRefused /\ FreshSession(r)
  /\ session' = r
  /\ wake' = [wake EXCEPT ![r] = FALSE]
  /\ rctxDone' = [rctxDone EXCEPT ![r] = FALSE]
  /\ rloop' = [rloop EXCEPT ![r] = "wait"]
  /\ user' = [user EXCEPT ![t] = "check"]
  /\ usess' = [usess EXCEPT ![t] = r]
  /\ UNCHANGED <<ws, rxCtx, closed, connVars, dialed, closeVars>>

(* Connect returns an error: ConnectWithReconnect goes on to disableReconnect. *)
ConnectFails(t) ==
  /\ user' = [user EXCEPT ![t] = IF usess[t] = None THEN "idle" ELSE "disable"]
  /\ UNCHANGED usess

CheckState(t) ==
  /\ user[t] = "check"
  /\ IF ConnectRefused THEN ConnectFails(t)
     ELSE user' = [user EXCEPT ![t] = "dial"] /\ UNCHANGED usess
  /\ UNCHANGED <<clientVars, connVars, sessVars, dialed, closeVars>>

(* websocket.Dial runs without the lock, and fails at any time.             *)
Dial(t, c) ==
  /\ user[t] = "dial" /\ FreshConn(c)
  /\ sock' = [sock EXCEPT ![c] = "open"]
  /\ dialed' = [dialed EXCEPT ![t] = c]
  /\ user' = [user EXCEPT ![t] = "install"]
  /\ UNCHANGED <<clientVars, rxDone, loop, readCtx, wakeOf, sessVars, usess, closeVars>>

DialFails(t) ==
  /\ user[t] = "dial" /\ ConnectFails(t)
  /\ UNCHANGED <<clientVars, connVars, sessVars, dialed, closeVars>>

InstallConn(t) ==
  /\ user[t] = "install"
  /\ IF InstallRefused
     THEN Discard(dialed[t]) /\ ConnectFails(t)
     ELSE /\ Install(dialed[t])
          /\ user' = [user EXCEPT ![t] = "idle"]
          /\ usess' = [usess EXCEPT ![t] = None]
  /\ dialed' = [dialed EXCEPT ![t] = None]
  /\ UNCHANGED <<sessVars, closeVars>>

(* disableReconnect: only the session this connector registered is dropped. *)
DisableReconnect(t) ==
  /\ user[t] = "disable"
  /\ IF session # usess[t]
     THEN /\ user' = [user EXCEPT ![t] = "idle"]
          /\ usess' = [usess EXCEPT ![t] = None]
          /\ UNCHANGED session
     ELSE /\ session' = None
          /\ user' = [user EXCEPT ![t] = "stop"]
          /\ UNCHANGED usess
  /\ UNCHANGED <<ws, rxCtx, closed, connVars, sessVars, dialed, closeVars>>

CancelReconnect(t) ==
  /\ user[t] = "stop"
  /\ rctxDone' = [rctxDone EXCEPT ![usess[t]] = TRUE]
  /\ user' = [user EXCEPT ![t] = "await"]
  /\ UNCHANGED <<clientVars, connVars, wake, rloop, usess, dialed, closeVars>>

ReconnectDisabled(t) ==
  /\ user[t] = "await" /\ rloop[usess[t]] = "done"
  /\ user' = [user EXCEPT ![t] = "idle"]
  /\ usess' = [usess EXCEPT ![t] = None]
  /\ UNCHANGED <<clientVars, connVars, sessVars, dialed, closeVars>>

-----------------------------------------------------------------------------
(* readLoop of connection c.  It evaluates c.rxCtx, the field and not the   *)
(* context of its own connection, before every Read.                        *)

ReadNext(c) ==
  /\ loop[c] = "read" /\ rxCtx # None
  /\ loop' = [loop EXCEPT ![c] = "blocked"]
  /\ readCtx' = [readCtx EXCEPT ![c] = rxCtx]
  /\ UNCHANGED <<clientVars, sock, rxDone, wakeOf, sessVars, userVars, dialed, closeVars>>

(* A nil context panics, or a Read of a closed connection fails first.      *)
ReadNilContext(c) ==
  /\ loop[c] = "read" /\ rxCtx = None
  /\ \/ loop' = [loop EXCEPT ![c] = "panic"]
     \/ sock[c] = "closed" /\ loop' = [loop EXCEPT ![c] = "disconnect"]
  /\ UNCHANGED <<clientVars, sock, rxDone, readCtx, wakeOf, sessVars, userVars, dialed, closeVars>>

(* What arrives is handed on, or answered by the read loop itself when it is *)
(* malformed; when the answer ends depends on sendMu, see module Client.      *)
Receive(c) ==
  /\ loop[c] = "blocked" /\ sock[c] # "closed"
  /\ \E next \in {"read", "answer"} : loop' = [loop EXCEPT ![c] = next]
  /\ UNCHANGED <<clientVars, sock, rxDone, readCtx, wakeOf, sessVars, userVars, dialed, closeVars>>
AnswerEnds(c) ==
  /\ loop[c] = "answer"
  /\ loop' = [loop EXCEPT ![c] = "read"]
  /\ UNCHANGED <<clientVars, sock, rxDone, readCtx, wakeOf, sessVars, userVars, dialed, closeVars>>

(* Read fails when the connection is gone or its context is done, and then  *)
(* the WebSocket library closes the connection.                             *)
ReadFails(c) ==
  /\ loop[c] = "blocked" /\ (sock[c] # "open" \/ rxDone[readCtx[c]])
  /\ loop' = [loop EXCEPT ![c] = "disconnect"]
  /\ sock' = [sock EXCEPT ![c] = "closed"]
  /\ UNCHANGED <<clientVars, rxDone, readCtx, wakeOf, sessVars, userVars, dialed, closeVars>>

(* Mutant: the receive context is not cancelled.                            *)
DisconnectKeepsContext(c) ==
  /\ loop[c] = "disconnect" /\ ws = c
  /\ ws' = None /\ rxCtx' = None
  /\ wakeOf' = [wakeOf EXCEPT ![c] = WakeTarget]
  /\ loop' = [loop EXCEPT ![c] = "fail"]
  /\ UNCHANGED <<closed, session, sock, rxDone, readCtx, sessVars, userVars, dialed, closeVars>>

OnDisconnect(c) ==
  /\ loop[c] = "disconnect"
  /\ IF ws = c
     THEN /\ ws' = None /\ rxCtx' = None
          /\ rxDone' = [rxDone EXCEPT ![c] = TRUE]
          /\ wakeOf' = [wakeOf EXCEPT ![c] = WakeTarget]
          /\ loop' = [loop EXCEPT ![c] = "fail"]
     ELSE /\ loop' = [loop EXCEPT ![c] = "done"]
          /\ UNCHANGED <<ws, rxCtx, rxDone, wakeOf>>
  /\ UNCHANGED <<closed, session, sock, readCtx, sessVars, userVars, dialed, closeVars>>

(* failAllPending (module Client), then the non-blocking wake send.          *)
FailPending(c) ==
  /\ loop[c] = "fail"
  /\ loop' = [loop EXCEPT ![c] = IF wakeOf[c] = None THEN "done" ELSE "wake"]
  /\ UNCHANGED <<clientVars, sock, rxDone, readCtx, wakeOf, sessVars, userVars, dialed, closeVars>>

SendWake(c) ==
  /\ loop[c] = "wake"
  /\ wake' = [wake EXCEPT ![wakeOf[c]] = TRUE]
  /\ loop' = [loop EXCEPT ![c] = "done"]
  /\ UNCHANGED <<clientVars, sock, rxDone, readCtx, wakeOf, rctxDone, rloop, userVars, dialed, closeVars>>

-----------------------------------------------------------------------------
(* reconnectLoop of session r.                                              *)

RLoopAt(r, from, to) == rloop[r] = from /\ rloop' = [rloop EXCEPT ![r] = to]

(* ctx.Done() ends the loop in both of its selects.                         *)
LoopStops(r) ==
  /\ rctxDone[r] /\ (RLoopAt(r, "wait", "done") \/ RLoopAt(r, "delay", "done"))
  /\ UNCHANGED <<clientVars, connVars, wake, rctxDone, userVars, dialed, closeVars>>

LoopWakes(r) ==
  /\ RLoopAt(r, "wait", "check") /\ wake[r]
  /\ wake' = [wake EXCEPT ![r] = FALSE]
  /\ UNCHANGED <<clientVars, connVars, rctxDone, userVars, dialed, closeVars>>

(* A dropped session has no URL any more, and dialling "" fails at once.     *)
LoopChecks(r) ==
  /\ \/ closed /\ RLoopAt(r, "check", "done")
     \/ ~closed /\ ws # None /\ RLoopAt(r, "check", "wait")
     \/ ~closed /\ ws = None /\ session = None /\ RLoopAt(r, "check", "delay")
     \/ ~closed /\ ws = None /\ session # None /\ RLoopAt(r, "check", "dial")
  /\ UNCHANGED <<clientVars, connVars, wake, rctxDone, userVars, dialed, closeVars>>

Redial(r, c) ==
  /\ RLoopAt(r, "dial", "install") /\ ~rctxDone[r] /\ FreshConn(c)
  /\ sock' = [sock EXCEPT ![c] = "open"]
  /\ dialed' = [dialed EXCEPT ![r] = c]
  /\ UNCHANGED <<clientVars, rxDone, loop, readCtx, wakeOf, wake, rctxDone, userVars, closeVars>>

Redials(r) == \E c \in Conns : Redial(r, c)

RedialFails(r) ==
  /\ RLoopAt(r, "dial", "delay")
  /\ UNCHANGED <<clientVars, connVars, wake, rctxDone, userVars, dialed, closeVars>>

InstallRedialed(r) ==
  /\ \/ closed /\ RLoopAt(r, "install", "done") /\ Discard(dialed[r])
     \/ ~closed /\ RLoopAt(r, "install", "confirm")
        /\ IF RedialRefused THEN Discard(dialed[r]) ELSE Install(dialed[r])
  /\ dialed' = [dialed EXCEPT ![r] = None]
  /\ UNCHANGED <<wake, rctxDone, userVars, closeVars>>

(* Connected() ends the attempts; otherwise the backoff timer is armed.      *)
LoopConfirms(r) ==
  /\ IF ~closed /\ ws # None THEN RLoopAt(r, "confirm", "wait")
                             ELSE RLoopAt(r, "confirm", "delay")
  /\ UNCHANGED <<clientVars, connVars, wake, rctxDone, userVars, dialed, closeVars>>

DelayExpires(r) ==
  /\ RLoopAt(r, "delay", "check")
  /\ UNCHANGED <<clientVars, connVars, wake, rctxDone, userVars, dialed, closeVars>>

-----------------------------------------------------------------------------
(* Close.  A second Close, like any call on a closed client, changes nothing. *)

CallClose ==
  /\ closer = "idle"
  /\ closer' = "stop" /\ closed' = TRUE
  /\ closeWs' = ws /\ closeSession' = session
  /\ ws' = None /\ session' = None
  /\ UNCHANGED <<rxCtx, connVars, sessVars, userVars, dialed>>

(* Mutants: the connection, or the reconnect context, is not cancelled; the  *)
(* reconnect loop is not waited for.                                        *)
CloseKeepsConnection ==
  /\ closer = "stop" /\ closer' = "awaitRead"
  /\ rctxDone' = [r \in Sessions |-> rctxDone[r] \/ r = closeSession]
  /\ UNCHANGED <<clientVars, connVars, wake, rloop, userVars, dialed, closeWs, closeSession>>
CloseKeepsLoop ==
  /\ closer = "stop" /\ closer' = "awaitRead"
  /\ rxDone' = [c \in Conns |-> rxDone[c] \/ c = closeWs]
  /\ sock' = [c \in Conns |-> IF c = closeWs THEN "closed" ELSE sock[c]]
  /\ UNCHANGED <<clientVars, loop, readCtx, wakeOf, sessVars, userVars, dialed, closeWs, closeSession>>
CloseDoesNotWait ==
  /\ closer = "awaitLoop" /\ closer' = "fail"
  /\ UNCHANGED <<clientVars, connVars, sessVars, userVars, dialed, closeWs, closeSession>>

CloseCancels ==
  /\ closer = "stop" /\ closer' = "awaitRead"
  /\ rxDone' = [c \in Conns |-> rxDone[c] \/ c = closeWs]
  /\ sock' = [c \in Conns |-> IF c = closeWs THEN "closed" ELSE sock[c]]
  /\ rctxDone' = [r \in Sessions |-> rctxDone[r] \/ r = closeSession]
  /\ UNCHANGED <<clientVars, loop, readCtx, wakeOf, wake, rloop, userVars, dialed, closeWs, closeSession>>

CloseAwaitsRead ==
  /\ closer = "awaitRead" /\ (closeWs # None => loop[closeWs] = "done")
  /\ closer' = "awaitLoop"
  /\ UNCHANGED <<clientVars, connVars, sessVars, userVars, dialed, closeWs, closeSession>>

CloseAwaitsLoop ==
  /\ closer = "awaitLoop" /\ (closeSession # None => rloop[closeSession] = "done")
  /\ closer' = "fail"
  /\ UNCHANGED <<clientVars, connVars, sessVars, userVars, dialed, closeWs, closeSession>>

CloseFailsPending ==
  /\ closer = "fail" /\ closer' = "returned"
  /\ UNCHANGED <<clientVars, connVars, sessVars, userVars, dialed, closeWs, closeSession>>

-----------------------------------------------------------------------------
(* The environment: the peer or the network drops a connection, the caller   *)
(* cancels the context it gave to ConnectWithReconnect.                      *)

Lose(c) ==
  /\ sock[c] = "open"
  /\ sock' = [sock EXCEPT ![c] = "lost"]
  /\ UNCHANGED <<clientVars, rxDone, loop, readCtx, wakeOf, sessVars, userVars, dialed, closeVars>>

(* A Write whose context ends closes the connection under its reader.        *)
Sever(c) ==
  /\ sock[c] # "closed" /\ loop[c] # "done"
  /\ sock' = [sock EXCEPT ![c] = "closed"]
  /\ UNCHANGED <<clientVars, rxDone, loop, readCtx, wakeOf, sessVars, userVars, dialed, closeVars>>

ParentCancels(r) ==
  /\ rloop[r] # "done" /\ ~rctxDone[r]
  /\ rctxDone' = [rctxDone EXCEPT ![r] = TRUE]
  /\ UNCHANGED <<clientVars, connVars, wake, rloop, userVars, dialed, closeVars>>

(* The process is over after a panic, and every operation of a closed        *)
(* client is refused.                                                        *)
Panicked == \E c \in Conns : loop[c] = "panic"
Over == (Panicked \/ closer = "returned") /\ UNCHANGED vars

ReadStep(c) == \/ ReadNext(c) \/ ReadNilContext(c) \/ ReadFails(c)
               \/ OnDisconnect(c) \/ SendWake(c)
ConnectStep(t) == \/ CheckState(t) \/ DialFails(t) \/ (\E c \in Conns : Dial(t, c))
                  \/ InstallConn(t) \/ DisableReconnect(t)
                  \/ CancelReconnect(t) \/ ReconnectDisabled(t)
LoopStep(r) == \/ LoopStops(r) \/ LoopWakes(r) \/ LoopChecks(r) \/ RedialFails(r)
               \/ Redials(r)
               \/ InstallRedialed(r) \/ LoopConfirms(r) \/ DelayExpires(r)
CloseStep == CloseCancels \/ CloseAwaitsRead \/ CloseAwaitsLoop

(* The steps that leave the calls alone, and the two that fail them all.     *)
ProgramStep ==
  \/ \E t \in Connectors : \/ CallConnect(t) \/ ConnectStep(t)
                           \/ \E r \in Sessions : CallConnectWithReconnect(t, r)
  \/ \E c \in Conns : ReadStep(c)
  \/ \E r \in Sessions : LoopStep(r) \/ ParentCancels(r)
  \/ CallClose \/ CloseStep
FailStep == CloseFailsPending \/ \E c \in Conns : FailPending(c)

Next ==
  \/ /\ ~Panicked
     /\ \/ ProgramStep \/ FailStep
        \/ \E c \in Conns : Receive(c) \/ AnswerEnds(c) \/ Lose(c) \/ Sever(c)
  \/ Over

Spec == Init /\ [][Next]_vars

(* Goroutines that can run are run; a Dial ends, and one that is retried for *)
(* ever succeeds in the end; the caller of an operation, the network and who  *)
(* holds sendMu owe nothing.                                                 *)
FairConnector(t) == WF_vars(~Panicked /\ ConnectStep(t))
FairReader(c)    == WF_vars(~Panicked /\ (ReadStep(c) \/ FailPending(c)))
FairLoop(r)      == WF_vars(~Panicked /\ LoopStep(r))
FairRedial(r)    == SF_vars(~Panicked /\ Redials(r))
FairCloser       == WF_vars(~Panicked /\ (CloseStep \/ CloseFailsPending))
Fairness ==
  /\ \A t \in Connectors : FairConnector(t)
  /\ \A c \in Conns : FairReader(c)
  /\ \A r \in Sessions : FairLoop(r) /\ FairRedial(r)
  /\ FairCloser

FairSpec == Spec /\ Fairness

-----------------------------------------------------------------------------
(* Properties.                                                              *)

Reading == {"read", "blocked", "answer"}

(* The only read loop that reads is the one of the client's connection, with *)
(* that connection's context in c.rxCtx; after Close it is the one Close     *)
(* captured.  So readLoop's unlocked read of c.rxCtx sees its own context.   *)
ReaderOwnsConnection ==
  \A c \in Conns : loop[c] \in Reading =>
    rxCtx = c /\ c = IF closed THEN closeWs ELSE ws

(* The abstract specification: the receivers are the read loops that have not *)
(* yet found their connection gone.                                          *)
Receiving == {c \in Conns : loop[c] \in Reading \cup {"disconnect"}}
L == INSTANCE Link WITH link <- ws, live <- Receiving, shut <- closed
ImplementsLink == L!Spec

(* A closed client stays disconnected: whoever dialled across Close discards. *)
ClosedIsFinal == closed => ws = None /\ session = None

(* When Close returns, no read loop reads, every socket that is open belongs  *)
(* to a Connect that has yet to find the client closed, and a reconnect loop   *)
(* that has not ended is awaited by the call that started it.                 *)
CloseStopsGoroutines ==
  closer = "returned" =>
    /\ \A c \in Conns : loop[c] \notin Reading
    /\ \A c \in Conns : sock[c] = "open" => \E t \in Connectors : dialed[t] = c
    /\ \A r \in Sessions : rloop[r] # "done" =>
         \E t \in Connectors : usess[t] = r /\ user[t] \in {"stop", "await"}

(* A disconnected client whose loop sleeps without a token is one that is     *)
(* still connecting, one being stopped, or one whose onDisconnect is about to *)
(* send the token.                                                           *)
NoLostWakeup ==
  \A r \in Sessions :
    session = r /\ ws = None /\ rloop[r] = "wait" /\ ~wake[r] =>
      \/ rctxDone[r]
      \/ \E t \in Connectors : usess[t] = r
      \/ \E c \in Conns : wakeOf[c] = r /\ loop[c] \in {"fail", "wake"}

(* These hold when every caller uses ConnectWithReconnect, or when there are   *)
(* no sessions and one goroutine calls Connect.                               *)
OneWayIn == \/ "Connect" \notin Modes
            \/ "ConnectWithReconnect" \notin Modes /\ \A t, u \in Connectors : t = u

(* Why: the session is a licence to connect.  It is held by its connector      *)
(* until the first dial has ended, and only then by its loop, so that two of   *)
(* them never dial at once; and it ends with Close or with the connector's own *)
(* failure.  Without sessions the one connector has the licence for itself.    *)
Current        == IF closed THEN closeWs ELSE ws
CurrentSession == IF closed THEN closeSession ELSE session
Waking(c, r)   == loop[c] \in {"fail", "wake"} /\ wakeOf[c] = r
Quiet(r)       == /\ rloop[r] \in {"wait", "done"} /\ ~wake[r]
                  /\ \A c \in Conns : ~Waking(c, r)

InvClose ==
  /\ closed <=> closer # "idle"
  /\ ClosedIsFinal
  /\ closer \in {"awaitLoop", "fail", "returned"} /\ closeWs # None => loop[closeWs] = "done"
  /\ closer \in {"fail", "returned"} /\ closeSession # None => rloop[closeSession] = "done"
InvRead ==
  /\ \A c \in Conns : loop[c] # "panic"
  /\ \A c \in Receiving : rxCtx = c /\ c = Current
  /\ ws # None => ws \in Receiving
  /\ \A c \in Conns : sock[c] # "closed" =>
       loop[c] \in Reading \/ \E p \in Dialers : dialed[p] = c
InvDial ==
  /\ \A p \in Dialers : dialed[p] # None =>
       loop[dialed[p]] = "done" /\ \A q \in Dialers : dialed[q] = dialed[p] => q = p
  /\ \A t \in Connectors : user[t] = "install" <=> dialed[t] # None
  /\ \A r \in Sessions : rloop[r] = "install" <=> dialed[r] # None
InvUser ==
  \A t \in Connectors :
    /\ user[t] = "idle" => usess[t] = None
    /\ user[t] # "idle" /\ usess[t] = None => session = None /\ \A u \in Connectors : u = t
    /\ usess[t] # None => Quiet(usess[t]) /\ \A u \in Connectors : usess[u] = usess[t] => u = t
    /\ ~closed /\ (\/ user[t] \in {"dial", "install"}
                   \/ user[t] \in {"check", "disable"} /\ usess[t] # None) =>
         session = usess[t] /\ ws = None
    /\ user[t] \in {"stop", "await"} => session # usess[t]
InvLoop ==
  \A r \in Sessions :
    /\ ~closed /\ r # session => Quiet(r)
    /\ rloop[r] # "done" =>
         r = CurrentSession \/ \E t \in Connectors : usess[t] = r /\ user[t] \in {"stop", "await"}
InvMode == "ConnectWithReconnect" \notin Modes => session = None
IndInv == InvMode /\ InvClose /\ InvRead /\ InvDial /\ InvUser /\ InvLoop

(* ConnectWithReconnect keeps the client connected: a dropped connection is   *)
(* replaced, unless the client is closed or reconnecting is switched off.     *)
Reconnects ==
  \A r \in Sessions :
    session = r /\ ws = None ~> ws # None \/ session # r \/ rctxDone[r] \/ Panicked

(* Close returns: of the goroutines it waits for, none can hold it up but the *)
(* read loop, while that is at an answer.  When Connect is used along with    *)
(* reconnection this can be for ever, since the answer waits for sendMu behind *)
(* a Write on a connection that was overwritten and that Close does not close; *)
(* where connections are made one way only it cannot (CloseEnds, module Client). *)
AwaitsAnswer == closer = "awaitRead" /\ \E c \in Conns : closeWs = c /\ loop[c] = "answer"
CloseReturns == closer # "idle" ~> closer = "returned" \/ Panicked \/ AwaitsAnswer
=============================================================================
