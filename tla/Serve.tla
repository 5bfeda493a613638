------------------------------- MODULE Serve -------------------------------
(***************************************************************************)
(* serve.RunWithOptions over the listeners of pkg/transport: programs on   *)
(* one host that listen over ws, on one unix socket path, or on their own   *)
(* stdin and stdout, serve what they accept, and stop on a signal -- or     *)
(* crash.  The gRPC server between the two is modelled from what serve.go   *)
(* and the listeners rely on: Serve accepts until Accept fails, GracefulStop *)
(* and Stop close the listeners, wait for the connections being set up, and *)
(* then drain, or close, the others.                                       *)
(***************************************************************************)
EXTENDS Naturals, Sequences

CONSTANTS Servers, Conns,
          Deployments,   \* the schemes of the servers, as they may be deployed
          Cap,           \* capacity of the ws listener's queue (16 in the code)
          Clients,       \* the connections that may be made over each scheme
          MaxCrashes, None

Schemes == {"ws", "unix", "stdio", "off"}
Kinds == {"graceful", "forced"}
Results == {"nil", "EOF", "server stopped", "not removed", "in use"}

ASSUME DeploymentsAssumption == Deployments \subseteq [Servers -> Schemes]
ASSUME ClientsAssumption == Clients \in [Schemes -> SUBSET Conns]
ASSUME CapAssumption == Cap \in Nat \ {0} /\ MaxCrashes \in Nat
ASSUME ServeNoneAssumption == None \notin Servers \cup Results

VARIABLES
  scheme,        \* the deployment
  stage, result, \* each RunWithOptions: where it is, what it returned
  lis, queue,    \* its listener, the connections that wait in it
  path,          \* the server whose socket file is at the unix path, or None
  conn, at,      \* each connection: where it is, and at which server
  left, cut,     \* connections whose other end is gone, or which Stop closed
  signal,        \* each server's SIGTERM
  stop,          \* the gRPC server's two ways to stop
  crashes

lisVars == <<lis, queue, path>>
connVars == <<conn, at, left, cut>>
runVars == <<stage, result>>
stopVars == <<signal, stop>>
serveVars == <<scheme, runVars, lisVars, connVars, stopVars, crashes>>

ServeTypeOK ==
  /\ scheme \in Deployments
  /\ stage \in [Servers -> {"idle", "binding", "listening", "accept", "waiting", "returned", "dead"}]
  /\ result \in [Servers -> Results \cup {None}]
  /\ lis \in [Servers -> {"none", "open", "closed"}]
  /\ queue \in [Servers -> Seq(Conns)] /\ \A s \in Servers : scheme[s] = "ws" => Len(queue[s]) <= Cap
  /\ path \in Servers \cup {None}
  /\ conn \in [Conns -> {"idle", "upgraded", "queued", "accepted", "handshake", "served", "closed"}]
  /\ at \in [Conns -> Servers \cup {None}]
  /\ left \subseteq Conns /\ cut \subseteq Conns
  /\ signal \in [Servers -> {"none", "sent", "taken"}]
  /\ stop \in [Servers -> [Kinds -> {"off", "setup", "conns", "done"}]]
  /\ crashes \in 0..MaxCrashes

ServeInit ==
  /\ scheme \in Deployments
  /\ stage = [s \in Servers |-> "idle"] /\ result = [s \in Servers |-> None]
  /\ lis = [s \in Servers |-> "none"] /\ queue = [s \in Servers |-> <<>>] /\ path = None
  /\ conn = [c \in Conns |-> "idle"] /\ at = [c \in Conns |-> None]
  /\ left = {} /\ cut = {}
  /\ signal = [s \in Servers |-> "none"]
  /\ stop = [s \in Servers |-> [k \in Kinds |-> "off"]]
  /\ crashes = 0

ConnsAt(s, states) == {c \in Conns : at[c] = s /\ conn[c] \in states}
Quit(s) == \E k \in Kinds : stop[s][k] # "off"
Done(s) == \E k \in Kinds : stop[s][k] = "done"
Alive(s) == stage[s] \notin {"idle", "returned", "dead"}
StageAt(s, from, to) == stage[s] = from /\ stage' = [stage EXCEPT ![s] = to]
ConnAt(c, from, to) == conn[c] = from /\ conn' = [conn EXCEPT ![c] = to]

-----------------------------------------------------------------------------
(* Listen.                                                                  *)

KeepStale(s) ==   \* mutant: what is at the path is left there
  /\ scheme[s] = "unix" /\ StageAt(s, "idle", "binding")
  /\ UNCHANGED <<scheme, result, lisVars, connVars, stopVars, crashes>>
RemoveStale(s) ==
  /\ scheme[s] = "unix" /\ StageAt(s, "idle", "binding") /\ path' = None
  /\ UNCHANGED <<scheme, result, lis, queue, connVars, stopVars, crashes>>
RemoveFails(s) ==
  /\ scheme[s] = "unix" /\ StageAt(s, "idle", "returned")
  /\ result' = [result EXCEPT ![s] = "not removed"]
  /\ UNCHANGED <<scheme, lisVars, connVars, stopVars, crashes>>

Bind(s) ==
  /\ \/ scheme[s] = "ws" /\ StageAt(s, "idle", "listening") /\ UNCHANGED path
     \/ path = None /\ StageAt(s, "binding", "listening") /\ path' = s
  /\ lis' = [lis EXCEPT ![s] = "open"]
  /\ UNCHANGED <<scheme, result, queue, connVars, stopVars, crashes>>
BindFails(s) ==
  /\ path # None /\ StageAt(s, "binding", "returned")
  /\ result' = [result EXCEPT ![s] = "in use"]
  /\ UNCHANGED <<scheme, lisVars, connVars, stopVars, crashes>>

(* The stdio listener comes with its one connection.                         *)
ListenStdio(s) ==
  /\ scheme[s] = "stdio" /\ StageAt(s, "idle", "listening")
  /\ lis' = [lis EXCEPT ![s] = "open"]
  /\ \E c \in Clients["stdio"] :
       /\ ConnAt(c, "idle", "queued") /\ at' = [at EXCEPT ![c] = s]
       /\ queue' = [queue EXCEPT ![s] = <<c>>]
  /\ UNCHANGED <<scheme, result, path, left, cut, stopVars, crashes>>

-----------------------------------------------------------------------------
(* Closing.  A unix listener takes its path with it, whoever's socket is      *)
(* there, and what the kernel has queued; the others leave what they queued.  *)
CloseListener(s) ==
  /\ lis' = [lis EXCEPT ![s] = "closed"]
  /\ IF scheme[s] = "unix" /\ lis[s] = "open"
     THEN /\ path' = None /\ queue' = [queue EXCEPT ![s] = <<>>]
          /\ conn' = [c \in Conns |-> IF c \in ConnsAt(s, {"queued"}) THEN "closed" ELSE conn[c]]
     ELSE UNCHANGED <<path, queue, conn>>

(* Closing the connection over stdin and stdout closes its listener, too.    *)
KeepsListener(c, from) == ConnAt(c, from, "closed") /\ UNCHANGED lis   \* mutant
CloseConn(c, from) ==
  /\ ConnAt(c, from, "closed")
  /\ lis' = IF at[c] # None /\ scheme[at[c]] = "stdio" THEN [lis EXCEPT ![at[c]] = "closed"] ELSE lis

-----------------------------------------------------------------------------
(* Connections: the other ends, and the ws listener's handler.               *)

Connect(c) ==
  \E s \in Servers :
    /\ lis[s] = "open" /\ c \in Clients[scheme[s]] /\ at' = [at EXCEPT ![c] = s]
    /\ \/ scheme[s] = "ws" /\ ConnAt(c, "idle", "upgraded") /\ UNCHANGED queue
       \/ path = s /\ ConnAt(c, "idle", "queued") /\ queue' = [queue EXCEPT ![s] = Append(@, c)]
    /\ UNCHANGED <<scheme, runVars, lis, path, left, cut, stopVars, crashes>>
Leave(c) ==
  /\ conn[c] # "idle" /\ left' = left \cup {c} /\ c \notin left
  /\ UNCHANGED <<scheme, runVars, lisVars, conn, at, cut, stopVars, crashes>>

Enqueue(c) ==
  /\ ConnAt(c, "upgraded", "queued") /\ Len(queue[at[c]]) < Cap
  /\ queue' = [queue EXCEPT ![at[c]] = Append(@, c)]
  /\ UNCHANGED <<scheme, runVars, lis, path, at, left, cut, stopVars, crashes>>
NeverRefuses(c) == FALSE /\ UNCHANGED serveVars   \* mutant: the handler only waits for the queue
RefuseUpgrade(c) ==
  /\ conn[c] = "upgraded" /\ lis[at[c]] = "closed" /\ ConnAt(c, "upgraded", "closed")
  /\ UNCHANGED <<scheme, runVars, lisVars, at, left, cut, stopVars, crashes>>

-----------------------------------------------------------------------------
(* The gRPC server's Serve and the goroutine it starts for a connection.     *)

StartServe(s) ==
  /\ \/ ~Quit(s) /\ StageAt(s, "listening", "accept") /\ UNCHANGED <<result, lisVars, conn>>
     \/ /\ Quit(s) /\ StageAt(s, "listening", "returned") /\ CloseListener(s)
        /\ result' = [result EXCEPT ![s] = "server stopped"]
  /\ UNCHANGED <<scheme, at, left, cut, stopVars, crashes>>

(* Accept: a select takes what is queued even when the listener is closed.   *)
Accept(s) ==
  /\ stage[s] = "accept" /\ queue[s] # <<>>
  /\ ConnAt(Head(queue[s]), "queued", "accepted") /\ queue' = [queue EXCEPT ![s] = Tail(@)]
  /\ UNCHANGED <<scheme, runVars, lis, path, at, left, cut, stopVars, crashes>>
EofWhenEmpty(s) ==   \* mutant: a stdio listener has one connection, and then no more
  /\ lis[s] = "closed" \/ (scheme[s] = "stdio" /\ queue[s] = <<>>)
  /\ \/ Quit(s) /\ StageAt(s, "accept", "waiting") /\ UNCHANGED result
     \/ ~Quit(s) /\ StageAt(s, "accept", "returned") /\ result' = [result EXCEPT ![s] = "EOF"]
  /\ UNCHANGED <<scheme, lisVars, connVars, stopVars, crashes>>
AcceptFails(s) ==
  /\ lis[s] = "closed"
  /\ \/ Quit(s) /\ StageAt(s, "accept", "waiting") /\ UNCHANGED result
     \/ ~Quit(s) /\ StageAt(s, "accept", "returned") /\ result' = [result EXCEPT ![s] = "EOF"]
  /\ UNCHANGED <<scheme, lisVars, connVars, stopVars, crashes>>
ServeReturns(s) ==
  /\ Done(s) /\ StageAt(s, "waiting", "returned") /\ result' = [result EXCEPT ![s] = "nil"]
  /\ UNCHANGED <<scheme, lisVars, connVars, stopVars, crashes>>

SetUp(c) ==
  /\ conn[c] = "accepted"
  /\ IF Quit(at[c]) THEN CloseConn(c, "accepted")
                    ELSE ConnAt(c, "accepted", "handshake") /\ UNCHANGED lis
  /\ UNCHANGED <<scheme, runVars, queue, path, at, left, cut, stopVars, crashes>>
Handshake(c) ==
  /\ c \notin left /\ ConnAt(c, "handshake", "served")
  /\ UNCHANGED <<scheme, runVars, lisVars, at, left, cut, stopVars, crashes>>

(* stdin and stdout have no deadlines, and closing the connection does not    *)
(* end a Read of stdin: only their other end ends them.                      *)
HandshakeFails(c) ==
  /\ conn[c] = "handshake" /\ (c \in left \/ scheme[at[c]] # "stdio")
  /\ CloseConn(c, "handshake")
  /\ UNCHANGED <<scheme, runVars, queue, path, at, left, cut, stopVars, crashes>>
ReadEnds(c) ==
  /\ conn[c] = "served" /\ (c \in left \/ (c \in cut /\ scheme[at[c]] # "stdio"))
  /\ CloseConn(c, "served")
  /\ UNCHANGED <<scheme, runVars, queue, path, at, left, cut, stopVars, crashes>>

-----------------------------------------------------------------------------
(* The goroutine that waits for the signal.                                  *)

SendSignal(s) ==
  /\ Alive(s) /\ stage[s] # "binding" /\ signal[s] = "none"
  /\ signal' = [signal EXCEPT ![s] = "sent"]
  /\ UNCHANGED <<scheme, runVars, lisVars, connVars, stop, crashes>>

(* A listener that is not served yet is closed by Serve itself.               *)
BeginStop(s, k) ==
  /\ stop[s][k] = "off" /\ stop' = [stop EXCEPT ![s][k] = "setup"]
  /\ IF stage[s] = "accept" THEN CloseListener(s) ELSE UNCHANGED <<lisVars, conn>>
  /\ UNCHANGED <<scheme, runVars, at, left, cut, crashes>>
TakeSignal(s) ==
  /\ signal[s] = "sent" /\ signal' = [signal EXCEPT ![s] = "taken"]
  /\ Alive(s) /\ BeginStop(s, "graceful")
NeverForced(s) == FALSE /\ UNCHANGED serveVars   \* mutant: a drain may take for ever
ForceStop(s) ==
  /\ stop[s]["graceful"] \notin {"off", "done"} /\ Alive(s)
  /\ BeginStop(s, "forced") /\ UNCHANGED signal

(* No connection can be added any more: the rest is drained, or closed.       *)
StopConns(s, k) ==
  /\ stop[s][k] = "setup" /\ stop' = [stop EXCEPT ![s][k] = "conns"]
  /\ Alive(s) /\ stage[s] # "accept" /\ ConnsAt(s, {"accepted", "handshake"}) = {}
  /\ cut' = IF k = "forced" THEN cut \cup ConnsAt(s, {"served"}) ELSE cut
  /\ UNCHANGED <<scheme, runVars, lisVars, conn, at, left, signal, crashes>>
StopEnds(s, k) ==
  /\ stop[s][k] = "conns" /\ stop' = [stop EXCEPT ![s][k] = "done"]
  /\ Alive(s) /\ ConnsAt(s, {"served"}) = {}
  /\ UNCHANGED <<scheme, runVars, lisVars, connVars, signal, crashes>>

-----------------------------------------------------------------------------
(* A crash, or the kill of a process: a socket file stays where it is.        *)
Dies(s) ==
  /\ Alive(s) /\ stage' = [stage EXCEPT ![s] = "dead"]
  /\ lis' = [lis EXCEPT ![s] = "closed"] /\ queue' = [queue EXCEPT ![s] = <<>>]
  /\ conn' = [c \in Conns |-> IF at[c] = s THEN "closed" ELSE conn[c]]
Crash(s) ==
  /\ crashes < MaxCrashes /\ crashes' = crashes + 1 /\ Dies(s)
  /\ UNCHANGED <<scheme, result, path, at, left, cut, stopVars>>

ListenStep(s) == RemoveStale(s) \/ RemoveFails(s) \/ Bind(s) \/ BindFails(s) \/ ListenStdio(s)
RunStep(s) == StartServe(s) \/ Accept(s) \/ AcceptFails(s) \/ ServeReturns(s)
StopStep(s) == TakeSignal(s) \/ ForceStop(s) \/ \E k \in Kinds : StopConns(s, k) \/ StopEnds(s, k)
UpgradeStep(c) == Enqueue(c) \/ RefuseUpgrade(c)
ConnStep(c) == SetUp(c) \/ HandshakeFails(c) \/ ReadEnds(c)

(* Goroutines that can run are run; those that wait to send to a channel that *)
(* is full get their turn when it is received from again and again.           *)
FairRun(s)     == WF_serveVars(RunStep(s))
FairStop(s)    == WF_serveVars(StopStep(s))
FairUpgrade(c) == SF_serveVars(UpgradeStep(c))
FairConn(c)    == WF_serveVars(ConnStep(c))
ServeFairness ==
  /\ \A s \in Servers : FairRun(s) /\ FairStop(s)
  /\ \A c \in Conns : FairUpgrade(c) /\ FairConn(c)

-----------------------------------------------------------------------------
(* Properties.                                                              *)

(* serve.go:44-47: a signal stops a server that listens over a network, and   *)
(* what its clients do, who may hold their connections for ever, or be in     *)
(* the middle of a handshake, does not keep it.                              *)
SignalsStop ==
  \A s \in Servers :
    signal[s] # "none" /\ scheme[s] \in {"ws", "unix"} ~> stage[s] \in {"returned", "dead"}

(* When RunWithOptions returns, nothing is being served or set up any more.   *)
NothingServedAfterReturn ==
  \A s \in Servers : stage[s] = "returned" => ConnsAt(s, {"accepted", "handshake", "served"}) = {}

(* The ws listener's handlers, one per connection, all end, although the       *)
(* queue between them and Accept is bounded and Accept may stop.              *)
UpgradesEnd ==
  \A c \in Conns : conn[c] = "upgraded" ~> conn[c] # "upgraded"

(* A server over stdin and stdout ends with their other end.                  *)
StdioEndsWithParent ==
  \A c \in Conns : \A s \in Servers :
    at[c] = s /\ scheme[s] = "stdio" /\ c \in left ~> stage[s] \in {"returned", "dead"}

(* A server that starts when its predecessors are gone, crashed or not, gets   *)
(* its path, unless it may not remove what they left there.                  *)
CrashesDoNotBlockPath ==
  \A s \in Servers :
    [](stage[s] = "idle" /\ (\A t \in Servers \ {s} : stage[t] \in {"returned", "dead"})
         => [](result[s] # "in use"))
=============================================================================
