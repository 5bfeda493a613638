# go-holons in TLA+

Specifications of the concurrent parts of go-holons, their model checking with TLC, and
theorems about them checked by TLAPS. Paths are relative to the repository.

## 1. The system

go-holons lets Go programs ("holons") call each other. Part of it is thin glue over
`google.golang.org/grpc`; what has state, goroutines and failure handling of its own is
**Holon-RPC**, JSON-RPC 2.0 over WebSocket, which both ends may use to call the other, the
**WebBridge**, which does the same with browsers, and the **transports** with the runner and the
dialer on top of them.

| Component | Source | State | Operations | What makes it correct |
|---|---|---|---|---|
| Client, connection management | `pkg/holonrpc/client.go` | `ws`, `rxCtx`, `closed`, the `reconnect*` fields under `stateMu`; a read loop per connection, a reconnect loop per session | `Connect`, `ConnectWithReconnect`, `Close`, `readLoop`, `onDisconnect`, `reconnectLoop`, `disableReconnect` | one connection at a time, read with its own context; a drop is always noticed by the reconnect loop; `Close` is final, ends everything and returns |
| Client, calls | same | the `pending` map, `sendMu`, one channel per call | `Invoke`, `handleResponse`, `failAllPending` | no answer reaches another call; every call ends when its connection, its context or the client does |
| Client, requests of the server | same | a goroutine per request | `handleRequest`, `sendResult`, `sendError` | handlers may call back; the read loop stays free; notifications are not answered |
| Server, connections and calls | `pkg/holonrpc/server.go` | `closed`, `server`, `listener` under `mu`; `peers` under `peersMu`; `connectQ`; a pending map and `sendMu` per peer | `Start`, `Close`, `handleWebSocket`, `WaitForClient`, `Invoke`, `failPeerPending` | the map holds the connections being served; no listener outlives its server; calls fail with their own peer only |
| Server, requests and routing | `pkg/holonrpc/server.go`, `routing.go` | a goroutine per request | `handlePeerRequest`, `parseRouteHints`, `routePeerRequest`, `dispatchFanOut`, `broadcastNotificationMany` | aggregates are complete, announcements come before the answer and go to the others, requests end when their parties are gone |
| Message envelope | `pkg/holonrpc/types.go` | none | id, params and result codecs | ids tell requests from notifications, and the ends' requests apart |
| WebBridge | `pkg/transport/wsweb.go` | per connection a pending map and a write mutex | `HandleWebSocket`, `handleRequest`, `WebConn.Invoke` | each Invoke gets the first answer to it or fails; what the browser asks is answered once |
| Listeners | `pkg/transport/transport.go`, `ws.go` | ws: an accept queue; unix: a socket file; stdio: one queued connection | `Listen`, `Accept`, `Close` | every upgrade ends; a crash does not block a path; a stdio server ends with its parent |
| serve | `pkg/serve/serve.go` | a signal goroutine, two ways to stop | `Run`, `RunWithOptions` | a signal stops it within bounded time; nothing is served after it returned |
| gRPC client helpers | `pkg/grpcclient` | a child process, its pipes | `DialStdio`, `DialWebSocket`, `DialMem` | nothing is left behind on failure |
| Commands | `cmd/echo-client`, `cmd/echo-server` | the echo client's child | `dialStdioGoRun`, `killAndWait` | as `DialStdio`, with a launcher in between |

The parts interact like this. Application goroutines call the client; its read loop hands
responses to waiting calls through the pending map, starts a goroutine per request of the server,
and tells the reconnect loop of a drop through a channel of capacity one. On the other side the
`http.Server` calls `handleWebSocket` in one goroutine per connection, which registers the peer,
serves its messages, and cleans up when the read fails; each request runs in a goroutine of its own
and may call other peers through `Server.Invoke`, whose responses arrive in *their* goroutines. A
server program runs `serve`, which hands a listener of `transport` to a gRPC server; a client
program may start it as its child and talk to the stdio listener over the child's pipes.

What is hard about it: locks are released around every dial, listen and write and the state is
looked at again, or not, afterwards; a disconnection is told to a call in two ways at once; Close
overlaps everything; both ends write under one mutex while their read loops must not wait for each
other; peers come and go between the steps of a routed request; a child may die, hang, or not be the
process its parent knows. `PROJECT.json` lists these hazards at their lines with the properties that
watch them.

## 2. The modules

| Module | Models |
|---|---|
| `Link` | the abstract promise of the connection management: attach, detach, shut, drain |
| `ClientLifecycle` | connection management of the client; implements `Link` |
| `Client` | calls of the client, and the answers to what the server sends, which share `sendMu`; EXTENDS `ClientLifecycle` and composes with its steps |
| `Server` | the server's Start, Close, connections, connect queue and calls, and the answers that share `sendMu` with them |
| `Routing` | the requests of peers: dispatch, unicast, fan-out, announcements |
| `Rpc` | the abstract promise of one request between two ends: served at most once, answered with its own verdict or failed |
| `Envelope` | the codecs and the classification of messages, by the kinds of JSON value the code tells apart |
| `Exchange` | the two ends of a Holon-RPC connection, calling and serving each other at once, over directions of bounded width; implements `Rpc` |
| `WebBridge` | one browser's connection to the WebBridge; implements `Rpc` for the calls of both sides |
| `Serve` | programs that run `serve` over ws, unix and stdio listeners, with signals and crashes |
| `DialStdio` | EXTENDS `Serve` with the parent of the stdio server: start, first byte, handshake, context, kill and wait |
| `*Proofs` | the theorems about the module they are named for |
| `MC*` | the small instances TLC checks |

**How code becomes actions.** An action is the code between two points another goroutine can
observe: a section under a mutex, a channel operation, or one call of the WebSocket library, of gRPC
or of the system. The goroutine of a function is where it is in it (`user`, `loop`, `rloop`,
`closer`, `call`, `task`, `hs`, `start`, `stage`, `reader`, `dial`). What a function captured in
locals before it released a lock has a variable of its own (`wakeOf`, `closeWs`, `usess`, `on`,
`doomed`, `swapped`).

**Three views of a call.** `Client` and `Server` have Invoke with every step of its bookkeeping,
against a peer that is no more than its answers. `Exchange` has both ends and what is on its way
between them, which is where they can wait for each other; of the bookkeeping it keeps what decides
whom a response reaches. `Routing` has many peers and keeps of Invoke its lookup, its write and its
end. The same reduction separates `Serve` from `DialStdio`: the former's servers have arbitrary
clients, the latter adds the one client whose process is the server's parent.

**Who holds `sendMu`.** Each end of a connection writes under one mutex, the client under one for all
its connections. Three kinds of goroutine take it: a call, with its own context (`LockSend`,
`LockPeer`); a handler that answers a request; and the read loop itself, which answers malformed
messages before it reads on (`client.go:334`, `server.go:399`). The answers (`AnswerLocks`,
`AnswerSent`, `AnswerFails`) are written with the context of the connection, which has no deadline,
so that a peer that does not read can keep the mutex, and with it calls whose context has ended, and
the read loop. In `ClientLifecycle`, which knows no calls, a read loop at an answer (`answer`) waits for
something that may never come; `Client` says what.

**Failing the calls.** `failAllPending` and `failPeerPending` take the map under its mutex and send to
the channels after it is released. These are two actions (`ReaderSwaps` and `ReaderFails`,
`CloserSwaps` and `CloserFails`, `PeerSwaps` and `PeerGone`, `DisconnectPeer` and
`FailDisconnected`); the map in between is `swapped`.

**Identity.** The fields `ws`, `cancel` and `done` of a connection, made together at
`client.go:108` and dropped together, are one member of `Conns`; the six `reconnect*` fields are
one member of `Sessions`. `rxCtx` is separate, because `Close` leaves it set. The identities are
used again once nothing refers to them, so that any number of connections in turn is covered.

**Environment.** Peers and networks drop connections at any time, answer late, twice or never;
contexts end at any time; dials and writes fail; browsers stop reading; processes get signals and
crash. The WebSocket library (nhooyr.io/websocket v1.8.17) is modelled from its use: a `Read` or
`Write` whose context ends closes the connection, a `nil` context panics (`Panicked`), which ends
the process. The gRPC server in `Serve` is what `serve.go` and the listeners rely on: Serve accepts
until Accept fails; GracefulStop and Stop close the listeners, wait for the connections being set
up, and then drain or close the others.

**Mutants.** An operator whose comment says *mutant* is the definition after it with a plausible
bug. It takes no part in the specification; `PROJECT.json` says which property finds it.

## 3. What is checked

| Run | Instance | Shows |
|---|---|---|
| `lifecycle` | 2 callers, 2 sessions, 3 connections, `ConnectWithReconnect` only | one connection read at a time with its own context, what Close leaves behind, and that `Link` is implemented |
| `lifecycle_overlap` | 1 caller using both entry points | wake-ups are not lost, drops are repaired and Close returns unless the read loop it waits for is at an answer, or the process has panicked |
| `close_stops` | 2 callers of `Connect` | **violated**: see findings |
| `client` | 1 call, 1 handler, 1 connection used again and again, 2 replies in flight, malformed ones and ones to nobody's id | replies are never misdelivered, no call waits in vain; calls end with their connection, with Close, and with their contexts unless `sendMu` is never to be had; Close returns |
| `client_healthy` | 1 call, 2 connections | **violated**: see findings |
| `server_start` | 2 connections, 2 Starts, 1 waiter, 1 call, queue of 1 | the map and the listeners; a call fails with its own peer only |
| `server` | 1 peer that sends requests and malformed messages, 2 calls | no call waits in vain, and a lost peer ends its calls, wherever they are; Close ends and its peers leave |
| `server_close` | 2 peers | **violated**: see findings |
| `routing` | 3 peers, one of which may stop reading; one request: the routed kinds, and every shape with up to two peculiarities | what is refused, aggregation and announcements; requests end with their parties |
| `exchange` | a call of the client whose handler calls back, a call of the server at the same time, a notification, a message of no use; 1 message in each direction | every call returns; ids keep the ends apart, and notifications are not answered (`IdsDecide`); `Rpc` is implemented |
| `bridge` | an Invoke from within a request's handler, one from `onConnect`, every shape of the request, one message of noise, 1 message in each direction | Invokes end with the browser and with their deadlines (`InvokesEnd`), requests are answered, only requests are answered, and `Rpc` is implemented |
| `serve` | a ws server with a queue of 1 and 3 clients; or two servers on one unix path; or a child over stdio, with and without a launcher; 1 crash | signals stop servers, upgrades end, a stdio server ends with its parent, paths are not blocked, nothing is served after the return, and DialStdio ends and leaves no process behind (`DialEnds`) |

**Bounds.** Two callers or sessions are what it takes to overlap; a third connection is one
that is dialled while one is dropped and another is attached. One caller makes any number of
connections in turn. A call, a handler and a read loop are one of each kind that may hold `sendMu`
while another waits for it; a call of nobody's (`StaleIds`) is what a second one would be to the
first call's channel, and two replies in flight are what can be duplicated or overtake each other. In
`server` two calls share the mutex of one peer with its goroutine and its handler (`Talkers`); in
`server_start` a second connection is what it takes to fail a call by mistake, and nobody contends for
a mutex there. A connect queue or an accept queue of one is at its limit after one element, as
the code's queues of 32 and 16 after as many. One message in each direction is the narrowest
connection: whatever can block blocks there, and a wider one only delays it. Requests of different
peers share nothing but the peer map in `Routing`, so that one request among all comings and goings
shows what several would. Replies in flight are bounded by `MaxInbox`, messages without use by
`MaxNoise`, crashes by `MaxCrashes`. Where peers or calls are interchangeable and no liveness is
checked, TLC uses symmetry. `serve` is checked without deadlock, because its programs end; the other
modules have a step that says that everything is over (`Over`, `Quiet`, `Gone`), so that a deadlock
elsewhere would be reported.

**Fairness.** Weak fairness on the steps of a goroutine that depend on nothing but the scheduler,
locks and channels, and strong fairness where it is said below; in the modules whose liveness is proved each
goroutine's condition has a name (`FairLoop`, `FairCall`, `FairStop`, ...):

* `ClientLifecycle` dials for ever with a backoff, so `Reconnects` assumes that a dial that is tried
  for ever succeeds in the end (strong fairness of `Redial`).
* In `Serve` a connection that waits for room in the accept queue gets its turn (strong fairness of
  `UpgradeStep`): Go serves the senders blocked on a channel in the order they came, and Accept makes
  room again and again.
* Nobody is passed over for ever at a mutex that is free again and again (`sendMu`, `conn.mu`): a
  `sync.Mutex` hands itself over to who has waited for it for a millisecond, and the mutex inside the
  WebSocket library's Write is a channel, served in the order of arrival. This is strong fairness of
  `LockSend` and `AnswerLocks` in `Client` and of the steps of calls and peers in `Server`. In
  `WebBridge` the finitely many goroutines of a run write once each, and weak fairness gives each its
  turn.
* No call need be made, no request answered. A write into a connection that stands is not fair in
  `Client` and `Server`, be it a call's, a handler's or the read loop's, since it blocks when the peer
  does not read; in `Routing` it is fair for the peers outside `Stalled`; in `Exchange` and `WebBridge` it
  waits for room in its direction.
* `Server`'s Close is not assumed to be given a context that ends. No context need end:
  `DeadlinesEndCalls` and `InvokesEnd` speak of the calls whose context did, and except the
  wait for a mutex, which Invoke cannot leave, when it is never to be had again because its holder writes
  into an open connection with a context that goes on (`WriteStuck`: a call, a handler or the read loop).
* `Exchange` assumes that handlers return once the calls they make have. `CallsReturn` excepts what
  the code never answers: a handler's context error (`server.go:490`), and an error whose data cannot
  be encoded (`client.go:634`).
* Nothing is assumed of a browser in `WebBridge`; that it reads again and again is the premise of
  `RequestsAreAnswered`, not a fairness condition.
* In `Serve` no client connects, handshakes, or leaves, no signal comes and no program crashes unless
  it likes to. Fairness of `ForceStop` is the timer of `serve.go:85`, of `HandshakeFails` gRPC's
  own deadline, which pipes do not have: over stdio both wait for the other end.
* The parent in `DialStdio` and its kernel run; its context need not end. Its gRPC handshake needs the
  child's settings (`SettingsSent`) and is not fair: a child may be alive and silent for ever, and then
  only the context ends the dial. What the child wrote before it died can still be read (`stdout`).

**What Close can wait for.** `CloseReturns` is about every use of the client, and excepts one state:
Close waits for a read loop (`client.go:221`) that is at an answer (`AwaitsAnswer`). The exception is
needed where `Connect` overlaps a reconnection or another `Connect`: the connection that was overwritten is
never closed, a call without deadline that writes on it may hold `sendMu` for ever, and the read loop of
the connection that replaced it waits for `sendMu` in `sendError` (`client.go:334`), which Close does
not end. Where connections are made one way only (`OneWayIn`) it cannot happen, and `CloseEnds` of
`Client` says so without an exception: what Close has cancelled ends the Write of whoever holds `sendMu`.

**Findings.** Three statements of the repository are not true of the code:

1. *"Close gracefully closes the client connection and stops runtime goroutines"*
   (`client.go:182`). `Connect` looks for an existing connection before it dials and not after
   (`client.go:112`), so overlapping Connects overwrite each other and Close stops one of them.
2. *"calls after reconnection succeed"* (`AGENT.md:399`). `failAllPending` runs without the lock
   and fails every call in the map, those on the next connection included (`client.go:375`). The
   server's `failPeerPending` is per peer and does not (`InvokeFailsWithItsPeer`).
3. *"Close gracefully stops the server and disconnects all clients"* (`server.go:219`). A
   connection upgraded before Shutdown and registered after the map was swapped stays.

Two more were met and have no run of their own: a call that is interrupted may return `connection
closed` without the code UNAVAILABLE of `AGENT.md:398`, since both cases of the select at
`client.go:278` are ready; and the reconnect delay reaches 33 s where `AGENT.md:397` speaks of 30 s,
since the jitter is added after the cap (`client.go:505`).

## 4. What is proved

Every theorem is about all values of the constants. They state every safety property and every
refinement that a passing run checks, and nine of the fifteen liveness properties.
The type invariants, `ClosedIsFinal`, `IndInv` and `NoChildLeft` are proved, and no run repeats them.

`ClientLifecycleProofs`, for every number of callers, sessions and connections:

* with both entry points, in any order and overlap: `TypeCorrect`, `CloseIsFinal`, `WakeCorrect`,
  `CloseReturnsCorrect` and `ReconnectsCorrect`;
* with `ConnectWithReconnect` only, or with one caller of `Connect` (`OneWayIn`): `LicenceCorrect`, the
  inductive invariant `IndInv`, and from it `ReaderCorrect`, `CloseCorrect` and `LinkRefinement`:
  `Spec => ImplementsLink`.

No wake-up is lost even where entry points race, which is why `WakeCorrect` has an invariant of its own
(`WakeInv`): it needs to know who has a session registered, and not who may dial.

The argument is that a session is a licence to connect. `ConnectWithReconnect` registers it only
when there is no connection and no other session; until its first dial has ended the caller holds
it and the loop of the session sleeps without a token (`Quiet`, `InvUser`); afterwards the loop
has it, and it alone dials. So a dialer that finds the client open also finds it disconnected
(`InvUser`, and the loop's second look), and nobody reads the previous connection any more,
because `onDisconnect` is the last step of its reader (`InvRead`). None of the properties is
inductive alone: that a connection is never overwritten needs to know who may dial, that needs the
sessions, and those need the wake tokens. The assumption is necessary: `close_stops` and the panic
in `lifecycle_overlap` are runs without it.

`ClientProofs`, for every number of calls and of responses in flight, too:

* with both entry points: `CallsTypeCorrect`; `ClientImplementsLifecycle`, that is
  `ClientSpec => Spec`, so that every theorem above holds of the client with its calls;
  `PendingCorrect`, that a call that may still be answered is in the map and one that returned is
  not; and `ReplyCorrect`;
* under `OneWayIn`: `NoStrandedCorrect`, and three theorems on the end of calls and of Close, see *Liveness*.

`ReplyCorrect` follows what the peer said through the connection (`inbox`), the channel and the
result (`ReplyInv`); it needs no knowledge of connections, since ids are never used twice.
`NoStrandedCorrect` rests on `IndInv`: the connection a call captured is the client's, is about to be
cancelled by Close, or has been cancelled (`Captured`), because whoever installs another connection
finds that the client has none (`CapturedConnect`, `CapturedLoop`) and whoever takes one away cancels
it in the same section (`CapturedRead`, `CapturedClose`).

`ServerProofs`, for every number of connections, Starts, waiters and calls and every capacity of the
queue: `ServerTypeCorrect`, `PeersCorrect`, `ListenersCorrect`,
`NoStrandedInvokeCorrect`, `InvokeFailsCorrect`, all from `ServerInv`. The first two of the
properties are inductive together. For the calls it takes what a call's entry in the map means at each of
its steps (`PendingFits`), which peers it can have captured (`TargetFits`), and that a goroutine
which leaves its connection has cancelled the peer's context first (`LeavesCancelled`): a call
registers without a second look at the map, and the cancelled context is what it finds instead.

`RoutingProofs`, for every number of peers and requests and every set of messages:
`RoutingTypeCorrect`, `AggregateCorrect`, `HeardCorrect`, `AnnouncedCorrect`, from `RoutingInv`, and
`RefusedCorrect`. An
aggregate is complete because at every moment there is one entry for each call that is over
(`Accounted`). That everybody has heard needs to know, for each entry already announced, those it
concerns, a set that only shrinks, since peers that join were not asked and those that left do not
come back (`Concerned`, `Telling`). `VerdictType` says of the list of tests that a fan-out never
gets as far as a unicast, and `VerdictMeans`, for every shape, that the first test that applies refuses
a message if and only if it is malformed; `Decided` carries that to the answer and to the peers asked.

`ExchangeProofs`, for every number of calls in both directions, whatever is nested in what, and every
width: `ExchangeTypeCorrect`, `OwnCallsCorrect` and `NotificationsCorrect`, together `IdsCorrect`, and
`ExchangeRefinement` (`Spec => ImplementsRpc`), from `ExchangeInv`. It says what a message on its way stands for
(`Stands`): a request, for a call that has been made; a response, for a verdict that is final; and how
the two ends of a call stand towards each other (`Matched`). The refinement needs both: the step of
`Rpc` in which a caller gets its verdict happens two messages after the verdict was made.

`WebBridgeProofs`, for every number of requests and Invokes, and every width: `BridgeTypeCorrect`,
`AnswersCorrect`, `BridgeRefinement`, from `BridgeInv`. Here the peer may answer twice, and
differently, so that the invariant has to say that while an Invoke waits on a standing connection the
browser's first answer to it is the first on its way (`FirstCounts`); and that each request is on its
way at most once (`OutOnce`).

`RpcProofs` says what the abstract `Rpc` is good for: `HonestCorrect`, that a caller is told nothing but
what its own callee came to, and `OnceForAllCorrect`, that a call is taken up once and a verdict is
final. `ExchangeProofs` and `WebBridgeProofs` carry both over along their refinements and say them in
the terms of the code, as `VerdictsCorrect` and `OnceCorrect`; the one assumption, that verdicts are
none of the states of a call, is proved there. No run checks them apart: `ImplementsRpc` implies them.

`DialStdioProofs`, for every deployment with at most one stdio server, any number of servers,
connections and crashes: `DialTypeCorrect`, `NothingServedCorrect`, `NoChildCorrect`, from `DialInv`, and `PathCorrect`.
`NothingServedAfterReturn` is not inductive for two reasons. `RunWithOptions` returns when either way to
stop is done, so that each of them must account for the connections by itself
(`Stopping`): once no connection can be added, none is being set up, and, when it is done, none is served. And it returns
when Accept fails though nobody stops the server: that is the listener of stdin alone, whose only
connection is over by then (`ListenerFits`). `PathCorrect` says that a server which starts alone stays
`Unhindered`: servers that ended do not come back, and between its removal of the path and its bind
nobody else can put a socket there.

**Liveness.** These theorems say that something happens:

* `CloseReturnsCorrect`: Close cancels what it captured, the read loop it waits for leaves its Read and
  runs to its end unless it stands at an answer, then the reconnect loop does; neither waits for anything
  that Close holds.
* `ReconnectsCorrect`: a dropped connection leaves a token, or somebody who is about to leave one
  (`NoLostWakeup`), so that the session's loop wakes up, looks, and dials for ever; strong fairness of
  the dial ends it.
* `PeerLossCorrect` (`ServerProofs`): the goroutine of a lost peer leaves its connection, is told of
  the calls in its map or has its context cancelled, and either ends the call.
* `StdioEndsCorrect` (`DialStdioProofs`): an orphan's connection ends, with it its listener, Accept
  fails, and the stop of the server counts down what is left (`StopLeft`, at most 6) until it returns.
* `DialEndsCorrect`: a dial whose context ends is over, and a child that a failed dial leaves ends.
* `UpgradesEndCorrect`: a full queue is emptied by Accept again and again, or its server stops.
* `InvokesEndCorrect` (`WebBridgeProofs`), from `InvokesEndWithBrowserCorrect` and
  `DeadlinesEndInvokesCorrect`: an Invoke that is told to end, by its context or by the end of the loop,
  gets to the mutex, through its Write and out of its wait. The mutex is free again and again
  (`MutexFrees`), because its holder, whoever it is, is one whose Write comes to an end; that it is held
  by who writes is `MutexCorrect`.
* `DeadlinesEndCorrect` (`ClientProofs`): the same for `sendMu`, whoever holds it (`SendCorrect`,
  `SendFrees`), and the select of the client's Invoke.
* `CloseEndsCallsCorrect` (under `OneWayIn`): once Close is past its cancellations, the connection that a
  call has captured is cancelled and closed, whatever it is (`ToldReady`, from `CallInv` and `InvRead`),
  so that every call in the queue for `sendMu` is told, and the one that holds it.
* `LossEndsWaitsCorrect` (under `OneWayIn`): a call that waits on a connection which another call or an
  answer has closed inside Write, or which is lost and has been read empty, returns: its reader gets past
  an answer of its own, if it is at one, and goes to `onDisconnect` (`ReaderFinds`), or Close comes first.
* `CloseEndsCorrect` (`CloseEnds` of `Client`): the read loop that Close waits for gets past an answer,
  since `sendMu` comes free again and again once every connection that is written on is cancelled
  (`PastReturns`); the rest is the argument of `CloseReturnsCorrect`, with the turns of `Client`
  (`ReadTurns`, `LoopTurns`, `CloseTakesTurns`).

Each has the form `Spec /\ []Turns => P` (`TurnsCome` in `Client`). `Turns` says of the scheduler what
the fairness of `FairSpec` says, with the guard of each step (`ReadReady`, `CallReady`, `StopReady`, ...)
in the place of `ENABLED`, which the installed provers cannot derive from the actions: who goes on being
able to take a step takes one, and, for the steps that are strongly fair, who is able to again and again.
Each turn is of the form `[]<>` or `<>[]`, so that it holds of every suffix of a behaviour of which it
holds; `[]` is written because the provers do not know that. That a guard in `Turns` is the step's is
read off the action; it is the one hypothesis about the scheduling, and nothing of what the steps do is
in it. TLC checks the properties themselves under `FairSpec`.

`ReconnectsCorrect` assumes further that there are infinitely many connections (`~IsFiniteSet(Conns)`):
a dial needs an identity that nobody refers to, and the code makes a new connection each time; TLC, with
two identities that are used again, finds no behaviour that lacks one.

**Assumptions.** The constants' assumptions say that identities are disjoint and that `None` is
none of the values a variable holds; that `Modes`, `Messages`, `Replies`, `Noises` and `Deployments`
name what the code knows; that a queue and a direction hold at least one element; that a handler
calls back from the end it runs at (`ParentAssumption`); and that there is one child
(`OneChildAssumption`), since `DialStdio` is one call.

**Only model-checked.** Six properties of liveness, whose proofs need induction over something of any
size inside formulas of temporal logic, which is out of reach (the rule for it takes a temporal formula
as its parameter, and a module may not give it one):

* `LossEndsCalls`, of a part only: that the read loop of a lost connection comes to the end of the responses in
  flight. What it says of Close, of closed connections and of connections that have been read empty is
  `CloseEndsCallsCorrect` and `LossEndsWaitsCorrect`;
* `CloseEnds` of `Server`, `LossEndsRequests` and `SignalsStop` wait for all peers, or all connections, of a server;
* `CallsReturn` and `RequestsAreAnswered` wait for everything ahead in a queue, and the former for calls nested to
  any depth.

## 5. What is not modelled, and why

* Texts of errors, logging, and the encoding of JSON beyond the kinds of value that decide what
  happens; `decodeResult`, `idKey` and the error type of `types.go`.
* Time, except for "a context or a timer ends"; the reconnect delay with it.
* The events of `WaitForClient` are modelled (`Announce`, `TakeClient`), and no property is about them: that
  one is received at most once is what a Go channel does, and `server.go` promises nothing of events that
  are dropped when the queue is full, or that are stale when they are read.
* The parsing of flags and of URIs: one pass over their arguments, without state.
* tcp and mem listeners, `Dial`, `DialWebSocket`, `DialMem`: single calls into `net`, `bufconn` and
  grpc. The gRPC library itself is external.
* The registration of handlers, of origins and of `onConnect`, which happens before the servers start.
* `cmd/echo-server`, which repeats `serve`, and the rest of `cmd/echo-client`.
* Two servers alive on one unix path at the same time taking it from each other
  (`transport.go:42`, `transport.go:172`): `Serve` has the steps, and no property is about it, since nothing in the
  repository says what should happen.

What would be next: the composition of `ClientLifecycle` with `Exchange`, so that connections that are
made anew and handlers that call back meet in one run; messages of no use to both ends of `Exchange` at
once, where both read loops may come to wait for each other; and the six properties of liveness above,
should the prover learn induction in temporal logic.
