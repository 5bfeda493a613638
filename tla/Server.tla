------------------------------- MODULE Server -------------------------------
(***************************************************************************)
(* The Holon-RPC server (pkg/holonrpc/server.go): Start and Close, the     *)
(* goroutine of each WebSocket (handleWebSocket) from the accepted TCP     *)
(* connection to its deferred clean-up, the queue of connect events read   *)
(* by WaitForClient, and Invoke towards a peer.  What the server does with *)
(* a peer's requests is in module Routing.                                 *)
(*                                                                         *)
(* A member of Peers is one connection for all its life: its client id,    *)
(* its serverPeer and its goroutine.  Client ids are never used again.     *)
(***************************************************************************)
EXTENDS Naturals, Sequences

CONSTANTS Peers, Starters,  \* connections; goroutines that call Start
          Waiters, Calls,   \* calls of WaitForClient and of Invoke
          Talkers,          \* the connections whose other end sends requests and
                            \*   malformed messages
          QueueCap,         \* capacity of connectQ (32 in the code)
          None

Answerers == {"reader", "handler"}   \* of a connection: its goroutine, its handlers

ASSUME ServerNoneAssumption == /\ None \notin Peers \cup Starters \cup Calls \cup {"unavailable"}
                               /\ Answerers \cap (Calls \cup {None}) = {}
ASSUME TalkersAssumption == Talkers \subseteq Peers
ASSUME QueueCapAssumption == QueueCap \in Nat \ {0}

VARIABLES
  closed, server,           \* s.closed; the Start whose http.Server is s.server
  start, lis,               \* each Start: where it is, its listener
  hs, via, sock, ctxDone,   \* each connection: its goroutine, the listener it came
                            \*   from, its socket, its peer.ctx
  peers, connectQ,          \* s.peers and s.connectQ
  waiter, got,              \* each WaitForClient: where it is, what it returned
  closer, closeSrv, doomed, \* Close: where it is, the server and peers it captured
  call, target, expired,    \* each Invoke: where it is, its peer, its context
  ch, pending, outcome,
  swapped,                  \* the calls failPeerPending has taken out of pending and
                            \*   has yet to fail, run by a peer's goroutine, or by Close
  sendMu,                   \* each peer's sendMu: the call or the answer that holds it
  asked                     \* requests the peer has received

startVars == <<server, start, lis>>
peerVars  == <<hs, via, sock, ctxDone, peers>>
queueVars == <<connectQ, waiter, got>>
closeVars == <<closed, closer, closeSrv, doomed>>
callVars  == <<call, target, expired, ch, pending, swapped, outcome, asked>>
vars == <<startVars, peerVars, queueVars, closeVars, callVars, sendMu>>

TypeOK ==
  /\ closed \in BOOLEAN /\ server \in Starters \cup {None}
  /\ start \in [Starters -> {"idle", "listen", "install", "done"}]
  /\ lis \in [Starters -> {"none", "open", "closed"}]
  /\ hs \in [Peers -> {"away", "active", "upgraded", "refused", "announce", "serve",
                       "answer", "leave", "swap", "fail", "gone"}]
  /\ via \in [Peers -> Starters \cup {None}]
  /\ sock \in [Peers -> {"none", "open", "closed"}] /\ ctxDone \in [Peers -> BOOLEAN]
  /\ peers \subseteq Peers
  /\ connectQ \in Seq(Peers) /\ Len(connectQ) <= QueueCap
  /\ waiter \in [Waiters -> {"waiting", "done"}] /\ got \in [Waiters -> Peers \cup {None}]
  /\ closer \in {"idle", "shutdown", "await", "swap", "disconnect", "fail", "returned"}
  /\ closeSrv \in Starters \cup {None} /\ doomed \subseteq Peers
  /\ call \in [Calls -> {"idle", "register", "lock", "write", "wait", "leave", "done"}]
  /\ target \in [Calls -> Peers \cup {None}] /\ expired \in [Calls -> BOOLEAN]
  /\ ch \in [Calls -> {"response", "unavailable", None}]
  /\ pending \subseteq Calls /\ swapped \in [{"reader", "close"} -> SUBSET Calls]
  /\ sendMu \in [Peers -> Calls \cup Answerers \cup {None}]
  /\ outcome \in [Calls -> {"response", "unavailable", "failed", None}]
  /\ asked \subseteq Calls

Init ==
  /\ closed = FALSE /\ server = None
  /\ start = [u \in Starters |-> "idle"] /\ lis = [u \in Starters |-> "none"]
  /\ hs = [p \in Peers |-> "away"] /\ via = [p \in Peers |-> None]
  /\ sock = [p \in Peers |-> "none"] /\ ctxDone = [p \in Peers |-> FALSE]
  /\ peers = {} /\ connectQ = <<>>
  /\ waiter = [w \in Waiters |-> "waiting"] /\ got = [w \in Waiters |-> None]
  /\ closer = "idle" /\ closeSrv = None /\ doomed = {}
  /\ call = [k \in Calls |-> "idle"] /\ target = [k \in Calls |-> None]
  /\ expired = [k \in Calls |-> FALSE] /\ ch = [k \in Calls |-> None]
  /\ pending = {} /\ swapped = [f \in {"reader", "close"} |-> {}]
  /\ sendMu = [p \in Peers |-> None]
  /\ outcome = [k \in Calls |-> None] /\ asked = {}

-----------------------------------------------------------------------------
(* Start: the lock is released to listen, and the http.Server accepts        *)
(* connections before Start has found out whether it is wanted.              *)

StartOnlyIfOpen == closed   \* mutant: a running server is not looked for
StartRefused == closed \/ server # None

StartChecks(u) ==
  /\ start[u] = "idle"
  /\ start' = [start EXCEPT ![u] = IF StartRefused THEN "done" ELSE "listen"]
  /\ UNCHANGED <<server, lis, peerVars, queueVars, closeVars, callVars, sendMu>>

Listen(u) ==
  /\ start[u] = "listen"
  /\ start' = [start EXCEPT ![u] = "install"]
  /\ lis' = [lis EXCEPT ![u] = "open"]
  /\ UNCHANGED <<server, peerVars, queueVars, closeVars, callVars, sendMu>>

ListenFails(u) ==
  /\ start[u] = "listen"
  /\ start' = [start EXCEPT ![u] = "done"]
  /\ UNCHANGED <<server, lis, peerVars, queueVars, closeVars, callVars, sendMu>>

(* The http.Server that lost closes what it accepted and has not handed over. *)
InstallServer(u) ==
  /\ start[u] = "install"
  /\ start' = [start EXCEPT ![u] = "done"]
  /\ IF StartRefused
     THEN /\ lis' = [lis EXCEPT ![u] = "closed"]
          /\ sock' = [p \in Peers |-> IF hs[p] = "active" /\ via[p] = u THEN "closed" ELSE sock[p]]
          /\ UNCHANGED server
     ELSE server' = u /\ UNCHANGED <<lis, sock>>
  /\ UNCHANGED <<hs, via, ctxDone, peers, queueVars, closeVars, callVars, sendMu>>

-----------------------------------------------------------------------------
(* handleWebSocket of connection p.                                         *)

At(p, from, to) == hs[p] = from /\ hs' = [hs EXCEPT ![p] = to]

AcceptTCP(p, u) ==
  /\ lis[u] = "open" /\ At(p, "away", "active")
  /\ via' = [via EXCEPT ![p] = u]
  /\ sock' = [sock EXCEPT ![p] = "open"]
  /\ UNCHANGED <<ctxDone, peers, startVars, queueVars, closeVars, callVars, sendMu>>

(* websocket.Accept takes the connection away from the http.Server.          *)
Upgrade(p) ==
  /\ At(p, "active", "upgraded") /\ sock[p] = "open"
  /\ UNCHANGED <<via, sock, ctxDone, peers, startVars, queueVars, closeVars, callVars, sendMu>>

(* The upgrade or the subprotocol is refused, or the socket is gone.         *)
UpgradeFails(p) ==
  /\ At(p, "active", "refused")
  /\ sock' = [sock EXCEPT ![p] = "closed"]
  /\ UNCHANGED <<via, ctxDone, peers, startVars, queueVars, closeVars, callVars, sendMu>>

RegisterPeer(p) ==
  /\ At(p, "upgraded", "announce")
  /\ peers' = peers \cup {p}
  /\ UNCHANGED <<via, sock, ctxDone, startVars, queueVars, closeVars, callVars, sendMu>>

(* A full queue drops the event.                                             *)
Enqueued(p) == IF Len(connectQ) < QueueCap THEN Append(connectQ, p) ELSE connectQ
Announce(p) ==
  /\ At(p, "announce", "serve")
  /\ connectQ' = Enqueued(p)
  /\ UNCHANGED <<via, sock, ctxDone, peers, startVars, waiter, got, closeVars, callVars, sendMu>>

(* Mutants: the deferred function does not cancel, does not run, or does not *)
(* remove the peer.                                                         *)
LeavesUncancelled(p) ==
  /\ sock[p] = "closed" \/ ctxDone[p]
  /\ At(p, "serve", "leave")
  /\ UNCHANGED <<via, sock, ctxDone, peers, startVars, queueVars, closeVars, callVars, sendMu>>
LeavesUndeferred(p) ==
  /\ sock[p] = "closed" \/ ctxDone[p]
  /\ At(p, "serve", "gone")
  /\ UNCHANGED <<via, sock, ctxDone, peers, startVars, queueVars, closeVars, callVars, sendMu>>
StaysRegistered(p) ==
  /\ At(p, "leave", "swap")
  /\ UNCHANGED <<via, sock, ctxDone, peers, startVars, queueVars, closeVars, callVars, sendMu>>

(* Read fails: the deferred function cancels the peer's context, removes the *)
(* peer and fails its calls.                                                 *)
ReadFails(p) ==
  /\ sock[p] = "closed" \/ ctxDone[p]
  /\ At(p, "serve", "leave")
  /\ ctxDone' = [ctxDone EXCEPT ![p] = TRUE]
  /\ sock' = [sock EXCEPT ![p] = "closed"]
  /\ UNCHANGED <<via, peers, startVars, queueVars, closeVars, callVars, sendMu>>

UnregisterPeer(p) ==
  /\ At(p, "leave", "swap")
  /\ peers' = peers \ {p}
  /\ UNCHANGED <<via, sock, ctxDone, startVars, queueVars, closeVars, callVars, sendMu>>

(* failPeerPending swaps the peer's map under pendingMu, and then, without it, *)
(* answers every channel that was in it with code 14.                        *)
CallsOf(p, ks) == {k \in ks : target[k] = p}
SwapPeerPending(f, p) ==
  /\ swapped' = [swapped EXCEPT ![f] = @ \cup CallsOf(p, pending)]
  /\ pending' = pending \ CallsOf(p, pending)
  /\ UNCHANGED <<call, target, expired, ch, outcome, asked, sendMu>>
FailEverybody(f, ks) ==   \* mutant: the calls of all peers are failed
  /\ ch' = [k \in Calls |-> IF k \in ks \cup pending /\ ch[k] = None THEN "unavailable" ELSE ch[k]]
  /\ swapped' = [swapped EXCEPT ![f] = @ \ ks]
  /\ UNCHANGED <<call, target, expired, pending, outcome, asked, sendMu>>
FailSwapped(f, ks) ==
  /\ ch' = [k \in Calls |-> IF k \in ks /\ ch[k] = None THEN "unavailable" ELSE ch[k]]
  /\ swapped' = [swapped EXCEPT ![f] = @ \ ks]
  /\ UNCHANGED <<call, target, expired, pending, outcome, asked, sendMu>>

PeerSwaps(p) ==
  /\ At(p, "swap", "fail") /\ SwapPeerPending("reader", p)
  /\ UNCHANGED <<via, sock, ctxDone, peers, startVars, queueVars, closeVars>>

PeerGone(p) ==
  /\ At(p, "fail", "gone") /\ FailSwapped("reader", CallsOf(p, swapped["reader"]))
  /\ UNCHANGED <<via, sock, ctxDone, peers, startVars, queueVars, closeVars>>

(* The environment: the peer or the network ends the connection.             *)
PeerDrops(p) ==
  /\ sock[p] = "open"
  /\ sock' = [sock EXCEPT ![p] = "closed"]
  /\ UNCHANGED <<hs, via, ctxDone, peers, startVars, queueVars, closeVars, callVars, sendMu>>

-----------------------------------------------------------------------------
(* WaitForClient.                                                           *)

TakeClient(w) ==
  /\ waiter[w] = "waiting" /\ connectQ # <<>>
  /\ waiter' = [waiter EXCEPT ![w] = "done"]
  /\ got' = [got EXCEPT ![w] = Head(connectQ)]
  /\ connectQ' = Tail(connectQ)
  /\ UNCHANGED <<peerVars, startVars, closeVars, callVars, sendMu>>

WaitExpires(w) ==
  /\ waiter[w] = "waiting"
  /\ waiter' = [waiter EXCEPT ![w] = "done"]
  /\ UNCHANGED <<connectQ, got, peerVars, startVars, closeVars, callVars, sendMu>>

-----------------------------------------------------------------------------
(* Close.  Shutdown closes the listener and waits for the connections that   *)
(* have not been upgraded, at most as long as Close's context lasts; it does *)
(* not know of those that have.                                              *)

CallClose ==
  /\ closer = "idle"
  /\ closer' = "shutdown" /\ closed' = TRUE
  /\ closeSrv' = server /\ server' = None
  /\ UNCHANGED <<doomed, start, lis, peerVars, queueVars, callVars, sendMu>>

Shutdown ==
  /\ closer = "shutdown" /\ closer' = "await"
  /\ lis' = [u \in Starters |-> IF u = closeSrv THEN "closed" ELSE lis[u]]
  /\ UNCHANGED <<closed, closeSrv, doomed, server, start, peerVars, queueVars, callVars, sendMu>>

(* Mutant: upgraded connections are waited for as well.                     *)
ShutdownAwaitsAll ==
  /\ closer = "await" /\ closer' = "swap"
  /\ \A p \in Peers : hs[p] \in {"away", "refused", "gone"}
  /\ UNCHANGED <<closed, closeSrv, doomed, startVars, peerVars, queueVars, callVars, sendMu>>

ShutdownEnds ==
  /\ closer = "await" /\ closer' = "swap"
  /\ \A p \in Peers : hs[p] = "active" => via[p] # closeSrv
  /\ UNCHANGED <<closed, closeSrv, doomed, startVars, peerVars, queueVars, callVars, sendMu>>

ShutdownExpires ==
  /\ closer = "await" /\ closer' = "swap"
  /\ closeSrv # None
  /\ UNCHANGED <<closed, closeSrv, doomed, startVars, peerVars, queueVars, callVars, sendMu>>

SwapPeers ==
  /\ closer = "swap" /\ closer' = "disconnect"
  /\ doomed' = peers /\ peers' = {}
  /\ UNCHANGED <<closed, closeSrv, hs, via, sock, ctxDone, startVars, queueVars, callVars, sendMu>>

DisconnectPeer(p) ==
  /\ closer = "disconnect" /\ p \in doomed
  /\ closer' = "fail" /\ doomed' = doomed \ {p}
  /\ ctxDone' = [ctxDone EXCEPT ![p] = TRUE]
  /\ sock' = [sock EXCEPT ![p] = "closed"]
  /\ SwapPeerPending("close", p)
  /\ UNCHANGED <<closed, closeSrv, hs, via, peers, startVars, queueVars>>

FailDisconnected ==
  /\ closer = "fail" /\ closer' = "disconnect"
  /\ FailSwapped("close", swapped["close"])
  /\ UNCHANGED <<closed, closeSrv, doomed, peerVars, startVars, queueVars>>

CloseReturns ==
  /\ closer = "disconnect" /\ doomed = {}
  /\ closer' = "returned"
  /\ UNCHANGED <<closed, closeSrv, doomed, startVars, peerVars, queueVars, callVars, sendMu>>

-----------------------------------------------------------------------------
(* Invoke.                                                                  *)

CallAt(k, from, to) == call[k] = from /\ call' = [call EXCEPT ![k] = to]
NotCallVars == <<startVars, peerVars, queueVars, closeVars>>

LookupPeer(k, p) ==
  /\ p \in peers /\ CallAt(k, "idle", "register")
  /\ target' = [target EXCEPT ![k] = p]
  /\ UNCHANGED <<NotCallVars, expired, ch, pending, swapped, sendMu, outcome, asked>>

UnknownPeer(k, p) ==
  /\ p \notin peers /\ CallAt(k, "idle", "done")
  /\ UNCHANGED <<NotCallVars, target, expired, ch, pending, swapped, sendMu, outcome, asked>>

RegisterCall(k) ==
  /\ pending' = pending \cup {k}
  /\ \/ CallAt(k, "register", "lock") /\ UNCHANGED outcome
     \/ CallAt(k, "register", "leave") /\ outcome' = [outcome EXCEPT ![k] = "failed"]
  /\ UNCHANGED <<NotCallVars, target, expired, ch, swapped, sendMu, asked>>

LockPeer(k) ==
  /\ CallAt(k, "lock", "write") /\ sendMu[target[k]] = None
  /\ sendMu' = [sendMu EXCEPT ![target[k]] = k]
  /\ UNCHANGED <<NotCallVars, target, expired, ch, pending, swapped, outcome, asked>>

(* writePeer uses the context of the peer, never that of the call.           *)
WritePeer(k) ==
  /\ CallAt(k, "write", "wait") /\ sock[target[k]] = "open" /\ ~ctxDone[target[k]]
  /\ sendMu' = [sendMu EXCEPT ![target[k]] = None]
  /\ asked' = asked \cup {k}
  /\ UNCHANGED <<NotCallVars, target, expired, ch, pending, swapped, outcome>>

WritePeerFails(k) ==
  /\ CallAt(k, "write", "leave") /\ (sock[target[k]] = "closed" \/ ctxDone[target[k]])
  /\ sendMu' = [sendMu EXCEPT ![target[k]] = None]
  /\ outcome' = [outcome EXCEPT ![k] = "failed"]
  /\ UNCHANGED <<NotCallVars, target, expired, ch, pending, swapped, asked>>

Returns(k, o) ==
  /\ CallAt(k, "wait", "leave")
  /\ outcome' = [outcome EXCEPT ![k] = o]
  /\ UNCHANGED <<NotCallVars, target, expired, pending, swapped, sendMu, asked>>
TakeResponse(k) == Returns(k, ch[k]) /\ ch[k] # None /\ ch' = [ch EXCEPT ![k] = None]
ContextEnds(k)  == Returns(k, "failed") /\ expired[k] /\ UNCHANGED ch
PeerEnds(k)     == Returns(k, "failed") /\ ctxDone[target[k]] /\ UNCHANGED ch

(* The deferred delete.  The call forgets its peer; what is still sent to its   *)
(* channel, and a late response, which finds nothing in pending, reach nobody. *)
Unregister(k) ==
  /\ CallAt(k, "leave", "done")
  /\ pending' = pending \ {k} /\ swapped' = [f \in {"reader", "close"} |-> swapped[f] \ {k}]
  /\ target' = [target EXCEPT ![k] = None] /\ expired' = [expired EXCEPT ![k] = FALSE]
  /\ ch' = [ch EXCEPT ![k] = None] /\ outcome' = [outcome EXCEPT ![k] = None]
  /\ asked' = asked \ {k}
  /\ UNCHANGED <<NotCallVars, sendMu>>

(* The goroutine of the connection delivers a response, in handlePeerResponse. *)
HandlePeerResponse(k) ==
  /\ k \in asked /\ hs[target[k]] = "serve" /\ sock[target[k]] = "open"
  /\ ch' = IF k \in pending /\ ch[k] = None THEN [ch EXCEPT ![k] = "response"] ELSE ch
  /\ UNCHANGED <<NotCallVars, call, target, expired, pending, swapped, sendMu, outcome, asked>>

(* Nothing but the select looks at the context of a call.                    *)
Expire(k) ==
  /\ call[k] = "wait" /\ ~expired[k]
  /\ expired' = [expired EXCEPT ![k] = TRUE]
  /\ UNCHANGED <<NotCallVars, call, target, ch, pending, swapped, sendMu, outcome, asked>>

-----------------------------------------------------------------------------
(* The other Writes.  The goroutine of a connection answers malformed messages *)
(* itself; each request has a handler of its own, which may outlive the        *)
(* connection.  Their answers are written like requests, under sendMu and with *)
(* the context of the peer.                                                  *)

ReceiveMalformed(p) ==
  /\ p \in Talkers /\ At(p, "serve", "answer") /\ sock[p] = "open"
  /\ UNCHANGED <<via, sock, ctxDone, peers, startVars, queueVars, closeVars, callVars, sendMu>>

MayAnswer(p, x) == IF x = "reader" THEN hs[p] = "answer"
                   ELSE p \in Talkers /\ hs[p] \in {"serve", "answer", "leave", "swap", "fail", "gone"}
AnswerLocks(p, x) ==
  /\ MayAnswer(p, x) /\ sendMu[p] = None
  /\ sendMu' = [sendMu EXCEPT ![p] = x]
  /\ UNCHANGED <<peerVars, startVars, queueVars, closeVars, callVars>>

(* Whether the Write succeeded is ignored.                                   *)
AnswerReturns(p, x) ==
  /\ sendMu[p] = x /\ sendMu' = [sendMu EXCEPT ![p] = None]
  /\ IF x = "reader" THEN At(p, "answer", "serve") ELSE UNCHANGED hs
  /\ UNCHANGED <<via, sock, ctxDone, peers, startVars, queueVars, closeVars, callVars>>
AnswerSent(p, x)  == AnswerReturns(p, x) /\ sock[p] = "open" /\ ~ctxDone[p]
AnswerFails(p, x) == AnswerReturns(p, x) /\ (sock[p] = "closed" \/ ctxDone[p])

-----------------------------------------------------------------------------

StartStep(u) == StartChecks(u) \/ Listen(u) \/ ListenFails(u) \/ InstallServer(u)
PeerStep(p) == \/ Upgrade(p) \/ UpgradeFails(p) \/ RegisterPeer(p) \/ Announce(p)
               \/ AnswerLocks(p, "reader") \/ AnswerFails(p, "reader")
               \/ ReadFails(p) \/ UnregisterPeer(p) \/ PeerSwaps(p) \/ PeerGone(p)
CloseStep == \/ Shutdown \/ ShutdownEnds \/ SwapPeers
             \/ (\E p \in Peers : DisconnectPeer(p)) \/ FailDisconnected \/ CloseReturns
CallStep(k) == \/ RegisterCall(k) \/ LockPeer(k) \/ WritePeerFails(k)
               \/ TakeResponse(k) \/ ContextEnds(k) \/ PeerEnds(k) \/ Unregister(k)

AnswerStep(p, x) == AnswerLocks(p, x) \/ AnswerSent(p, x) \/ AnswerFails(p, x)

(* Start, Close, Invoke and WaitForClient on a server that is down and empty. *)
Over == /\ closer = "returned" /\ peers = {} /\ UNCHANGED vars

Next ==
  \/ \E u \in Starters : StartStep(u)
  \/ \E p \in Peers : \/ PeerStep(p) \/ PeerDrops(p) \/ ReceiveMalformed(p)
                      \/ \E u \in Starters : AcceptTCP(p, u)
                      \/ \E x \in Answerers : AnswerStep(p, x)
  \/ \E w \in Waiters : TakeClient(w) \/ WaitExpires(w)
  \/ CallClose \/ CloseStep \/ ShutdownExpires
  \/ \E k \in Calls : \/ CallStep(k) \/ WritePeer(k) \/ HandlePeerResponse(k) \/ Expire(k)
                      \/ \E p \in Peers : LookupPeer(k, p) \/ UnknownPeer(k, p)
  \/ Over

Spec == Init /\ [][Next]_vars

(* Goroutines that can run are run, and an HTTP upgrade ends.  Nobody has to  *)
(* call the server or to answer it, no context has to end, a handler may run   *)
(* for ever, and a Write may block as long as its connection stands.  Nobody   *)
(* is passed over for ever at sendMu: a sync.Mutex hands itself to who has     *)
(* waited for it for a millisecond.                                           *)
FairStart(u) == WF_vars(StartStep(u))
FairPeer(p)  == SF_vars(PeerStep(p))
FairHandler(p) == WF_vars(AnswerFails(p, "handler"))
FairCloser   == WF_vars(CloseStep)
FairCall(k)  == SF_vars(CallStep(k))
Fairness ==
  /\ \A u \in Starters : FairStart(u)
  /\ \A p \in Peers : FairPeer(p)
  /\ \A p \in Talkers : FairHandler(p)
  /\ FairCloser
  /\ \A k \in Calls : FairCall(k)

FairSpec == Spec /\ Fairness

-----------------------------------------------------------------------------
(* Properties.                                                              *)

Connected == {p \in Peers : hs[p] \in {"announce", "serve", "answer"}}

(* ClientIDs and Invoke see exactly the connections being served: until Close *)
(* swaps the map, every served connection is in it, and at all times every    *)
(* peer in it has a goroutine that will remove it.                            *)
PeersAreServed ==
  /\ \A p \in peers : hs[p] \in {"announce", "serve", "answer", "leave"}
  /\ closer \notin {"disconnect", "fail", "returned"} => Connected \subseteq peers

(* However Starts and Close overlap, a listener is open only while it is the  *)
(* server's own, while its Start has yet to find out that it is not wanted,   *)
(* or while Close is about to shut it down: none is left behind.              *)
NoListenerLeft ==
  \A u \in Starters : lis[u] = "open" =>
    start[u] = "install" \/ server = u \/ (closeSrv = u /\ closer = "shutdown")

(* A call that waits for a response waits on a connection whose goroutine is  *)
(* running, so that the end of the connection ends the call.                  *)
NoStrandedInvoke ==
  \A k \in Calls : call[k] = "wait" /\ ch[k] = None /\ ~ctxDone[target[k]] =>
    k \in pending /\ target[k] \in Connected

(* A call is failed as unavailable only when its own peer is gone.  (The       *)
(* client's failAllPending knows no connections, see HealthyCallsNotFailed    *)
(* in module Client.)                                                        *)
InvokeFailsWithItsPeer ==
  \A k \in Calls : ch[k] = "unavailable" \/ outcome[k] = "unavailable" => ctxDone[target[k]]

(* A peer that goes away ends every call on it: those that wait for its       *)
(* response, and those in its sendMu or behind a Write that holds it.         *)
PeerLossEndsInvokes ==
  \A k \in Calls :
    call[k] \notin {"idle", "done"} /\ sock[target[k]] = "closed" ~> call[k] = "done"

(* Close returns, and the connections it found are disconnected to the end.   *)
CloseEnds == /\ closer = "shutdown" ~> closer = "returned"
             /\ \A p \in Peers : p \in doomed ~> hs[p] = "gone"

(* server.go:219, "Close gracefully stops the server and disconnects all      *)
(* clients": after Close no client is connected and served.                   *)
CloseDisconnectsAll ==
  closer = "returned" =>
    \A p \in Peers : ~(hs[p] \in {"serve", "answer"} /\ sock[p] = "open" /\ ~ctxDone[p])
=============================================================================
