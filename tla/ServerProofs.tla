---------------------------- MODULE ServerProofs ----------------------------
(* Theorems about Server, for every number of connections, of Starts, of     *)
(* calls, and for every capacity of the queue of connect events.             *)
EXTENDS Server, TLAPS

USE ServerNoneAssumption, TalkersAssumption, QueueCapAssumption

-----------------------------------------------------------------------------
(* The invariant.                                                           *)

(* A goroutine that has left its connection has cancelled the peer's context. *)
Leaving == {"leave", "swap", "fail"}
Served  == {"announce", "serve", "answer"} \cup Leaving \cup {"gone"}
LeavesCancelled == \A p \in Peers : hs[p] \in Leaving \cup {"gone"} => ctxDone[p]

(* A call's peer has been in the map, and is cancelled when it leaves it.      *)
TargetFits(k) ==
  /\ call[k] \in {"register", "lock", "write", "wait", "leave"} => target[k] \in Peers
  /\ target[k] \in Peers =>
       /\ hs[target[k]] \in Served
       /\ hs[target[k]] \in Leaving \cup {"gone"} => ctxDone[target[k]]

(* A call is in pending from its registration until it is answered, failed    *)
(* with its peer, or over.                                                   *)
PendingFits(k) ==
  /\ call[k] = "idle" => ch[k] = None /\ outcome[k] = None
  /\ k \in pending \cup swapped["reader"] \cup swapped["close"] =>
       call[k] \in {"lock", "write", "wait", "leave"}
  /\ \A f \in {"reader", "close"} : k \in swapped[f] => target[k] \in Peers /\ ctxDone[target[k]]
  /\ call[k] \in {"lock", "write", "wait"} /\ ch[k] = None => k \in pending \/ ctxDone[target[k]]
  /\ ch[k] = "unavailable" \/ outcome[k] = "unavailable" => target[k] \in Peers /\ ctxDone[target[k]]

CallsFit == \A k \in Calls : TargetFits(k) /\ PendingFits(k)

(* sendMu is held by who writes: by a call that holds its peer's, or by the    *)
(* goroutine of the connection when it answers, or by a handler of its.        *)
SendFits ==
  /\ \A k \in Calls : call[k] = "write" => sendMu[target[k]] = k
  /\ \A p \in Peers : /\ (\A k \in Calls : sendMu[p] = k => call[k] = "write" /\ target[k] = p)
                      /\ sendMu[p] = "reader" => hs[p] = "answer"
                      /\ sendMu[p] = "handler" => p \in Talkers

ServerInv == /\ TypeOK /\ PeersAreServed /\ NoListenerLeft
             /\ LeavesCancelled /\ CallsFit /\ SendFits

-----------------------------------------------------------------------------
(* Types.                                                                   *)

StartType == /\ server \in Starters \cup {None}
             /\ start \in [Starters -> {"idle", "listen", "install", "done"}]
             /\ lis \in [Starters -> {"none", "open", "closed"}]
PeerType ==
  /\ hs \in [Peers -> {"away", "active", "upgraded", "refused", "announce", "serve",
                       "answer", "leave", "swap", "fail", "gone"}]
  /\ via \in [Peers -> Starters \cup {None}]
  /\ sock \in [Peers -> {"none", "open", "closed"}] /\ ctxDone \in [Peers -> BOOLEAN]
  /\ peers \subseteq Peers
QueueType == /\ connectQ \in Seq(Peers) /\ Len(connectQ) <= QueueCap
             /\ waiter \in [Waiters -> {"waiting", "done"}] /\ got \in [Waiters -> Peers \cup {None}]
CloseType == /\ closed \in BOOLEAN
             /\ closer \in {"idle", "shutdown", "await", "swap", "disconnect", "fail", "returned"}
             /\ closeSrv \in Starters \cup {None} /\ doomed \subseteq Peers
CallType ==
  /\ call \in [Calls -> {"idle", "register", "lock", "write", "wait", "leave", "done"}]
  /\ target \in [Calls -> Peers \cup {None}] /\ expired \in [Calls -> BOOLEAN]
  /\ ch \in [Calls -> {"response", "unavailable", None}]
  /\ pending \subseteq Calls /\ swapped \in [{"reader", "close"} -> SUBSET Calls]
  /\ outcome \in [Calls -> {"response", "unavailable", "failed", None}]
  /\ asked \subseteq Calls
SendType == sendMu \in [Peers -> Calls \cup Answerers \cup {None}]

LEMMA TypeParts == /\ TypeOK <=> StartType /\ PeerType /\ QueueType /\ CloseType /\ CallType /\ SendType
                   /\ TypeOK' <=> /\ StartType' /\ PeerType' /\ QueueType' /\ CloseType' /\ CallType'
                                  /\ SendType'
BY DEF TypeOK, StartType, PeerType, QueueType, CloseType, CallType, SendType

LEMMA TypeSame ==
  /\ StartType /\ UNCHANGED startVars => StartType'
  /\ PeerType /\ UNCHANGED peerVars => PeerType'
  /\ QueueType /\ UNCHANGED queueVars => QueueType'
  /\ CloseType /\ UNCHANGED closeVars => CloseType'
  /\ CallType /\ UNCHANGED callVars => CallType'
  /\ SendType /\ UNCHANGED sendMu => SendType'
BY DEF StartType, PeerType, QueueType, CloseType, CallType, SendType,
   startVars, peerVars, queueVars, closeVars, callVars

LEMMA TypeInit == Init => TypeOK
<1> SUFFICES ASSUME Init PROVE StartType /\ PeerType /\ QueueType /\ CloseType /\ CallType /\ SendType
  BY TypeParts
<1>1. StartType /\ PeerType /\ CloseType /\ SendType
  BY DEF Init, StartType, PeerType, CloseType, SendType
<1>2. QueueType
  BY DEF Init, QueueType
<1>3. CallType
  BY DEF Init, CallType
<1> QED
  BY <1>1, <1>2, <1>3

LEMMA TypeStart ==
  ASSUME TypeOK, NEW u \in Starters, StartStep(u)
  PROVE  TypeOK'
<1>0. StartType /\ PeerType
  BY TypeParts
<1>1. CASE StartChecks(u) \/ Listen(u) \/ ListenFails(u)
  <2>1. StartType'
    BY <1>0, <1>1 DEF StartType, StartChecks, Listen, ListenFails
  <2> QED
    BY <1>1, <2>1, TypeParts, TypeSame DEF StartChecks, Listen, ListenFails
<1>2. CASE InstallServer(u)
  <2>1. StartType' /\ PeerType'
    BY <1>0, <1>2 DEF StartType, PeerType, InstallServer
  <2> QED
    BY <1>2, <2>1, TypeParts, TypeSame DEF InstallServer
<1> QED
  BY <1>1, <1>2 DEF StartStep

(* What a peer's goroutine, or Close, has taken out of pending.               *)
Takers == {"reader", "close"}

LEMMA FailPeerType ==
  ASSUME CallType, NEW f \in Takers, NEW p \in Peers, NEW ks, ks \subseteq Calls,
         SwapPeerPending(f, p) \/ FailSwapped(f, ks)
  PROVE  CallType' /\ UNCHANGED sendMu
BY DEF CallType, Takers, SwapPeerPending, FailSwapped, CallsOf

(* A step of a connection, its handlers and its other end.                   *)
PeerMoves(p) == \/ PeerStep(p) \/ PeerDrops(p) \/ ReceiveMalformed(p)
                \/ \E u \in Starters : AcceptTCP(p, u)
                \/ \E x \in Answerers : AnswerStep(p, x)

LEMMA TypePeer ==
  ASSUME TypeOK, NEW p \in Peers,
         PeerMoves(p)
  PROVE  TypeOK'
<1>0. PeerType /\ QueueType /\ CallType /\ SendType
  BY TypeParts
<1>1. CASE Announce(p)
  <2>1. QueueType'
    BY <1>0, <1>1 DEF QueueType, Announce, Enqueued
  <2>2. PeerType'
    BY <1>0, <1>1 DEF PeerType, Announce, At
  <2> QED
    BY <1>1, <2>1, <2>2, TypeParts, TypeSame DEF Announce
<1>2. CASE PeerSwaps(p) \/ PeerGone(p)
  <2>1. PeerType'
    BY <1>0, <1>2 DEF PeerType, PeerSwaps, PeerGone, At
  <2>2. CallsOf(p, swapped["reader"]) \subseteq Calls
    BY <1>0 DEF CallType, CallsOf
  <2>3. CallType' /\ UNCHANGED sendMu
    BY <1>0, <1>2, <2>2, FailPeerType DEF PeerSwaps, PeerGone, Takers
  <2> QED
    BY <1>2, <2>1, <2>3, TypeParts, TypeSame DEF PeerSwaps, PeerGone
<1>3. CASE Upgrade(p) \/ UpgradeFails(p) \/ RegisterPeer(p) \/ ReadFails(p) \/ UnregisterPeer(p)
           \/ PeerDrops(p) \/ ReceiveMalformed(p)
  <2>1. PeerType'
    BY <1>0, <1>3 DEF PeerType, Upgrade, UpgradeFails, RegisterPeer, ReadFails, UnregisterPeer, At,
       PeerDrops, ReceiveMalformed
  <2> QED
    BY <1>3, <2>1, TypeParts, TypeSame
       DEF Upgrade, UpgradeFails, RegisterPeer, ReadFails, UnregisterPeer, PeerDrops, ReceiveMalformed
<1>5. ASSUME NEW x \in Answerers, AnswerStep(p, x) PROVE TypeOK'
  <2>1. SendType' /\ PeerType'
    BY <1>0, <1>5 DEF SendType, PeerType, Answerers, AnswerStep, AnswerLocks, AnswerSent, AnswerFails,
       AnswerReturns, At, peerVars
  <2> QED
    BY <1>5, <2>1, TypeParts, TypeSame DEF AnswerStep, AnswerLocks, AnswerSent, AnswerFails, AnswerReturns
<1>4. ASSUME NEW u \in Starters, AcceptTCP(p, u) PROVE TypeOK'
  <2>1. PeerType'
    BY <1>0, <1>4 DEF PeerType, AcceptTCP, At
  <2> QED
    BY <1>4, <2>1, TypeParts, TypeSame DEF AcceptTCP
<1> QED
  BY <1>1, <1>2, <1>3, <1>4, <1>5 DEF PeerMoves, PeerStep, AnswerStep, Answerers

LEMMA TypeQueue ==
  ASSUME TypeOK, NEW w \in Waiters, TakeClient(w) \/ WaitExpires(w)
  PROVE  TypeOK'
<1>0. QueueType
  BY TypeParts
<1>1. QueueType'
  BY <1>0 DEF QueueType, TakeClient, WaitExpires
<1> QED
  BY <1>1, TypeParts, TypeSame DEF TakeClient, WaitExpires

LEMMA TypeClose ==
  ASSUME TypeOK, CallClose \/ CloseStep \/ ShutdownExpires
  PROVE  TypeOK'
<1>0. StartType /\ PeerType /\ CloseType /\ CallType
  BY TypeParts
<1>1. CASE CallClose \/ Shutdown
  <2>1. StartType' /\ CloseType'
    BY <1>0, <1>1 DEF StartType, CloseType, CallClose, Shutdown
  <2> QED
    BY <1>1, <2>1, TypeParts, TypeSame DEF CallClose, Shutdown
<1>2. CASE ShutdownEnds \/ ShutdownExpires \/ CloseReturns
  <2>1. CloseType'
    BY <1>0, <1>2 DEF CloseType, ShutdownEnds, ShutdownExpires, CloseReturns
  <2> QED
    BY <1>2, <2>1, TypeParts, TypeSame DEF ShutdownEnds, ShutdownExpires, CloseReturns
<1>3. CASE SwapPeers
  <2>1. PeerType' /\ CloseType'
    BY <1>0, <1>3 DEF PeerType, CloseType, SwapPeers
  <2> QED
    BY <1>3, <2>1, TypeParts, TypeSame DEF SwapPeers
<1>4. ASSUME NEW p \in Peers, DisconnectPeer(p) PROVE TypeOK'
  <2>1. PeerType' /\ CloseType'
    BY <1>0, <1>4 DEF PeerType, CloseType, DisconnectPeer
  <2> QED
    BY <1>0, <1>4, <2>1, FailPeerType, TypeParts, TypeSame DEF DisconnectPeer, Takers
<1>5. CASE FailDisconnected
  <2>1. CloseType' /\ swapped["close"] \subseteq Calls
    BY <1>0, <1>5 DEF CloseType, CallType, FailDisconnected
  <2>2. CallType' /\ UNCHANGED sendMu
    <3>1. CASE Peers = {}
      BY <1>0, <1>5, <2>1 DEF CallType, FailDisconnected, FailSwapped
    <3>2. CASE Peers # {}
      BY <1>0, <1>5, <2>1, <3>2, FailPeerType DEF FailDisconnected, Takers
    <3> QED
      BY <3>1, <3>2
  <2> QED
    BY <1>5, <2>1, <2>2, TypeParts, TypeSame DEF FailDisconnected
<1> QED
  BY <1>1, <1>2, <1>3, <1>4, <1>5 DEF CloseStep

CallMoves(k) ==
  \/ CallStep(k) \/ WritePeer(k) \/ HandlePeerResponse(k) \/ Expire(k)
  \/ \E p \in Peers : LookupPeer(k, p) \/ UnknownPeer(k, p)

LEMMA CallsOnly ==
  ASSUME NEW k \in Calls, CallMoves(k)
  PROVE  UNCHANGED <<startVars, peerVars, queueVars, closeVars>>
BY DEF CallMoves, CallStep, RegisterCall, LockPeer, WritePeerFails, TakeResponse, ContextEnds,
   PeerEnds, Unregister, Returns, WritePeer, HandlePeerResponse, Expire, LookupPeer, UnknownPeer,
   NotCallVars

LEMMA TypeCall ==
  ASSUME TypeOK, NEW k \in Calls, CallMoves(k)
  PROVE  TypeOK'
<1>0. /\ CallType /\ SendType /\ UNCHANGED <<startVars, peerVars, queueVars, closeVars>>
      /\ target[k] \in Peers \cup {None}
  BY TypeParts, CallsOnly DEF CallType
<1> SUFFICES CallType' /\ SendType'
  BY <1>0, TypeParts, TypeSame
<1>1. CASE RegisterCall(k)
  BY <1>0, <1>1 DEF CallType, SendType, RegisterCall, CallAt
<1>2. CASE LockPeer(k) \/ WritePeerFails(k) \/ WritePeer(k)
  BY <1>0, <1>2 DEF CallType, SendType, LockPeer, WritePeerFails, WritePeer, CallAt
<1>3. CASE Expire(k)
  BY <1>0, <1>3 DEF CallType, SendType, Expire
<1>8. CASE Unregister(k)
  <2>1. target' \in [Calls -> Peers \cup {None}] /\ swapped' \in [{"reader", "close"} -> SUBSET Calls]
    BY <1>0, <1>8 DEF CallType, Unregister
  <2>2. call' \in [Calls -> {"idle", "register", "lock", "write", "wait", "leave", "done"}]
    BY <1>0, <1>8 DEF CallType, Unregister, CallAt
  <2> QED
    BY <1>0, <1>8, <2>1, <2>2 DEF CallType, SendType, Unregister
<1>4. CASE TakeResponse(k)
  BY <1>0, <1>4 DEF CallType, SendType, TakeResponse, Returns, CallAt
<1>5. CASE ContextEnds(k) \/ PeerEnds(k)
  BY <1>0, <1>5 DEF CallType, SendType, ContextEnds, PeerEnds, Returns, CallAt
<1>6. CASE HandlePeerResponse(k)
  BY <1>0, <1>6 DEF CallType, SendType, HandlePeerResponse
<1>7. ASSUME NEW p \in Peers, LookupPeer(k, p) \/ UnknownPeer(k, p) PROVE CallType' /\ SendType'
  BY <1>0, <1>7 DEF CallType, SendType, LookupPeer, UnknownPeer, CallAt
<1> QED
  BY <1>1, <1>2, <1>3, <1>4, <1>5, <1>6, <1>7, <1>8 DEF CallMoves, CallStep

LEMMA TypeNext ==
  ASSUME TypeOK, [Next]_vars
  PROVE  TypeOK'
<1>1. CASE UNCHANGED vars
  BY <1>1, TypeParts, TypeSame DEF vars
<1> QED
  BY <1>1, TypeStart, TypePeer, TypeQueue, TypeClose, TypeCall DEF Next, Over, CallMoves, PeerMoves

-----------------------------------------------------------------------------
(* The map of peers and the listeners.                                      *)

LEMMA PeersKept ==
  ASSUME TypeOK, PeersAreServed, [Next]_vars
  PROVE  PeersAreServed'
<1>0. PeerType /\ TypeOK
  BY TypeParts
<1>1. ASSUME NEW u \in Starters, StartStep(u) PROVE PeersAreServed'
  BY <1>1 DEF PeersAreServed, Connected, StartStep, StartChecks, Listen, ListenFails, InstallServer,
     peerVars, closeVars
<1>2. ASSUME NEW p \in Peers, PeerMoves(p)
      PROVE  PeersAreServed'
  BY <1>0, <1>2 DEF PeerType, PeersAreServed, Connected, PeerMoves, PeerStep, PeerDrops, ReceiveMalformed, AcceptTCP,
     AnswerStep, AnswerLocks, AnswerSent, AnswerFails, AnswerReturns, At, Upgrade,
     UpgradeFails, RegisterPeer, Announce, ReadFails, UnregisterPeer, PeerSwaps, PeerGone, peerVars, closeVars
<1>3. ASSUME CallClose \/ CloseStep \/ ShutdownExpires PROVE PeersAreServed'
  BY <1>0, <1>3 DEF PeerType, PeersAreServed, Connected, CallClose, CloseStep, ShutdownExpires,
     Shutdown, ShutdownEnds, SwapPeers, DisconnectPeer, FailDisconnected, CloseReturns, peerVars
<1>4. ASSUME NEW w \in Waiters, TakeClient(w) \/ WaitExpires(w) PROVE PeersAreServed'
  BY <1>4 DEF PeersAreServed, Connected, TakeClient, WaitExpires, peerVars, closeVars
<1>5. ASSUME NEW k \in Calls, CallMoves(k) PROVE PeersAreServed'
  BY <1>5, CallsOnly DEF PeersAreServed, Connected, peerVars, closeVars
<1>6. CASE UNCHANGED vars
  BY <1>6 DEF PeersAreServed, Connected, vars, peerVars, closeVars
<1> QED
  BY <1>1, <1>2, <1>3, <1>4, <1>5, <1>6 DEF Next, Over, CallMoves, PeerMoves

LEMMA ListenersKept ==
  ASSUME TypeOK, NoListenerLeft, [Next]_vars
  PROVE  NoListenerLeft'
<1>0. StartType /\ CloseType
  BY TypeParts
<1>1. ASSUME NEW u \in Starters, StartStep(u) PROVE NoListenerLeft'
  BY <1>0, <1>1 DEF StartType, NoListenerLeft, StartStep, StartRefused, StartChecks, Listen,
     ListenFails, InstallServer, closeVars
<1>2. ASSUME NEW p \in Peers, PeerMoves(p)
      PROVE  NoListenerLeft'
  BY <1>2 DEF NoListenerLeft, PeerMoves, PeerStep, PeerDrops, ReceiveMalformed, AcceptTCP,
     AnswerStep, AnswerLocks, AnswerSent, AnswerFails, AnswerReturns, Upgrade,
     UpgradeFails, RegisterPeer, Announce, ReadFails, UnregisterPeer, PeerSwaps, PeerGone, startVars, closeVars
<1>3. ASSUME CallClose \/ CloseStep \/ ShutdownExpires PROVE NoListenerLeft'
  BY <1>0, <1>3 DEF StartType, CloseType, NoListenerLeft, CallClose, CloseStep, ShutdownExpires,
     Shutdown, ShutdownEnds, SwapPeers, DisconnectPeer, FailDisconnected, CloseReturns, startVars
<1>4. ASSUME NEW w \in Waiters, TakeClient(w) \/ WaitExpires(w) PROVE NoListenerLeft'
  BY <1>4 DEF NoListenerLeft, TakeClient, WaitExpires, startVars, closeVars
<1>5. ASSUME NEW k \in Calls, CallMoves(k) PROVE NoListenerLeft'
  BY <1>5, CallsOnly DEF NoListenerLeft, startVars, closeVars
<1>6. CASE UNCHANGED vars
  BY <1>6 DEF NoListenerLeft, vars, startVars, closeVars
<1> QED
  BY <1>1, <1>2, <1>3, <1>4, <1>5, <1>6 DEF Next, Over, CallMoves, PeerMoves

-----------------------------------------------------------------------------
(* The calls and their peers.                                               *)

(* Where a connection's goroutine goes: it serves and answers until its Read   *)
(* fails, which cancels its context.                                         *)
Early == {"away", "active", "upgraded", "refused"}
LEMMA PeerShape ==
  ASSUME TypeOK, NEW p \in Peers, PeerMoves(p)
  PROVE  /\ \A q \in Peers \ {p} : hs'[q] = hs[q] /\ ctxDone'[q] = ctxDone[q]
         /\ ctxDone[p] => ctxDone'[p]
         /\ \/ hs'[p] = hs[p]
            \/ hs[p] \in Early /\ hs'[p] \in Early \cup {"announce"}
            \/ hs[p] \in {"announce", "serve", "answer"} /\ hs'[p] \in {"serve", "answer"}
            \/ hs[p] = "serve" /\ hs'[p] = "leave" /\ ctxDone'[p]
            \/ hs[p] \in Leaving /\ hs'[p] \in Leaving \cup {"gone"}
<1> USE DEF Early, Leaving
<1>0. PeerType
  BY TypeParts
<1>1. CASE PeerDrops(p) \/ \E u \in Starters : AcceptTCP(p, u)
  BY <1>0, <1>1 DEF PeerType, PeerDrops, AcceptTCP, At
<1>2. CASE Upgrade(p) \/ UpgradeFails(p) \/ RegisterPeer(p)
  BY <1>0, <1>2 DEF PeerType, Upgrade, UpgradeFails, RegisterPeer, At
<1>3. CASE Announce(p) \/ ReceiveMalformed(p) \/ ReadFails(p)
  BY <1>0, <1>3 DEF PeerType, Announce, ReceiveMalformed, ReadFails, At
<1>4. CASE UnregisterPeer(p) \/ PeerSwaps(p) \/ PeerGone(p)
  BY <1>0, <1>4 DEF PeerType, UnregisterPeer, PeerSwaps, PeerGone, At
<1>5. CASE \E x \in Answerers : AnswerStep(p, x)
  BY <1>0, <1>5 DEF PeerType, AnswerStep, AnswerLocks, AnswerSent, AnswerFails, AnswerReturns, At, peerVars
<1> QED
  BY <1>1, <1>2, <1>3, <1>4, <1>5 DEF PeerMoves, PeerStep, AnswerStep, Answerers

LEMMA CancelKept ==
  ASSUME TypeOK, LeavesCancelled, [Next]_vars
  PROVE  LeavesCancelled' /\ \A q \in Peers : ctxDone[q] => ctxDone'[q]
<1> SUFFICES ASSUME NEW q \in Peers
             PROVE  (hs'[q] \in Leaving \cup {"gone"} => ctxDone'[q]) /\ (ctxDone[q] => ctxDone'[q])
  BY DEF LeavesCancelled
<1>0. PeerType
  BY TypeParts
<1>1. CASE UNCHANGED <<hs, ctxDone>>
  BY <1>1 DEF LeavesCancelled, Leaving
<1>2. CASE \E p \in Peers : PeerMoves(p)
  BY <1>0, <1>2, PeerShape DEF LeavesCancelled, Leaving, Early
<1>3. CASE CallClose \/ CloseStep \/ ShutdownExpires
  BY <1>0, <1>3 DEF PeerType, LeavesCancelled, Leaving, CallClose, CloseStep, ShutdownExpires, Shutdown,
     ShutdownEnds, SwapPeers, DisconnectPeer, FailDisconnected, CloseReturns, peerVars
<1>4. CASE \E k \in Calls : CallMoves(k)
  BY <1>1, <1>4, CallsOnly DEF peerVars
<1>5. CASE \/ \E u \in Starters : StartStep(u)
           \/ \E w \in Waiters : TakeClient(w) \/ WaitExpires(w)
           \/ UNCHANGED vars
  BY <1>1, <1>5 DEF StartStep, StartChecks, Listen, ListenFails, InstallServer, TakeClient,
     WaitExpires, vars, peerVars
<1> QED
  BY <1>2, <1>3, <1>4, <1>5 DEF Next, Over, CallMoves, PeerMoves

(* What a call relies on of its peer.                                        *)
PeerFits(q) == /\ hs[q] \in Served
               /\ hs[q] \in Leaving \cup {"gone"} => ctxDone[q]

LEMMA PeerFitsKept ==
  ASSUME TypeOK, LeavesCancelled, [Next]_vars, NEW q \in Peers, PeerFits(q)
  PROVE  PeerFits(q)'
<1>0. PeerType
  BY TypeParts
<1>1. CASE UNCHANGED <<hs, ctxDone>>
  BY <1>1 DEF PeerFits, Served, Leaving
<1>2. CASE \E p \in Peers : PeerMoves(p)
  BY <1>0, <1>2, PeerShape DEF PeerFits, Served, Leaving, Early
<1>3. CASE CallClose \/ CloseStep \/ ShutdownExpires
  BY <1>0, <1>3 DEF PeerType, PeerFits, Served, Leaving, LeavesCancelled, CallClose, CloseStep, ShutdownExpires, Shutdown,
     ShutdownEnds, SwapPeers, DisconnectPeer, FailDisconnected, CloseReturns, peerVars
<1>4. CASE \E k \in Calls : CallMoves(k)
  BY <1>1, <1>4, CallsOnly DEF peerVars
<1>5. CASE \/ \E u \in Starters : StartStep(u)
           \/ \E w \in Waiters : TakeClient(w) \/ WaitExpires(w)
           \/ UNCHANGED vars
  BY <1>1, <1>5 DEF StartStep, StartChecks, Listen, ListenFails, InstallServer, TakeClient,
     WaitExpires, vars, peerVars
<1> QED
  BY <1>2, <1>3, <1>4, <1>5 DEF Next, Over, CallMoves, PeerMoves

(* The calls of a peer are taken out of the map, and failed, once it is        *)
(* cancelled.                                                                *)
LEMMA FailingFits ==
  ASSUME TypeOK, CallsFit, NEW f \in Takers, NEW k \in Calls,
         \A q \in Peers : ctxDone[q] => ctxDone'[q],
         \/ \E p \in Peers : SwapPeerPending(f, p) /\ ctxDone'[p]
         \/ \E ks \in SUBSET swapped[f] : FailSwapped(f, ks)
  PROVE  PendingFits(k)' /\ UNCHANGED <<call, target>>
<1> USE DEF Takers
<1>0. CallType /\ TargetFits(k) /\ PendingFits(k)
  BY TypeParts DEF CallsFit
<1>1. ASSUME NEW p \in Peers, SwapPeerPending(f, p), ctxDone'[p]
      PROVE  PendingFits(k)' /\ UNCHANGED <<call, target>>
  <2>1. /\ k \in pending' <=> k \in pending /\ target[k] # p
        /\ \A g \in Takers : k \in swapped'[g] => k \in swapped[g] \/ (k \in pending /\ target[k] = p)
        /\ UNCHANGED <<call, target, outcome, ch>>
    BY <1>0, <1>1 DEF SwapPeerPending, CallsOf, CallType
  <2> QED
    BY <1>0, <1>1, <2>1 DEF PendingFits, TargetFits, CallType
<1>2. ASSUME NEW ks \in SUBSET swapped[f], FailSwapped(f, ks)
      PROVE  PendingFits(k)' /\ UNCHANGED <<call, target>>
  <2>1. /\ ch'[k] = IF k \in ks /\ ch[k] = None THEN "unavailable" ELSE ch[k]
        /\ \A g \in Takers : k \in swapped'[g] => k \in swapped[g]
        /\ k \in ks => k \in swapped[f] /\ call[k] # "idle"
        /\ UNCHANGED <<call, target, outcome, pending>>
    BY <1>0, <1>2 DEF FailSwapped, CallType, PendingFits
  <2> QED
    BY <1>0, <2>1 DEF PendingFits, TargetFits, CallType
<1> QED
  BY <1>1, <1>2

(* A step of a call moves that call, and may deliver its response.           *)
LEMMA OtherCalls ==
  ASSUME TypeOK, NEW k \in Calls, NEW j \in Calls, CallMoves(j), k # j
  PROVE  /\ call'[k] = call[k] /\ target'[k] = target[k] /\ ch'[k] = ch[k]
         /\ outcome'[k] = outcome[k] /\ (k \in pending' <=> k \in pending)
         /\ \A f \in Takers : k \in swapped'[f] <=> k \in swapped[f]
<1> USE DEF Takers
<1>0. CallType
  BY TypeParts
<1>1. CASE RegisterCall(j) \/ LockPeer(j) \/ WritePeerFails(j) \/ WritePeer(j)
           \/ Expire(j) \/ HandlePeerResponse(j)
  BY <1>0, <1>1 DEF CallType, RegisterCall, LockPeer, WritePeerFails, WritePeer, Expire,
     HandlePeerResponse, CallAt
<1>2. CASE TakeResponse(j) \/ ContextEnds(j) \/ PeerEnds(j) \/ Unregister(j)
  BY <1>0, <1>2 DEF CallType, TakeResponse, ContextEnds, PeerEnds, Unregister, Returns, CallAt
<1>3. CASE \E p \in Peers : LookupPeer(j, p) \/ UnknownPeer(j, p)
  BY <1>0, <1>3 DEF CallType, LookupPeer, UnknownPeer, CallAt
<1> QED
  BY <1>1, <1>2, <1>3 DEF CallMoves, CallStep

LEMMA CallFits ==
  ASSUME TypeOK, PeersAreServed, LeavesCancelled, CallsFit, NEW k \in Calls, CallMoves(k)
  PROVE  TargetFits(k)' /\ PendingFits(k)'
<1>0. CallType /\ TargetFits(k) /\ PendingFits(k) /\ UNCHANGED <<hs, ctxDone>>
  BY TypeParts, CallsOnly DEF CallsFit, peerVars
<1>1. CASE RegisterCall(k)
  BY <1>0, <1>1 DEF CallType, RegisterCall, CallAt, TargetFits, PendingFits
<1>2. CASE LockPeer(k) \/ WritePeerFails(k) \/ WritePeer(k)
  BY <1>0, <1>2 DEF CallType, LockPeer, WritePeerFails, WritePeer, CallAt, TargetFits, PendingFits
<1>3. CASE Expire(k) \/ HandlePeerResponse(k)
  BY <1>0, <1>3 DEF CallType, Expire, HandlePeerResponse, CallAt, TargetFits, PendingFits
<1>8. CASE Unregister(k)
  BY <1>0, <1>8 DEF CallType, Unregister, CallAt, TargetFits, PendingFits
<1>4. CASE TakeResponse(k)
  BY <1>0, <1>4 DEF CallType, TakeResponse, Returns, CallAt, TargetFits, PendingFits
<1>5. CASE ContextEnds(k) \/ PeerEnds(k)
  BY <1>0, <1>5 DEF CallType, ContextEnds, PeerEnds, Returns, CallAt, TargetFits, PendingFits
<1>6. ASSUME NEW p \in Peers, LookupPeer(k, p) PROVE TargetFits(k)' /\ PendingFits(k)'
  <2>1. hs[p] \in Served \ {"gone"} /\ (hs[p] \in Leaving \cup {"gone"} => ctxDone[p])
    BY <1>6 DEF LookupPeer, PeersAreServed, LeavesCancelled, Served, Leaving
  <2>2. k \notin pending /\ \A f \in {"reader", "close"} : k \notin swapped[f]
    BY <1>0, <1>6 DEF LookupPeer, CallAt, PendingFits, CallType
  <2> QED
    BY <1>0, <1>6, <2>1, <2>2 DEF CallType, LookupPeer, CallAt, TargetFits, PendingFits, Served, Leaving
<1>7. ASSUME NEW p \in Peers, UnknownPeer(k, p) PROVE TargetFits(k)' /\ PendingFits(k)'
  BY <1>0, <1>7 DEF CallType, UnknownPeer, CallAt, TargetFits, PendingFits
<1> QED
  BY <1>1, <1>2, <1>3, <1>4, <1>5, <1>6, <1>7, <1>8 DEF CallMoves, CallStep

LEMMA CallsKept ==
  ASSUME TypeOK, PeersAreServed, LeavesCancelled, CallsFit, [Next]_vars
  PROVE  CallsFit'
<1> SUFFICES ASSUME NEW k \in Calls PROVE TargetFits(k)' /\ PendingFits(k)'
  BY DEF CallsFit
<1>0. TargetFits(k) /\ PendingFits(k) /\ CallType
  BY TypeParts DEF CallsFit
<1>1. /\ \A q \in Peers : ctxDone[q] => ctxDone'[q]
      /\ \A q \in Peers : PeerFits(q) => PeerFits(q)'
  BY CancelKept, PeerFitsKept
<1>2. ASSUME UNCHANGED <<call, target>> PROVE TargetFits(k)'
  BY <1>0, <1>1, <1>2 DEF TargetFits, PeerFits
<1>3. ASSUME UNCHANGED callVars PROVE TargetFits(k)' /\ PendingFits(k)'
  BY <1>0, <1>1, <1>2, <1>3 DEF callVars, PendingFits, TargetFits
<1>4. ASSUME NEW j \in Calls, CallMoves(j) PROVE TargetFits(k)' /\ PendingFits(k)'
  <2>1. CASE j = k
    BY <1>4, <2>1, CallFits
  <2>2. CASE j # k
    <3>1. UNCHANGED <<hs, ctxDone>>
      BY <1>4, CallsOnly DEF peerVars
    <3> QED
      BY <1>0, <1>4, <2>2, <3>1, OtherCalls DEF TargetFits, PendingFits, Takers, Served, Leaving
  <2> QED
    BY <2>1, <2>2
<1>5. ASSUME \/ \E p \in Peers : PeerSwaps(p) \/ PeerGone(p) \/ DisconnectPeer(p)
             \/ FailDisconnected
      PROVE  TargetFits(k)' /\ PendingFits(k)'
  <2>1. ASSUME NEW p \in Peers, PeerSwaps(p) \/ DisconnectPeer(p)
        PROVE  \E f \in Takers : SwapPeerPending(f, p) /\ ctxDone'[p]
    <3>1. PeerType
      BY TypeParts
    <3> QED
      BY <2>1, <3>1 DEF PeerSwaps, DisconnectPeer, At, LeavesCancelled, Leaving, PeerType, Takers
  <2>2. ASSUME FailDisconnected \/ \E p \in Peers : PeerGone(p)
        PROVE  \E f \in Takers : \E ks \in SUBSET swapped[f] : FailSwapped(f, ks)
    BY <2>2 DEF FailDisconnected, PeerGone, CallsOf, Takers
  <2> QED
    BY <1>1, <1>2, <1>5, <2>1, <2>2, FailingFits
<1>6. ASSUME NEW p \in Peers, PeerMoves(p)
      PROVE  TargetFits(k)' /\ PendingFits(k)'
  BY <1>3, <1>5, <1>6 DEF PeerMoves, PeerStep, PeerDrops, ReceiveMalformed, AcceptTCP, AnswerStep, AnswerLocks,
     AnswerSent, AnswerFails, AnswerReturns, Upgrade, UpgradeFails, RegisterPeer, Announce, ReadFails,
     UnregisterPeer
<1>7. ASSUME CallClose \/ CloseStep \/ ShutdownExpires PROVE TargetFits(k)' /\ PendingFits(k)'
  BY <1>3, <1>5, <1>7 DEF CallClose, CloseStep, ShutdownExpires, Shutdown, ShutdownEnds, SwapPeers,
     CloseReturns
<1>8. CASE \/ \E u \in Starters : StartStep(u)
           \/ \E w \in Waiters : TakeClient(w) \/ WaitExpires(w)
           \/ UNCHANGED vars
  BY <1>3, <1>8 DEF StartStep, StartChecks, Listen, ListenFails, InstallServer, TakeClient,
     WaitExpires, vars
<1> QED
  BY <1>4, <1>6, <1>7, <1>8 DEF Next, Over, CallMoves, PeerMoves

LEMMA SendKept ==
  ASSUME TypeOK, CallsFit, SendFits, [Next]_vars
  PROVE  SendFits'
<1>0. CallType /\ SendType /\ PeerType /\ \A k \in Calls : TargetFits(k)
  BY TypeParts DEF CallsFit
<1>1. ASSUME UNCHANGED <<call, target, sendMu>>,
             \A p \in Peers : hs[p] = "answer" /\ sendMu[p] = "reader" => hs'[p] = "answer"
      PROVE  SendFits'
  BY <1>1 DEF SendFits
<1>2. ASSUME NEW p \in Peers, NEW x \in Answerers, AnswerStep(p, x) PROVE SendFits'
  <2>1. /\ UNCHANGED <<call, target>> /\ sendMu' = [sendMu EXCEPT ![p] = sendMu'[p]]
        /\ \A q \in Peers \ {p} : hs'[q] = hs[q] /\ sendMu'[q] = sendMu[q]
    BY <1>0, <1>2 DEF AnswerStep, AnswerLocks, AnswerSent, AnswerFails, AnswerReturns, At, PeerType, SendType,
       callVars, peerVars
  <2>2. sendMu[p] \notin Calls /\ sendMu'[p] \notin Calls
    BY <1>0, <1>2 DEF AnswerStep, AnswerLocks, AnswerSent, AnswerFails, AnswerReturns, SendType
  <2>3. /\ sendMu'[p] = "reader" => hs'[p] = "answer"
        /\ sendMu'[p] = "handler" => p \in Talkers
    BY <1>0, <1>2 DEF AnswerStep, AnswerLocks, AnswerSent, AnswerFails, AnswerReturns, MayAnswer, Answerers,
       SendType, peerVars
  <2>4. ASSUME NEW k \in Calls, call'[k] = "write" PROVE sendMu'[target'[k]] = k
    BY <1>0, <2>1, <2>2, <2>4 DEF SendFits, TargetFits
  <2> QED
    BY <2>1, <2>2, <2>3, <2>4 DEF SendFits
<1>3. ASSUME NEW p \in Peers, PeerMoves(p), \A x \in Answerers : ~AnswerStep(p, x) PROVE SendFits'
  <2>1. ~AnswerLocks(p, "reader") /\ ~AnswerFails(p, "reader")
    BY <1>3 DEF AnswerStep, Answerers
  <2>2. UNCHANGED <<call, target, sendMu>> /\ (\A q \in Peers : hs[q] = "answer" => hs'[q] = "answer")
    BY <1>0, <1>3, <2>1 DEF PeerMoves, PeerStep, PeerDrops, ReceiveMalformed, AcceptTCP, Upgrade, UpgradeFails,
       RegisterPeer, Announce, ReadFails, UnregisterPeer, PeerSwaps, PeerGone, SwapPeerPending, FailSwapped,
       At, PeerType, callVars
  <2> QED
    BY <1>1, <2>2
<1>4. ASSUME CallClose \/ CloseStep \/ ShutdownExpires PROVE SendFits'
  BY <1>1, <1>4 DEF CallClose, CloseStep, ShutdownExpires, Shutdown, ShutdownEnds, SwapPeers, DisconnectPeer,
     FailDisconnected, SwapPeerPending, FailSwapped, CloseReturns, callVars, peerVars
<1>5. ASSUME NEW j \in Calls, CallMoves(j) PROVE SendFits'
  <2>1. UNCHANGED hs /\ \A k \in Calls \ {j} : call'[k] = call[k] /\ target'[k] = target[k]
    BY <1>5, CallsOnly, OtherCalls DEF peerVars
  <2>2. CASE LockPeer(j)
    <3>1. target[j] \in Peers /\ sendMu[target[j]] = None
      BY <1>0, <2>2 DEF LockPeer, CallAt, TargetFits
    <3>2. /\ sendMu' = [sendMu EXCEPT ![target[j]] = j] /\ call'[j] = "write" /\ target' = target
          /\ None \notin Calls
      BY <1>0, <2>2 DEF LockPeer, CallAt, CallType
    <3> QED
      BY <1>0, <2>1, <3>1, <3>2 DEF SendFits, SendType, Answerers, TargetFits
  <2>3. CASE WritePeer(j) \/ WritePeerFails(j)
    <3>1. target[j] \in Peers /\ sendMu[target[j]] = j
      BY <1>0, <2>3 DEF WritePeer, WritePeerFails, CallAt, TargetFits, SendFits
    <3>2. /\ sendMu' = [sendMu EXCEPT ![target[j]] = None] /\ call'[j] # "write" /\ target' = target
          /\ None \notin Calls
      BY <1>0, <2>3 DEF WritePeer, WritePeerFails, CallAt, CallType
    <3> QED
      BY <1>0, <2>1, <3>1, <3>2 DEF SendFits, SendType, Answerers, TargetFits
  <2>4. CASE ~LockPeer(j) /\ ~WritePeer(j) /\ ~WritePeerFails(j)
    <3>1. (sendMu' = sendMu /\ call'[j] # "write") \/ UNCHANGED <<call, target, sendMu>>
      BY <1>0, <1>5, <2>4 DEF CallMoves, CallStep, RegisterCall, TakeResponse, ContextEnds, PeerEnds, Returns,
         Unregister, HandlePeerResponse, Expire, LookupPeer, UnknownPeer, CallAt, CallType
    <3>2. CASE UNCHANGED <<call, target, sendMu>>
      BY <1>1, <2>1, <3>2
    <3>3. CASE sendMu' = sendMu /\ call'[j] # "write" /\ call[j] # "write"
      BY <1>0, <2>1, <3>3 DEF SendFits
    <3>4. call[j] = "write" => UNCHANGED <<call, target, sendMu>>
      BY <1>0, <1>5, <2>4 DEF CallMoves, CallStep, RegisterCall, TakeResponse, ContextEnds, PeerEnds, Returns,
         Unregister, HandlePeerResponse, Expire, LookupPeer, UnknownPeer, CallAt, CallType
    <3> QED
      BY <3>1, <3>2, <3>3, <3>4
  <2> QED
    BY <2>2, <2>3, <2>4
<1>6. CASE \/ \E u \in Starters : StartStep(u)
           \/ \E w \in Waiters : TakeClient(w) \/ WaitExpires(w)
           \/ UNCHANGED vars
  BY <1>1, <1>6 DEF StartStep, StartChecks, Listen, ListenFails, InstallServer, TakeClient,
     WaitExpires, vars, callVars, peerVars
<1> QED
  BY <1>2, <1>3, <1>4, <1>5, <1>6 DEF Next, Over, CallMoves, PeerMoves

-----------------------------------------------------------------------------
(* The theorems.                                                            *)

(* The invariant holds of every state of a server: initially, and after every *)
(* step of a Start, a connection, a WaitForClient, Close or an Invoke.        *)
THEOREM ServerCorrect == Spec => []ServerInv
<1>1. Init => ServerInv
  <2> SUFFICES ASSUME Init PROVE ServerInv
    OBVIOUS
  <2>1. TypeOK
    BY TypeInit
  <2>2. PeersAreServed /\ NoListenerLeft /\ LeavesCancelled
    BY DEF Init, PeersAreServed, Connected, NoListenerLeft, LeavesCancelled, Leaving
  <2>3. SendFits
    BY DEF Init, SendFits, Answerers
  <2>4. CallsFit
    BY DEF Init, CallsFit, TargetFits, PendingFits
  <2> QED
    BY <2>1, <2>2, <2>3, <2>4 DEF ServerInv
<1>2. ServerInv /\ [Next]_vars => ServerInv'
  BY TypeNext, PeersKept, ListenersKept, CancelKept, CallsKept, SendKept DEF ServerInv
<1> QED
  BY <1>1, <1>2, PTL DEF Spec

(* No goroutine of the server reaches a state that is not one of its code.    *)
THEOREM ServerTypeCorrect == Spec => []TypeOK
<1>1. ServerInv => TypeOK
  BY DEF ServerInv
<1> QED
  BY <1>1, ServerCorrect, PTL

(* The map of peers holds the connections being served and no others, until   *)
(* Close takes it (server.go:251, 487 and 505).                               *)
THEOREM PeersCorrect == Spec => []PeersAreServed
<1>1. ServerInv => PeersAreServed
  BY DEF ServerInv
<1> QED
  BY <1>1, ServerCorrect, PTL

(* No interleaving of Starts and Close leaves a listener open that nobody      *)
(* will close (server.go:161 to 205 and 220).                                 *)
THEOREM ListenersCorrect == Spec => []NoListenerLeft
<1>1. ServerInv => NoListenerLeft
  BY DEF ServerInv
<1> QED
  BY <1>1, ServerCorrect, PTL

(* An Invoke that waits is still known to the goroutine of its peer, which     *)
(* will fail it, or is answered or cancelled already (server.go:337).          *)
THEOREM NoStrandedInvokeCorrect == Spec => []NoStrandedInvoke
<1>1. ServerInv => NoStrandedInvoke
  <2> SUFFICES ASSUME ServerInv, NEW k \in Calls, call[k] = "wait", ch[k] = None, ~ctxDone[target[k]]
               PROVE  k \in pending /\ target[k] \in Connected
    BY DEF NoStrandedInvoke
  <2>1. TargetFits(k) /\ PendingFits(k)
    BY DEF ServerInv, CallsFit
  <2> QED
    BY <2>1 DEF TargetFits, PendingFits, Served, Leaving, Connected
<1> QED
  BY <1>1, ServerCorrect, PTL

(* An Invoke fails as unavailable only when the connection of its own peer is  *)
(* cancelled (server.go:587, failPeerPending).                                *)
THEOREM InvokeFailsCorrect == Spec => []InvokeFailsWithItsPeer
<1>1. ServerInv => InvokeFailsWithItsPeer
  BY DEF ServerInv, CallsFit, PendingFits, InvokeFailsWithItsPeer
<1> QED
  BY <1>1, ServerCorrect, PTL

-----------------------------------------------------------------------------
(* Liveness.  The provers know neither ENABLED nor that fairness, once        *)
(* assumed, holds from every state on.  Turns says what Fairness does, with   *)
(* the guards of the steps in the place of ENABLED: a connection or a call     *)
(* that can run again and again takes its turns, and a handler that goes on    *)
(* being able to run takes its own.                                           *)
Told(p) == sock[p] = "closed" \/ ctxDone[p]

PeerReady(p) ==
  \/ hs[p] \in {"active", "upgraded", "announce"} \cup Leaving
  \/ hs[p] = "serve" /\ Told(p)
  \/ hs[p] = "answer" /\ sendMu[p] = None
  \/ hs[p] = "answer" /\ sendMu[p] = "reader" /\ Told(p)
CallReady(k) ==
  \/ call[k] \in {"register", "leave"}
  \/ call[k] = "lock" /\ sendMu[target[k]] = None
  \/ call[k] = "write" /\ Told(target[k])
  \/ call[k] = "wait" /\ (ch[k] # None \/ expired[k] \/ ctxDone[target[k]])
HandlerReady(p) == sendMu[p] = "handler" /\ Told(p)

PeerTurn(p)    == <>[]~PeerReady(p) \/ []<><<PeerStep(p)>>_vars
CallTurn(k)    == <>[]~CallReady(k) \/ []<><<CallStep(k)>>_vars
HandlerTurn(p) == []<>~HandlerReady(p) \/ []<><<AnswerFails(p, "handler")>>_vars
Turns == /\ \A p \in Peers : PeerTurn(p)
         /\ \A p \in Talkers : HandlerTurn(p)
         /\ \A k \in Calls : CallTurn(k)

(* A peer that has been served is lost for good.                             *)
Dead(p)  == sock[p] = "closed" /\ hs[p] \in Served
Runs     == [][Next]_vars /\ []ServerInv /\ []Turns
DeadRun(p) == Runs /\ []Dead(p)

LEMMA DeadStays ==
  ASSUME ServerInv, [Next]_vars, NEW p \in Peers, Dead(p)
  PROVE  Dead(p)' /\ (ctxDone[p] => ctxDone'[p])
<1>0. PeerType /\ TypeOK /\ LeavesCancelled
  BY TypeParts DEF ServerInv
<1>1. ctxDone[p] => ctxDone'[p]
  BY <1>0, CancelKept
<1>2. ASSUME UNCHANGED <<hs, sock>> PROVE Dead(p)'
  BY <1>2 DEF Dead
<1>3. ASSUME NEW q \in Peers, PeerMoves(q) PROVE Dead(p)'
  <2>1. hs'[p] \in Served
    BY <1>0, <1>3, PeerShape DEF Dead, Served, Leaving, Early
  <2>2. CASE ~\E u \in Starters : AcceptTCP(q, u)
    <3>1. sock'[p] = "closed"
      BY <1>0, <1>3, <2>2 DEF PeerType, Dead, PeerMoves, PeerStep, PeerDrops, ReceiveMalformed, AnswerStep,
         AnswerLocks, AnswerSent, AnswerFails, AnswerReturns, Upgrade, UpgradeFails, RegisterPeer, Announce,
         ReadFails, UnregisterPeer, PeerSwaps, PeerGone, peerVars
    <3> QED
      BY <2>1, <3>1 DEF Dead
  <2>3. ASSUME NEW u \in Starters, AcceptTCP(q, u) PROVE sock'[p] = "closed"
    BY <1>0, <2>3 DEF PeerType, Dead, AcceptTCP, At, Served, Leaving
  <2> QED
    BY <2>1, <2>2, <2>3 DEF Dead
<1>4. ASSUME NEW u \in Starters, StartStep(u) PROVE Dead(p)'
  BY <1>0, <1>4 DEF PeerType, Dead, Served, Leaving, StartStep, StartChecks, Listen, ListenFails,
     InstallServer, peerVars
<1>5. ASSUME CallClose \/ CloseStep \/ ShutdownExpires PROVE Dead(p)'
  BY <1>0, <1>5 DEF PeerType, Dead, CallClose, CloseStep, ShutdownExpires, Shutdown, ShutdownEnds, SwapPeers,
     DisconnectPeer, FailDisconnected, CloseReturns, peerVars
<1>6. ASSUME NEW j \in Calls, CallMoves(j) PROVE Dead(p)'
  BY <1>2, <1>6, CallsOnly DEF peerVars
<1>7. CASE UNCHANGED vars \/ \E w \in Waiters : TakeClient(w) \/ WaitExpires(w)
  BY <1>2, <1>7 DEF TakeClient, WaitExpires, vars, peerVars
<1> QED
  BY <1>1, <1>3, <1>4, <1>5, <1>6, <1>7 DEF Next, Over, CallMoves, PeerMoves

-----------------------------------------------------------------------------
(* sendMu is let go by whoever holds it for a dead peer.                      *)

(* What a step makes of sendMu: who holds it keeps it until it lets go.        *)
LEMMA MutexMoves ==
  ASSUME ServerInv, [Next]_vars, NEW p \in Peers, sendMu[p] # None
  PROVE  sendMu'[p] \in {sendMu[p], None}
<1>0. TypeOK /\ SendType /\ CallType /\ SendFits /\ \A k \in Calls : TargetFits(k)
  BY TypeParts DEF ServerInv, CallsFit
<1>1. ASSUME NEW q \in Peers, NEW x \in Answerers, AnswerStep(q, x)
      PROVE  sendMu'[p] \in {sendMu[p], None}
  BY <1>0, <1>1 DEF SendType, AnswerStep, AnswerLocks, AnswerSent, AnswerFails, AnswerReturns
<1>2. ASSUME NEW q \in Peers, PeerMoves(q), \A x \in Answerers : ~AnswerStep(q, x) PROVE sendMu' = sendMu
  <2>1. ~AnswerLocks(q, "reader") /\ ~AnswerFails(q, "reader")
    BY <1>2 DEF AnswerStep, Answerers
  <2> QED
    BY <1>2, <2>1 DEF PeerMoves, PeerStep, PeerDrops, ReceiveMalformed, AcceptTCP, Upgrade, UpgradeFails,
       RegisterPeer, Announce, ReadFails, UnregisterPeer, PeerSwaps, PeerGone, SwapPeerPending, FailSwapped
<1>3. ASSUME CallClose \/ CloseStep \/ ShutdownExpires PROVE sendMu' = sendMu
  BY <1>3 DEF CallClose, CloseStep, ShutdownExpires, Shutdown, ShutdownEnds, SwapPeers, DisconnectPeer,
     FailDisconnected, SwapPeerPending, FailSwapped, CloseReturns
<1>4. ASSUME NEW j \in Calls, CallMoves(j) PROVE sendMu'[p] \in {sendMu[p], None}
  BY <1>0, <1>4 DEF SendType, CallMoves, CallStep, RegisterCall, LockPeer, WritePeerFails, WritePeer,
     TakeResponse, ContextEnds, PeerEnds, Returns, Unregister, HandlePeerResponse, Expire, LookupPeer, UnknownPeer
<1>5. CASE \/ \E u \in Starters : StartStep(u)
           \/ \E w \in Waiters : TakeClient(w) \/ WaitExpires(w)
           \/ UNCHANGED vars
  BY <1>5 DEF StartStep, StartChecks, Listen, ListenFails, InstallServer, TakeClient, WaitExpires, vars
<1> QED
  BY <1>1, <1>2, <1>3, <1>4, <1>5 DEF Next, Over, CallMoves, PeerMoves

Frees(p) == <>(sendMu[p] = None)

LEMMA HolderFrees ==
  ASSUME NEW p \in Peers, NEW x \in Calls \cup Answerers
  PROVE  DeadRun(p) /\ sendMu[p] = x => Frees(p)
<1>1. ServerInv /\ sendMu[p] = x /\ [Next]_vars => (sendMu[p] = x)' \/ (sendMu[p] = None)'
  BY MutexMoves
<1>2. ASSUME x \in Calls PROVE DeadRun(p) /\ sendMu[p] = x => Frees(p)
  <2>1. ServerInv /\ Dead(p) /\ sendMu[p] = x => CallReady(x)
    BY <1>2 DEF ServerInv, SendFits, CallReady, Told, Dead
  <2>2. ServerInv /\ sendMu[p] = x /\ <<CallStep(x)>>_vars => (sendMu[p] = None)'
    <3> SUFFICES ASSUME ServerInv, sendMu[p] = x, CallStep(x) PROVE sendMu'[p] = None
      OBVIOUS
    <3>1. call[x] = "write" /\ target[x] = p /\ SendType
      BY <1>2, TypeParts DEF ServerInv, SendFits
    <3> QED
      BY <3>1 DEF SendType, CallStep, RegisterCall, LockPeer, WritePeerFails, TakeResponse, ContextEnds, PeerEnds,
         Returns, Unregister, CallAt
  <2>3. Turns => CallTurn(x)
    BY <1>2 DEF Turns
  <2> QED
    BY <1>1, <2>1, <2>2, <2>3, PTL DEF DeadRun, Runs, CallTurn, Frees
<1>3. ASSUME x = "reader" PROVE DeadRun(p) /\ sendMu[p] = x => Frees(p)
  <2>1. ServerInv /\ Dead(p) /\ sendMu[p] = x => PeerReady(p)
    BY <1>3 DEF ServerInv, SendFits, PeerReady, Told, Dead
  <2>2. ServerInv /\ sendMu[p] = x /\ <<PeerStep(p)>>_vars => (sendMu[p] = None)'
    <3> SUFFICES ASSUME ServerInv, sendMu[p] = x, PeerStep(p) PROVE sendMu'[p] = None
      OBVIOUS
    <3>1. hs[p] = "answer" /\ SendType /\ x # None
      BY <1>3, TypeParts DEF ServerInv, SendFits, Answerers
    <3> QED
      BY <3>1 DEF SendType, PeerStep, Upgrade, UpgradeFails, RegisterPeer, Announce, ReadFails, UnregisterPeer,
         PeerSwaps, PeerGone, At, AnswerLocks, AnswerFails, AnswerReturns
  <2>3. Turns => PeerTurn(p)
    BY DEF Turns
  <2> QED
    BY <1>1, <2>1, <2>2, <2>3, PTL DEF DeadRun, Runs, PeerTurn, Frees
<1>4. ASSUME x = "handler" PROVE DeadRun(p) /\ sendMu[p] = x => Frees(p)
  <2>1. ServerInv /\ Dead(p) /\ sendMu[p] = x => HandlerReady(p)
    BY <1>4 DEF HandlerReady, Told, Dead
  <2>2. ServerInv /\ sendMu[p] = x /\ <<AnswerFails(p, "handler")>>_vars => (sendMu[p] = None)'
    <3>1. ServerInv => SendType
      BY TypeParts DEF ServerInv
    <3> QED
      BY <3>1 DEF SendType, AnswerFails, AnswerReturns
  <2>3. CASE p \in Talkers
    <3>1. Turns => HandlerTurn(p)
      BY <2>3 DEF Turns
    <3> QED
      BY <1>1, <2>1, <2>2, <3>1, PTL DEF DeadRun, Runs, HandlerTurn, Frees
  <2>4. CASE p \notin Talkers
    <3>1. ServerInv => ~(sendMu[p] = x)
      BY <1>4, <2>4 DEF ServerInv, SendFits
    <3> QED
      BY <3>1, PTL DEF DeadRun, Runs
  <2> QED
    BY <2>3, <2>4
<1> QED
  BY <1>2, <1>3, <1>4 DEF Answerers

LEMMA SendFrees == ASSUME NEW p \in Peers PROVE DeadRun(p) => []Frees(p)
<1>1. DeadRun(p) => ServerInv
  BY PTL DEF DeadRun, Runs
<1>2. sendMu[p] = None => Frees(p)
  BY PTL DEF Frees
<1>3. ServerInv => sendMu[p] \in (Calls \cup Answerers) \cup {None}
  <2>1. ServerInv => SendType
    BY TypeParts DEF ServerInv
  <2> QED
    BY <2>1 DEF SendType
<1>4. DeadRun(p) => Frees(p)
  BY <1>1, <1>2, <1>3, HolderFrees
<1> QED
  BY <1>4, PTL DEF DeadRun, Runs, Frees

-----------------------------------------------------------------------------
(* The goroutine of a dead peer gets to its Read, which fails: then the peer's *)
(* context is cancelled.                                                     *)

LEMMA ReaderNext ==
  ASSUME ServerInv, [Next]_vars, NEW p \in Peers, Dead(p)
  PROVE  /\ hs[p] = "announce" => hs'[p] \in {"announce", "serve"}
         /\ hs[p] = "answer" => hs'[p] = "answer" \/ (hs'[p] = "serve" /\ sendMu[p] = "reader")
         /\ hs[p] = "serve" => hs'[p] = "serve" \/ ctxDone'[p]
<1>0. PeerType /\ TypeOK
  BY TypeParts DEF ServerInv
<1>1. CASE UNCHANGED hs
  BY <1>1
<1>2. ASSUME NEW q \in Peers, PeerMoves(q), q # p PROVE hs'[p] = hs[p]
  BY <1>0, <1>2, PeerShape
<1>3. CASE PeerMoves(p)
  <2>1. hs[p] = "announce" => hs'[p] \in {"announce", "serve"}
    BY <1>0, <1>3 DEF PeerType, PeerMoves, PeerStep, PeerDrops, ReceiveMalformed, AcceptTCP, AnswerStep,
       AnswerLocks, AnswerSent, AnswerFails, AnswerReturns, Upgrade, UpgradeFails, RegisterPeer, Announce,
       ReadFails, UnregisterPeer, PeerSwaps, PeerGone, At, peerVars
  <2>2. hs[p] = "answer" => hs'[p] = "answer" \/ (hs'[p] = "serve" /\ sendMu[p] = "reader")
    BY <1>0, <1>3 DEF PeerType, PeerMoves, PeerStep, PeerDrops, ReceiveMalformed, AcceptTCP, AnswerStep,
       AnswerLocks, AnswerSent, AnswerFails, AnswerReturns, Upgrade, UpgradeFails, RegisterPeer, Announce,
       ReadFails, UnregisterPeer, PeerSwaps, PeerGone, At, peerVars
  <2>3. hs[p] = "serve" => hs'[p] = "serve" \/ ctxDone'[p]
    BY <1>0, <1>3 DEF Dead, PeerType, PeerMoves, PeerStep, PeerDrops, ReceiveMalformed, AcceptTCP, AnswerStep,
       AnswerLocks, AnswerSent, AnswerFails, AnswerReturns, Upgrade, UpgradeFails, RegisterPeer, Announce,
       ReadFails, UnregisterPeer, PeerSwaps, PeerGone, At, peerVars
  <2> QED
    BY <2>1, <2>2, <2>3
<1>4. ASSUME CallClose \/ CloseStep \/ ShutdownExpires PROVE UNCHANGED hs
  BY <1>4 DEF CallClose, CloseStep, ShutdownExpires, Shutdown, ShutdownEnds, SwapPeers,
     DisconnectPeer, FailDisconnected, CloseReturns, peerVars
<1>5. ASSUME NEW j \in Calls, CallMoves(j) PROVE UNCHANGED hs
  BY <1>5, CallsOnly DEF peerVars
<1>6. CASE \/ \E u \in Starters : StartStep(u)
           \/ \E w \in Waiters : TakeClient(w) \/ WaitExpires(w)
           \/ UNCHANGED vars
  BY <1>1, <1>6 DEF StartStep, StartChecks, Listen, ListenFails, InstallServer, TakeClient, WaitExpires,
     vars, peerVars
<1> QED
  BY <1>1, <1>2, <1>3, <1>4, <1>5, <1>6 DEF Next, Over, CallMoves, PeerMoves

(* A reader that lets go of sendMu has written its answer.                    *)
LEMMA ReaderLets ==
  ASSUME ServerInv, [Next]_vars, NEW p \in Peers, sendMu[p] = "reader", sendMu'[p] # "reader"
  PROVE  hs'[p] = "serve"
<1>0. PeerType /\ SendType /\ CallType /\ SendFits /\ \A k \in Calls : TargetFits(k)
  BY TypeParts DEF ServerInv, CallsFit
<1>1. ASSUME NEW q \in Peers, NEW x \in Answerers, AnswerStep(q, x) PROVE hs'[p] = "serve"
  BY <1>0, <1>1 DEF PeerType, SendType, Answerers, AnswerStep, AnswerLocks, AnswerSent, AnswerFails,
     AnswerReturns, At
<1>2. ASSUME NEW q \in Peers, PeerMoves(q), \A x \in Answerers : ~AnswerStep(q, x) PROVE sendMu' = sendMu
  <2>1. ~AnswerLocks(q, "reader") /\ ~AnswerFails(q, "reader")
    BY <1>2 DEF AnswerStep, Answerers
  <2> QED
    BY <1>2, <2>1 DEF PeerMoves, PeerStep, PeerDrops, ReceiveMalformed, AcceptTCP, Upgrade, UpgradeFails,
       RegisterPeer, Announce, ReadFails, UnregisterPeer, PeerSwaps, PeerGone, SwapPeerPending, FailSwapped
<1>3. ASSUME CallClose \/ CloseStep \/ ShutdownExpires PROVE sendMu' = sendMu
  BY <1>3 DEF CallClose, CloseStep, ShutdownExpires, Shutdown, ShutdownEnds, SwapPeers, DisconnectPeer,
     FailDisconnected, SwapPeerPending, FailSwapped, CloseReturns
<1>4. ASSUME NEW j \in Calls, CallMoves(j) PROVE sendMu'[p] = "reader"
  <2>1. call[j] \in {"lock", "write"} => target[j] \in Peers
    BY <1>0 DEF TargetFits
  <2>2. call[j] = "write" => target[j] # p
    BY <1>0 DEF SendFits, Answerers
  <2>3. "reader" # None
    BY DEF Answerers
  <2> QED
    BY <1>0, <1>4, <2>1, <2>2, <2>3 DEF SendType, CallMoves, CallStep, RegisterCall, LockPeer, WritePeerFails,
       WritePeer, TakeResponse, ContextEnds, PeerEnds, Returns, Unregister, HandlePeerResponse, Expire,
       LookupPeer, UnknownPeer, CallAt
<1>5. CASE \/ \E u \in Starters : StartStep(u)
           \/ \E w \in Waiters : TakeClient(w) \/ WaitExpires(w)
           \/ UNCHANGED vars
  BY <1>5 DEF StartStep, StartChecks, Listen, ListenFails, InstallServer, TakeClient, WaitExpires, vars
<1> QED
  BY <1>1, <1>2, <1>3, <1>4, <1>5 DEF Next, Over, CallMoves, PeerMoves

LEMMA ReaderGoes ==
  ASSUME NEW p \in Peers
  PROVE  /\ DeadRun(p) /\ hs[p] = "announce" => <>(hs[p] = "serve")
         /\ DeadRun(p) /\ hs[p] = "answer" => <>(hs[p] = "serve")
         /\ DeadRun(p) /\ hs[p] = "serve" => <>ctxDone[p]
<1>1. Turns => PeerTurn(p)
  BY DEF Turns
<1>2. ServerInv /\ Dead(p) /\ <<PeerStep(p)>>_vars =>
        /\ hs[p] = "announce" => hs'[p] = "serve"
        /\ hs[p] = "answer" /\ ~(sendMu[p] = "reader") => sendMu'[p] = "reader" /\ hs'[p] = "answer"
        /\ hs[p] = "answer" /\ sendMu[p] = "reader" => hs'[p] = "serve"
        /\ hs[p] = "serve" => ctxDone'[p]
  <2> SUFFICES ASSUME ServerInv, Dead(p), PeerStep(p)
               PROVE  /\ hs[p] = "announce" => hs'[p] = "serve"
                      /\ hs[p] = "answer" /\ ~(sendMu[p] = "reader") => sendMu'[p] = "reader" /\ hs'[p] = "answer"
                      /\ hs[p] = "answer" /\ sendMu[p] = "reader" => hs'[p] = "serve"
                      /\ hs[p] = "serve" => ctxDone'[p]
    OBVIOUS
  <2>1. PeerType /\ SendType /\ None # "reader"
    BY TypeParts DEF ServerInv, Answerers
  <2>2. hs[p] = "announce" => hs'[p] = "serve"
    BY <2>1 DEF PeerType, PeerStep, Upgrade, UpgradeFails, RegisterPeer, Announce, ReadFails, UnregisterPeer,
       PeerSwaps, PeerGone, At, AnswerLocks, MayAnswer, AnswerFails, AnswerReturns
  <2>3. hs[p] = "serve" => ctxDone'[p]
    BY <2>1 DEF PeerType, PeerStep, Upgrade, UpgradeFails, RegisterPeer, Announce, ReadFails, UnregisterPeer,
       PeerSwaps, PeerGone, At, AnswerLocks, MayAnswer, AnswerFails, AnswerReturns
  <2>4. hs[p] = "answer" => AnswerLocks(p, "reader") \/ AnswerFails(p, "reader")
    BY DEF PeerStep, Upgrade, UpgradeFails, RegisterPeer, Announce, ReadFails, UnregisterPeer, PeerSwaps,
       PeerGone, At
  <2>5. AnswerLocks(p, "reader") => sendMu[p] = None /\ sendMu'[p] = "reader" /\ hs' = hs
    BY <2>1 DEF SendType, AnswerLocks, peerVars
  <2>6. AnswerFails(p, "reader") => sendMu[p] = "reader" /\ hs'[p] = "serve"
    BY <2>1 DEF PeerType, AnswerFails, AnswerReturns, At
  <2> QED
    BY <2>1, <2>2, <2>3, <2>4, <2>5, <2>6
<1>3. DeadRun(p) /\ hs[p] = "announce" => <>(hs[p] = "serve")
  <2>1. ServerInv /\ Dead(p) /\ hs[p] = "announce" /\ [Next]_vars => (hs[p] = "announce")' \/ (hs[p] = "serve")'
    BY ReaderNext
  <2>2. ServerInv /\ Dead(p) /\ hs[p] = "announce" /\ <<PeerStep(p)>>_vars => (hs[p] = "serve")'
    BY <1>2
  <2>3. hs[p] = "announce" => PeerReady(p)
    BY DEF PeerReady
  <2> QED
    BY <1>1, <2>1, <2>2, <2>3, PTL DEF DeadRun, Runs, PeerTurn
<1>4. DeadRun(p) /\ hs[p] = "answer" => <>(hs[p] = "serve")
  <2> DEFINE Waits == hs[p] = "answer" /\ ~(sendMu[p] = "reader")
             Holds == hs[p] = "answer" /\ sendMu[p] = "reader"
  <2>1. ServerInv /\ Dead(p) /\ Waits /\ [Next]_vars => Waits' \/ Holds'
    BY ReaderNext
  <2>2. ServerInv /\ Dead(p) /\ Waits /\ <<PeerStep(p)>>_vars => Holds'
    BY <1>2
  <2>3. Waits /\ sendMu[p] = None => PeerReady(p)
    BY DEF PeerReady
  <2>4. ServerInv /\ Dead(p) /\ Holds /\ [Next]_vars => Holds' \/ (hs[p] = "serve")'
    <3>2. ServerInv /\ Dead(p) /\ Holds /\ [Next]_vars =>
            (hs'[p] = "answer" \/ hs'[p] = "serve") /\ sendMu'[p] \in {"reader", None}
      <4>1. "reader" # None
        BY DEF Answerers
      <4> QED
        BY <4>1, ReaderNext, MutexMoves
    <3>3. ServerInv /\ Dead(p) /\ Holds /\ [Next]_vars /\ sendMu'[p] = None => hs'[p] = "serve"
      <4>1. "reader" # None
        BY DEF Answerers
      <4> QED
        BY <4>1, ReaderLets
    <3> QED
      BY <3>2, <3>3
  <2>5. ServerInv /\ Dead(p) /\ Holds /\ <<PeerStep(p)>>_vars => (hs[p] = "serve")'
    BY <1>2
  <2>6. Dead(p) /\ Holds => PeerReady(p)
    BY DEF PeerReady, Told, Dead
  <2>7. hs[p] = "answer" => Waits \/ Holds
    OBVIOUS
  <2> HIDE DEF Waits, Holds
  <2>8. DeadRun(p) => []Frees(p)
    BY SendFrees
  <2> QED
    BY <1>1, <2>1, <2>2, <2>3, <2>4, <2>5, <2>6, <2>7, <2>8, PTL DEF DeadRun, Runs, PeerTurn, Frees
<1>5. DeadRun(p) /\ hs[p] = "serve" => <>ctxDone[p]
  <2>1. ServerInv /\ Dead(p) /\ hs[p] = "serve" /\ [Next]_vars => (hs[p] = "serve")' \/ ctxDone[p]'
    BY ReaderNext
  <2>2. ServerInv /\ Dead(p) /\ hs[p] = "serve" /\ <<PeerStep(p)>>_vars => ctxDone[p]'
    BY <1>2
  <2>3. Dead(p) /\ hs[p] = "serve" => PeerReady(p)
    BY DEF PeerReady, Told, Dead
  <2> QED
    BY <1>1, <2>1, <2>2, <2>3, PTL DEF DeadRun, Runs, PeerTurn
<1> QED
  BY <1>3, <1>4, <1>5

LEMMA DeadIsCancelled == ASSUME NEW p \in Peers PROVE DeadRun(p) => <>[]ctxDone[p]
<1>1. ServerInv /\ Dead(p) => ctxDone[p] \/ hs[p] = "announce" \/ hs[p] = "answer" \/ hs[p] = "serve"
  BY DEF ServerInv, LeavesCancelled, Dead, Served
<1>2. /\ DeadRun(p) /\ hs[p] = "announce" => <>(hs[p] = "serve")
      /\ DeadRun(p) /\ hs[p] = "answer" => <>(hs[p] = "serve")
      /\ DeadRun(p) /\ hs[p] = "serve" => <>ctxDone[p]
  BY ReaderGoes
<1>3. ServerInv /\ Dead(p) /\ ctxDone[p] /\ [Next]_vars => ctxDone[p]'
  BY DeadStays
<1> QED
  BY <1>1, <1>2, <1>3, PTL DEF DeadRun, Runs

-----------------------------------------------------------------------------
(* The calls of a dead peer end.                                            *)
On(k, p, where) == call[k] = where /\ target[k] = p

LEMMA CallOnward ==
  ASSUME ServerInv, [Next]_vars, NEW k \in Calls, NEW p \in Peers
  PROVE  /\ On(k, p, "register") => On(k, p, "register")' \/ On(k, p, "lock")' \/ On(k, p, "leave")'
         /\ On(k, p, "lock") => On(k, p, "lock")' \/ On(k, p, "write")'
         /\ On(k, p, "write") => On(k, p, "write")' \/ On(k, p, "wait")' \/ On(k, p, "leave")'
         /\ On(k, p, "wait") => On(k, p, "wait")' \/ On(k, p, "leave")'
         /\ On(k, p, "leave") => On(k, p, "leave")' \/ call'[k] = "done"
<1>0. TypeOK /\ CallType
  BY TypeParts DEF ServerInv
<1>1. ASSUME UNCHANGED <<call, target>> PROVE \A where : On(k, p, where)' <=> On(k, p, where)
  BY <1>1 DEF On
<1>2. ASSUME NEW j \in Calls, CallMoves(j), j # k PROVE \A where : On(k, p, where)' <=> On(k, p, where)
  BY <1>0, <1>2, OtherCalls DEF On
<1>3. ASSUME CallMoves(k)
      PROVE  /\ On(k, p, "register") => On(k, p, "register")' \/ On(k, p, "lock")' \/ On(k, p, "leave")'
             /\ On(k, p, "lock") => On(k, p, "lock")' \/ On(k, p, "write")'
             /\ On(k, p, "write") => On(k, p, "write")' \/ On(k, p, "wait")' \/ On(k, p, "leave")'
             /\ On(k, p, "wait") => On(k, p, "wait")' \/ On(k, p, "leave")'
             /\ On(k, p, "leave") => On(k, p, "leave")' \/ call'[k] = "done"
  BY <1>0, <1>3 DEF CallType, On, CallMoves, CallStep, RegisterCall, LockPeer, WritePeerFails, WritePeer,
     TakeResponse, ContextEnds, PeerEnds, Returns, Unregister, HandlePeerResponse, Expire, LookupPeer,
     UnknownPeer, CallAt
<1>4. ASSUME NEW q \in Peers, PeerMoves(q) PROVE UNCHANGED <<call, target>>
  BY <1>4 DEF PeerMoves, PeerStep, PeerDrops, ReceiveMalformed, AcceptTCP, AnswerStep, AnswerLocks, AnswerSent,
     AnswerFails, AnswerReturns, Upgrade, UpgradeFails, RegisterPeer, Announce, ReadFails, UnregisterPeer,
     PeerSwaps, PeerGone, SwapPeerPending, FailSwapped, callVars
<1>5. CASE \/ \E u \in Starters : StartStep(u)
           \/ \E w \in Waiters : TakeClient(w) \/ WaitExpires(w)
           \/ CallClose \/ CloseStep \/ ShutdownExpires \/ UNCHANGED vars
  <2>1. UNCHANGED <<call, target>>
    BY <1>5 DEF StartStep, StartChecks, Listen, ListenFails, InstallServer, TakeClient, WaitExpires, CallClose,
       CloseStep, ShutdownExpires, Shutdown, ShutdownEnds, SwapPeers, DisconnectPeer, FailDisconnected,
       SwapPeerPending, FailSwapped, CloseReturns, vars, callVars
  <2> QED
    BY <1>1, <2>1
<1> QED
  BY <1>1, <1>2, <1>3, <1>4, <1>5 DEF Next, Over, CallMoves, PeerMoves

LEMMA CallTakes ==
  ASSUME ServerInv, NEW k \in Calls, NEW p \in Peers, CallStep(k)
  PROVE  /\ On(k, p, "register") => On(k, p, "lock")' \/ On(k, p, "leave")'
         /\ On(k, p, "lock") => On(k, p, "write")'
         /\ On(k, p, "write") => On(k, p, "leave")'
         /\ On(k, p, "wait") => On(k, p, "leave")'
         /\ On(k, p, "leave") => call'[k] = "done"
<1>0. CallType
  BY TypeParts DEF ServerInv
<1> QED
  BY <1>0 DEF CallType, On, CallStep, RegisterCall, LockPeer, WritePeerFails, TakeResponse, ContextEnds,
     PeerEnds, Returns, Unregister, CallAt

LEMMA LostGoesOn ==
  ASSUME NEW k \in Calls, NEW p \in Peers
  PROVE  /\ DeadRun(p) /\ On(k, p, "register") => <>(On(k, p, "lock") \/ On(k, p, "leave"))
         /\ DeadRun(p) /\ On(k, p, "lock") => <>On(k, p, "write")
         /\ DeadRun(p) /\ On(k, p, "write") => <>(On(k, p, "wait") \/ On(k, p, "leave"))
         /\ DeadRun(p) /\ On(k, p, "wait") => <>On(k, p, "leave")
         /\ DeadRun(p) /\ On(k, p, "leave") => <>(call[k] = "done")
<1>1. Turns => CallTurn(k)
  BY DEF Turns
<1>2. DeadRun(p) /\ On(k, p, "register") => <>(On(k, p, "lock") \/ On(k, p, "leave"))
  <2>1. ServerInv /\ On(k, p, "register") /\ [Next]_vars =>
          On(k, p, "register")' \/ On(k, p, "lock")' \/ On(k, p, "leave")'
    BY CallOnward
  <2>2. ServerInv /\ On(k, p, "register") /\ <<CallStep(k)>>_vars => On(k, p, "lock")' \/ On(k, p, "leave")'
    BY CallTakes
  <2>3. On(k, p, "register") => CallReady(k)
    BY DEF CallReady, On
  <2> QED
    BY <1>1, <2>1, <2>2, <2>3, PTL DEF DeadRun, Runs, CallTurn
<1>3. DeadRun(p) /\ On(k, p, "lock") => <>On(k, p, "write")
  <2>1. ServerInv /\ On(k, p, "lock") /\ [Next]_vars => On(k, p, "lock")' \/ On(k, p, "write")'
    BY CallOnward
  <2>2. ServerInv /\ On(k, p, "lock") /\ <<CallStep(k)>>_vars => On(k, p, "write")'
    BY CallTakes
  <2>3. On(k, p, "lock") /\ sendMu[p] = None => CallReady(k)
    BY DEF CallReady, On
  <2>4. DeadRun(p) => []Frees(p)
    BY SendFrees
  <2> QED
    BY <1>1, <2>1, <2>2, <2>3, <2>4, PTL DEF DeadRun, Runs, CallTurn, Frees
<1>4. DeadRun(p) /\ On(k, p, "write") => <>(On(k, p, "wait") \/ On(k, p, "leave"))
  <2>1. ServerInv /\ On(k, p, "write") /\ [Next]_vars =>
          On(k, p, "write")' \/ On(k, p, "wait")' \/ On(k, p, "leave")'
    BY CallOnward
  <2>2. ServerInv /\ On(k, p, "write") /\ <<CallStep(k)>>_vars => On(k, p, "leave")'
    BY CallTakes
  <2>3. Dead(p) /\ On(k, p, "write") => CallReady(k)
    BY DEF CallReady, On, Told, Dead
  <2> QED
    BY <1>1, <2>1, <2>2, <2>3, PTL DEF DeadRun, Runs, CallTurn
<1>5. DeadRun(p) /\ On(k, p, "wait") => <>On(k, p, "leave")
  <2>1. ServerInv /\ On(k, p, "wait") /\ [Next]_vars => On(k, p, "wait")' \/ On(k, p, "leave")'
    BY CallOnward
  <2>2. ServerInv /\ On(k, p, "wait") /\ <<CallStep(k)>>_vars => On(k, p, "leave")'
    BY CallTakes
  <2>3. On(k, p, "wait") /\ ctxDone[p] => CallReady(k)
    BY DEF CallReady, On
  <2> QED
    BY <1>1, <2>1, <2>2, <2>3, DeadIsCancelled, PTL DEF DeadRun, Runs, CallTurn
<1>6. DeadRun(p) /\ On(k, p, "leave") => <>(call[k] = "done")
  <2>1. ServerInv /\ On(k, p, "leave") /\ [Next]_vars => On(k, p, "leave")' \/ (call[k] = "done")'
    BY CallOnward
  <2>2. ServerInv /\ On(k, p, "leave") /\ <<CallStep(k)>>_vars => (call[k] = "done")'
    BY CallTakes
  <2>3. On(k, p, "leave") => CallReady(k)
    BY DEF CallReady, On
  <2> QED
    BY <1>1, <2>1, <2>2, <2>3, PTL DEF DeadRun, Runs, CallTurn
<1> QED
  BY <1>2, <1>3, <1>4, <1>5, <1>6

(* The loss of its peer ends a call wherever it is, in sendMu, behind a Write  *)
(* of its own or of an answer, or in its wait (server.go:337, 372, 568).      *)
THEOREM PeerLossCorrect == Spec /\ []Turns => PeerLossEndsInvokes
<1>1. ASSUME NEW k \in Calls
      PROVE  Runs => (call[k] \notin {"idle", "done"} /\ sock[target[k]] = "closed" ~> call[k] = "done")
  <2> DEFINE Lost(p) == call[k] \notin {"idle", "done"} /\ target[k] = p /\ sock[p] = "closed"
  <2>1. ASSUME NEW p \in Peers PROVE Runs /\ Lost(p) => <>(call[k] = "done")
    <3>1. ServerInv /\ Lost(p) =>
            /\ Dead(p)
            /\ \/ On(k, p, "register") \/ On(k, p, "lock") \/ On(k, p, "write")
               \/ On(k, p, "wait") \/ On(k, p, "leave")
      <4>1. ServerInv => CallType /\ TargetFits(k)
        BY TypeParts DEF ServerInv, CallsFit
      <4> QED
        BY <4>1 DEF CallType, TargetFits, On, Dead
    <3>2. ServerInv /\ Dead(p) /\ [Next]_vars => Dead(p)'
      BY DeadStays
    <3>3. /\ DeadRun(p) /\ On(k, p, "register") => <>(On(k, p, "lock") \/ On(k, p, "leave"))
          /\ DeadRun(p) /\ On(k, p, "lock") => <>On(k, p, "write")
          /\ DeadRun(p) /\ On(k, p, "write") => <>(On(k, p, "wait") \/ On(k, p, "leave"))
          /\ DeadRun(p) /\ On(k, p, "wait") => <>On(k, p, "leave")
          /\ DeadRun(p) /\ On(k, p, "leave") => <>(call[k] = "done")
      BY LostGoesOn
    <3> HIDE DEF Lost
    <3> QED
      BY <3>1, <3>2, <3>3, PTL DEF DeadRun, Runs
  <2>2. Runs => ServerInv
    BY PTL DEF Runs
  <2>3. ServerInv /\ call[k] \notin {"idle", "done"} /\ sock[target[k]] = "closed" => \E p \in Peers : Lost(p)
    <3>1. ServerInv => CallType /\ TargetFits(k)
      BY TypeParts DEF ServerInv, CallsFit
    <3> QED
      BY <3>1 DEF CallType, TargetFits
  <2>4. Runs /\ call[k] \notin {"idle", "done"} /\ sock[target[k]] = "closed" => <>(call[k] = "done")
    BY <2>1, <2>2, <2>3
  <2> QED
    BY <2>4, PTL DEF Runs
<1>2. Spec /\ []Turns => Runs
  BY ServerCorrect, PTL DEF Spec, Runs
<1> QED
  BY <1>1, <1>2 DEF PeerLossEndsInvokes

=============================================================================
