---------------------------- MODULE RoutingProofs ----------------------------
(* Theorems about Routing, for every number of peers and of requests in       *)
(* flight, and every set of messages.                                        *)
EXTENDS Routing, TLAPS

USE RoutingNoneAssumption, StalledAssumption, MessagesAssumption

-----------------------------------------------------------------------------
(* The invariant.                                                           *)

(* A request asks nobody before it is routed, and goes on when all its calls   *)
(* are over; a fan-out does not ask its caller.                              *)
Begun(q) ==
  /\ stage[q] # "idle" => from[q] \in Peers /\ msg[q] \in Messages
  /\ stage[q] \in {"idle", "handler", "exists", "snapshot"} => entries[q] = <<>> /\ Asked(q) = {}
  /\ stage[q] = "exists" => ~FanOut(msg[q])
  /\ stage[q] \notin {"announce", "notify", "reply", "done"} => next[q] = 1
  /\ stage[q] \in {"announce", "notify", "reply", "done"} =>
       \A p \in Peers : calls[q][p] \in {"none", "ended"}
  /\ stage[q] # "idle" /\ FanOut(msg[q]) => from[q] \notin Asked(q)

(* There is one entry for each call that is over, with what the peer said.     *)
Accounted(q) ==
  /\ \A p \in Peers : calls[q][p] = "ended" <=> \E i \in DOMAIN entries[q] : entries[q][i].peer = p
  /\ \A i, j \in DOMAIN entries[q] : entries[q][i].peer = entries[q][j].peer => i = j
  /\ \A i \in DOMAIN entries[q] : entries[q][i].ok => <<q, entries[q][i].peer, TRUE>> \in replied

(* The peers to be told of an entry that were asked as well: those that join   *)
(* later were not, and those that left do not come back.                      *)
Concerned(q, x) == {p \in Asked(q) : p \in peers /\ conn[p] = "on" /\ p \notin {from[q], x}}
Told(q, i) == LET x == entries[q][i].peer IN \A p \in Concerned(q, x) : <<p, q, x>> \in heard

Telling(q) ==
  /\ \A p \in Asked(q) : conn[p] # "away"
  /\ stage[q] \in {"announce", "notify"} =>
       \A i \in DOMAIN entries[q] : i < next[q] => Told(q, i)
  /\ stage[q] = "notify" =>
       /\ next[q] \in DOMAIN entries[q]
       /\ LET x == entries[q][next[q]].peer
          IN /\ \A p \in recipients[q] : p \notin {from[q], x}
             /\ \A p \in Concerned(q, x) : p \in recipients[q] \/ <<p, q, x>> \in heard
  /\ Routed(q) /\ FanOut(msg[q]) /\ msg[q].routing = "full-broadcast" =>
       \A i \in DOMAIN entries[q] : Told(q, i)

Known == \A p \in peers : conn[p] # "away"

(* Announcements are those of requests whose calls are over.                  *)
HeardFits == \A h \in heard : /\ h[1] \notin {from[h[2]], h[3]}
                              /\ stage[h[2]] \in {"announce", "notify", "reply", "done"}

RoutingInv == /\ TypeOK /\ Known /\ HeardFits
              /\ \A q \in Requests : Begun(q) /\ Accounted(q) /\ Telling(q)

-----------------------------------------------------------------------------
(* The list of tests.                                                       *)

(* What becomes of a request: it is answered at once, or goes on, to the       *)
(* peers only if its method or its hint says so.                              *)
LEMMA VerdictType ==
  ASSUME NEW m \in Messages
  PROVE  /\ Verdict(m) \in Answers \cup {"snapshot", "exists", "handler"}
         /\ Verdict(m) \in Answers => Verdict(m) \notin {"snapshot", "exists", "handler"}
         /\ Verdict(m) = "exists" => ~FanOut(m)
<1> DEFINE applies == {i \in DOMAIN Tests(m) : Tests(m)[i][1]}
           first == Min(applies)
<1>1. DOMAIN Tests(m) = 1..11
  BY DEF Tests
<1>2. Tests(m)[11] = <<TRUE, "handler">> /\ Tests(m)[8] = <<FanOut(m), "snapshot">>
  BY DEF Tests
<1>3. 11 \in applies /\ (FanOut(m) => 8 \in applies)
  <2>1. Tests(m)[11][1] /\ (Tests(m)[8][1] <=> FanOut(m))
    BY <1>2
  <2> QED
    BY <1>1, <2>1
<1>4. \E x \in applies : \A y \in applies : x <= y
  BY <1>1, <1>3
<1>5. first \in applies /\ \A y \in applies : first <= y
  BY <1>4 DEF Min
<1>6. Verdict(m) = Tests(m)[first][2] /\ first \in 1..11 /\ (FanOut(m) => first <= 8)
  BY <1>1, <1>3, <1>5 DEF Verdict
<1>7. /\ \A i \in 1..7 : Tests(m)[i][2] \in Answers
      /\ Tests(m)[8][2] = "snapshot" /\ Tests(m)[9][2] = "exists"
      /\ Tests(m)[10][2] \in Answers /\ Tests(m)[11][2] = "handler"
  <2>1. /\ Tests(m)[1][2] = "invalid request" /\ Tests(m)[2][2] = "invalid request"
        /\ Tests(m)[3][2] = "result" /\ Tests(m)[4][2] = "invalid params"
        /\ Tests(m)[5][2] = "invalid params" /\ Tests(m)[6][2] = "invalid request"
        /\ Tests(m)[7][2] = "invalid params" /\ Tests(m)[8][2] = "snapshot"
        /\ Tests(m)[9][2] = "exists" /\ Tests(m)[10][2] = "method not found"
        /\ Tests(m)[11][2] = "handler"
    BY DEF Tests
  <2>2. \A i \in 1..7 : i = 1 \/ i = 2 \/ i = 3 \/ i = 4 \/ i = 5 \/ i = 6 \/ i = 7
    OBVIOUS
  <2> QED
    BY <2>1, <2>2 DEF Answers
<1> HIDE DEF first
<1> QED
  <2>1. first \in 1..7 \/ first = 8 \/ first = 9 \/ first = 10 \/ first = 11
    BY <1>6
  <2>2. CASE first \in 1..7 \/ first = 10
    BY <1>6, <1>7, <2>2 DEF Answers
  <2>3. CASE first = 8
    BY <1>6, <1>7, <2>3 DEF Answers
  <2>4. CASE first = 9
    <3>1. ~FanOut(m)
      BY <1>6, <2>4
    <3> QED
      BY <1>6, <1>7, <2>4, <3>1 DEF Answers
  <2>5. CASE first = 11
    BY <1>6, <1>7, <2>5 DEF Answers
  <2> QED
    BY <2>1, <2>2, <2>3, <2>4, <2>5

-----------------------------------------------------------------------------
(* Types.                                                                   *)

PeerType == conn \in [Peers -> {"away", "on", "gone"}] /\ peers \subseteq Peers
StageType ==
  /\ stage \in [Requests -> {"idle", "handler", "exists", "snapshot", "gather",
                             "announce", "notify", "reply", "done"}]
  /\ from \in [Requests -> Peers \cup {None}]
  /\ msg \in [Requests -> Messages \cup {None}]
  /\ answer \in [Requests -> Answers \cup {None}] /\ delivered \subseteq Requests
  /\ \A q \in Requests : stage[q] = "reply" => answer[q] # None
CallType ==
  /\ calls \in [Requests -> [Peers -> {"none", "start", "write", "sent", "ended"}]]
  /\ entries \in [Requests -> Seq(Entry)]
  /\ replied \subseteq Requests \X Peers \X BOOLEAN
TellType ==
  /\ next \in [Requests -> Nat \ {0}] /\ recipients \in [Requests -> SUBSET Peers]
  /\ heard \subseteq Peers \X Requests \X Peers

LEMMA TypeParts == /\ TypeOK <=> PeerType /\ StageType /\ CallType /\ TellType
                   /\ TypeOK' <=> PeerType' /\ StageType' /\ CallType' /\ TellType'
BY DEF TypeOK, PeerType, StageType, CallType, TellType

LEMMA TypeSame ==
  /\ PeerType /\ UNCHANGED peerVars => PeerType'
  /\ StageType /\ UNCHANGED <<stage, from, msg, answer, delivered>> => StageType'
  /\ CallType /\ UNCHANGED <<calls, entries, replied>> => CallType'
  /\ TellType /\ UNCHANGED <<next, recipients, heard>> => TellType'
BY DEF PeerType, StageType, CallType, TellType, peerVars

LEMMA TypeInit == Init => TypeOK
<1> SUFFICES ASSUME Init PROVE PeerType /\ StageType /\ CallType /\ TellType
  BY TypeParts
<1>1. PeerType /\ StageType /\ TellType
  BY DEF Init, PeerType, StageType, TellType
<1>2. CallType
  BY DEF Init, CallType
<1> QED
  BY <1>1, <1>2

(* The treatment of a request's stage, for answers and for what goes on.      *)
LEMMA AnswerType ==
  ASSUME StageType, NEW q \in Requests, NEW m, NEW a \in Answers, AnswerWith(q, m, a),
         UNCHANGED <<from, msg, delivered>>
  PROVE  StageType'
BY DEF StageType, AnswerWith

LEMMA StepType ==
  ASSUME StageType, NEW q \in Requests,
         NEW t \in {"handler", "exists", "snapshot", "gather", "announce", "notify", "done"},
         stage' = [stage EXCEPT ![q] = t], UNCHANGED <<from, msg, answer, delivered>>
  PROVE  StageType'
BY DEF StageType

(* The steps of a request's goroutine, its Invokes apart.                     *)
RequestMoves(q) ==
  \/ \E p \in Peers, m \in Messages : Arrive(q, p, m)
  \/ HandlerReturns(q) \/ HandlerEnds(q) \/ RequestStep(q) \/ Reply(q)
  \/ \E p \in Peers : Notify(q, p)
InvokeMoves(q, p) == InvokeStep(q, p) \/ WritePeer(q, p) \/ PeerReplies(q, p)
PeerMoves == SwapPeers \/ \E p \in Peers : Join(p) \/ Drop(p) \/ Leave(p)

LEMMA NextMoves ==
  ASSUME [Next]_vars
  PROVE  \/ \E q \in Requests : RequestMoves(q) \/ \E p \in Peers : InvokeMoves(q, p)
         \/ PeerMoves
         \/ UNCHANGED vars
BY DEF Next, RequestMoves, InvokeMoves, PeerMoves, Quiet

LEMMA TypePeers ==
  ASSUME TypeOK, PeerMoves
  PROVE  TypeOK'
<1>1. PeerType'
  BY TypeParts DEF PeerType, PeerMoves, SwapPeers, Join, Drop, Leave
<1> QED
  BY <1>1, TypeParts, TypeSame DEF PeerMoves, SwapPeers, Join, Drop, Leave, requestVars, history

LEMMA TypeInvoke ==
  ASSUME TypeOK, NEW q \in Requests, NEW p \in Peers, InvokeMoves(q, p)
  PROVE  TypeOK'
<1>0. CallType
  BY TypeParts
<1> SUFFICES CallType'
  BY TypeParts, TypeSame DEF InvokeMoves, InvokeStep, LookupPeer, CallEnds, WritePeer, PeerReplies,
     CallVars, peerVars
<1>1. ASSUME NEW ok \in BOOLEAN, EndCall(q, p, ok)
      PROVE  /\ calls' \in [Requests -> [Peers -> {"none", "start", "write", "sent", "ended"}]]
             /\ entries' \in [Requests -> Seq(Entry)]
  <2>1. [peer |-> p, ok |-> ok] \in Entry
    BY DEF Entry
  <2>2. PICK r \in Entry : entries' = [entries EXCEPT ![q] = Append(@, r)]
    BY <1>1, <2>1 DEF EndCall
  <2> QED
    BY <1>0, <1>1, <2>2 DEF CallType, EndCall
<1>2. CASE LookupPeer(q, p) \/ WritePeer(q, p)
  <2>1. UNCHANGED replied /\ (\/ EndCall(q, p, FALSE)
                              \/ /\ \/ calls' = [calls EXCEPT ![q][p] = "write"]
                                    \/ calls' = [calls EXCEPT ![q][p] = "sent"]
                                 /\ UNCHANGED entries)
    BY <1>2 DEF LookupPeer, WritePeer
  <2>2. CASE EndCall(q, p, FALSE)
    BY <1>0, <1>1, <2>1, <2>2 DEF CallType
  <2>3. CASE calls' = [calls EXCEPT ![q][p] = "write"] /\ UNCHANGED entries
    BY <1>0, <2>1, <2>3 DEF CallType
  <2>4. CASE calls' = [calls EXCEPT ![q][p] = "sent"] /\ UNCHANGED entries
    BY <1>0, <2>1, <2>4 DEF CallType
  <2> QED
    BY <2>1, <2>2, <2>3, <2>4
<1>3. CASE CallEnds(q, p)
  BY <1>0, <1>1, <1>3 DEF CallType, CallEnds
<1>4. CASE PeerReplies(q, p)
  <2>1. PICK ok \in BOOLEAN : EndCall(q, p, ok) /\ replied' = replied \cup {<<q, p, ok>>}
    BY <1>4 DEF PeerReplies
  <2> QED
    BY <1>0, <1>1, <2>1 DEF CallType
<1> QED
  BY <1>2, <1>3, <1>4 DEF InvokeMoves, InvokeStep

LEMMA EntryPeer ==
  ASSUME NEW s \in Seq(Entry), NEW i \in DOMAIN s
  PROVE  s[i] \in Entry /\ s[i].peer \in Peers /\ s[i].ok \in BOOLEAN
<1>1. s[i] \in Entry
  OBVIOUS
<1> QED
  BY <1>1 DEF Entry

LEMMA TypeRequest ==
  ASSUME TypeOK, NEW q \in Requests, RequestMoves(q),
         stage[q] = "notify" => next[q] \in DOMAIN entries[q]
  PROVE  TypeOK'
<1>0. PeerType /\ StageType /\ CallType /\ TellType
  BY TypeParts
<1>1. ASSUME NEW p \in Peers, NEW m \in Messages, Arrive(q, p, m) PROVE TypeOK'
  <2>1. from' \in [Requests -> Peers \cup {None}] /\ msg' \in [Requests -> Messages \cup {None}]
    BY <1>0, <1>1 DEF StageType, Arrive
  <2>2. PICK a : a = Verdict(m)
    OBVIOUS
  <2>3. CASE a \in {"snapshot", "exists", "handler"}
    BY <1>0, <1>1, <2>1, <2>2, <2>3, TypeParts, TypeSame DEF StageType, Arrive, history
  <2>4. CASE a \notin {"snapshot", "exists", "handler"}
    <3>1. a \in Answers
      BY <2>2, <2>4, VerdictType
    <3> QED
      BY <1>0, <1>1, <2>1, <2>2, <2>4, <3>1, TypeParts, TypeSame
         DEF StageType, Arrive, AnswerWith, history
  <2> QED
    BY <2>3, <2>4
<1>2. CASE HandlerReturns(q)
  <2>1. StageType'
    BY <1>0, <1>2, AnswerType DEF HandlerReturns, Answers
  <2> QED
    BY <1>2, <2>1, TypeParts, TypeSame DEF HandlerReturns, history
<1>3. CASE HandlerEnds(q)
  BY <1>0, <1>3, StepType, TypeParts, TypeSame DEF HandlerEnds, history
<1>4. CASE PeerExists(q) \/ Snapshot(q)
  <2>1. /\ UNCHANGED <<from, msg, delivered>>
        /\ \/ \E ps \in SUBSET Peers : InvokeAll(q, ps)
           \/ \E a \in Answers : AnswerWith(q, msg[q], a) /\ UNCHANGED calls
    <3>1. Targets(q) \subseteq Peers
      BY <1>0 DEF PeerType, Targets
    <3>2. msg[q].peer \in peers => {msg[q].peer} \subseteq Peers
      BY <1>0 DEF PeerType
    <3> QED
      BY <1>4, <3>1, <3>2 DEF PeerExists, Snapshot, Answers
  <2>2. StageType'
    BY <1>0, <2>1, AnswerType, StepType DEF InvokeAll
  <2>3. CallType'
    <3>1. UNCHANGED <<entries, replied>>
      BY <1>4 DEF PeerExists, Snapshot, history
    <3> QED
      BY <1>0, <2>1, <3>1 DEF CallType, InvokeAll
  <2> QED
    BY <1>4, <2>2, <2>3, TypeParts, TypeSame DEF PeerExists, Snapshot, history
<1>5. CASE Gathered(q) \/ AllAnnounced(q)
  <2>1. RoutedAnswer(q) \in Answers
    BY DEF RoutedAnswer, Answers
  <2>2. StageType'
    BY <1>0, <1>5, <2>1, AnswerType, StepType DEF Gathered, AllAnnounced
  <2> QED
    BY <1>5, <2>2, TypeParts, TypeSame DEF Gathered, AllAnnounced, history
<1>6. CASE Announce(q) \/ Notified(q)
  <2>1. StageType'
    BY <1>0, <1>6, StepType DEF Announce, Notified
  <2>2. TellType'
    BY <1>0, <1>6 DEF TellType, Announce, Notified, Recipients, PeerType, history
  <2> QED
    BY <1>6, <2>1, <2>2, TypeParts, TypeSame DEF Announce, Notified, history
<1>7. CASE Reply(q)
  <2>1. StageType'
    BY <1>0, <1>7 DEF StageType, Reply
  <2> QED
    BY <1>7, <2>1, TypeParts, TypeSame DEF Reply, history
<1>8. ASSUME NEW p \in Peers, Notify(q, p) PROVE TypeOK'
  <2>1. PICK x : x = entries[q][next[q]].peer
    OBVIOUS
  <2>2. x \in Peers
    <3>1. entries[q] \in Seq(Entry) /\ next[q] \in DOMAIN entries[q]
      BY <1>0, <1>8 DEF CallType, Notify
    <3> QED
      BY <2>1, <3>1, EntryPeer
  <2>3. TellType'
    <3>1. heard' = heard \/ heard' = heard \cup {<<p, q, x>>}
      BY <1>8, <2>1 DEF Notify
    <3>2. heard' \subseteq Peers \X Requests \X Peers
      BY <1>0, <2>2, <3>1 DEF TellType
    <3> QED
      BY <1>0, <1>8, <3>2 DEF TellType, Notify
  <2> QED
    BY <1>8, <2>3, TypeParts, TypeSame DEF Notify
<1> QED
  BY <1>1, <1>2, <1>3, <1>4, <1>5, <1>6, <1>7, <1>8 DEF RequestMoves, RequestStep

-----------------------------------------------------------------------------
(* Steps elsewhere.                                                         *)

SameRequest(q) ==
  /\ stage'[q] = stage[q] /\ from'[q] = from[q] /\ msg'[q] = msg[q] /\ calls'[q] = calls[q]
  /\ entries'[q] = entries[q] /\ next'[q] = next[q] /\ recipients'[q] = recipients[q]
  /\ answer'[q] = answer[q]

(* Connections are made once, and a peer that left the map stays out of it.    *)
PeersMoveOn ==
  \A p \in Peers : conn[p] # "away" =>
    conn'[p] # "away" /\ (conn'[p] = "on" => conn[p] = "on") /\ (p \in peers' => p \in peers)
Remembers == replied \subseteq replied' /\ heard \subseteq heard'

LEMMA OtherRequests ==
  ASSUME TypeOK, NEW q \in Requests, NEW j \in Requests, j # q,
         RequestMoves(q) \/ \E p \in Peers : InvokeMoves(q, p)
  PROVE  SameRequest(j)
<1>0. StageType /\ CallType /\ TellType
  BY TypeParts
<1>1. CASE \E p \in Peers : InvokeMoves(q, p)
  <2>1. UNCHANGED <<stage, from, msg, next, recipients, answer>>
    BY <1>1 DEF InvokeMoves, InvokeStep, LookupPeer, WritePeer, PeerReplies, CallEnds, CallVars
  <2>2. calls'[j] = calls[j] /\ entries'[j] = entries[j]
    BY <1>0, <1>1 DEF CallType, InvokeMoves, InvokeStep, LookupPeer, WritePeer, PeerReplies,
       CallEnds, EndCall
  <2> QED
    BY <2>1, <2>2 DEF SameRequest
<1>2. ASSUME NEW p \in Peers, NEW m \in Messages, Arrive(q, p, m) PROVE SameRequest(j)
  BY <1>0, <1>2 DEF StageType, Arrive, AnswerWith, SameRequest
<1>3. CASE HandlerReturns(q) \/ HandlerEnds(q) \/ Reply(q)
  BY <1>0, <1>3 DEF StageType, HandlerReturns, HandlerEnds, Reply, AnswerWith, SameRequest
<1>4. CASE PeerExists(q) \/ Snapshot(q)
  BY <1>0, <1>4 DEF StageType, CallType, PeerExists, Snapshot, InvokeAll, AnswerWith, SameRequest
<1>5. CASE Gathered(q) \/ AllAnnounced(q)
  BY <1>0, <1>5 DEF StageType, Gathered, AllAnnounced, AnswerWith, SameRequest
<1>6. CASE Announce(q) \/ Notified(q) \/ \E p \in Peers : Notify(q, p)
  BY <1>0, <1>6 DEF StageType, TellType, Announce, Notified, Notify, SameRequest
<1> QED
  BY <1>1, <1>2, <1>3, <1>4, <1>5, <1>6 DEF RequestMoves, RequestStep

LEMMA World ==
  ASSUME TypeOK, Known, [Next]_vars
  PROVE  PeersMoveOn /\ Remembers /\ Known'
<1>0. PeerType
  BY TypeParts
<1>1. CASE PeerMoves
  BY <1>0, <1>1 DEF PeerType, PeerMoves, SwapPeers, Join, Drop, Leave, PeersMoveOn, Remembers, Known,
     history
<1>2. ASSUME NEW q \in Requests, RequestMoves(q) PROVE UNCHANGED peerVars /\ Remembers
  BY <1>2 DEF RequestMoves, RequestStep, Arrive, HandlerReturns, HandlerEnds, PeerExists, Snapshot,
     Gathered, Announce, Notify, Notified, AllAnnounced, Reply, Remembers, history
<1>3. ASSUME NEW q \in Requests, NEW p \in Peers, InvokeMoves(q, p)
      PROVE  UNCHANGED peerVars /\ Remembers
  BY <1>3 DEF InvokeMoves, InvokeStep, LookupPeer, WritePeer, PeerReplies, CallEnds, CallVars,
     Remembers
<1>4. CASE UNCHANGED vars
  BY <1>4 DEF vars, peerVars, history, PeersMoveOn, Remembers, Known
<1> QED
  BY <1>1, <1>2, <1>3, <1>4, NextMoves DEF peerVars, PeersMoveOn, Known

LEMMA SameFits ==
  ASSUME TypeOK, NEW q \in Requests, SameRequest(q), PeersMoveOn, Remembers,
         Begun(q), Accounted(q), Telling(q)
  PROVE  (Begun(q) /\ Accounted(q) /\ Telling(q))'
<1>1. Asked(q)' = Asked(q) /\ (Routed(q)' <=> Routed(q))
  BY DEF SameRequest, Asked, Routed
<1>2. Begun(q)' /\ Accounted(q)'
  <2>1. Begun(q)'
    BY <1>1 DEF SameRequest, Begun, FanOut
  <2>2. Accounted(q)'
    <3>1. PICK s, c : s = entries[q] /\ c = calls[q]
      OBVIOUS
    <3>2. entries'[q] = s /\ calls'[q] = c
      BY <3>1 DEF SameRequest
    <3>3. /\ \A p \in Peers : c[p] = "ended" <=> \E i \in DOMAIN s : s[i].peer = p
          /\ \A i, j \in DOMAIN s : s[i].peer = s[j].peer => i = j
          /\ \A i \in DOMAIN s : s[i].ok => <<q, s[i].peer, TRUE>> \in replied
      BY <3>1 DEF Accounted
    <3> QED
      BY <3>2, <3>3 DEF Accounted, Remembers
  <2> QED
    BY <2>1, <2>2
<1>3. \A x : Concerned(q, x)' \subseteq Concerned(q, x)
  BY <1>1 DEF Concerned, Telling, PeersMoveOn, Asked, SameRequest
<1>4. \A i : Told(q, i) => Told(q, i)'
  BY <1>3 DEF Told, SameRequest, Remembers
<1>5. \A p \in Asked(q)' : conn'[p] # "away"
  BY <1>1 DEF Telling, PeersMoveOn, Asked
<1>6. stage'[q] = "notify" =>
        /\ next'[q] \in DOMAIN entries'[q]
        /\ \A p \in recipients'[q] : p \notin {from'[q], entries'[q][next'[q]].peer}
        /\ \A p \in Concerned(q, entries[q][next[q]].peer)' :
             p \in recipients'[q] \/ <<p, q, entries'[q][next'[q]].peer>> \in heard'
  BY <1>3 DEF Telling, SameRequest, Remembers
<1> QED
  BY <1>1, <1>2, <1>4, <1>5, <1>6 DEF Telling, SameRequest

-----------------------------------------------------------------------------
(* The Invokes of a request.                                                *)

LEMMA InvokeFits ==
  ASSUME TypeOK, NEW q \in Requests, NEW p \in Peers, InvokeMoves(q, p),
         Begun(q), Accounted(q), Telling(q)
  PROVE  (Begun(q) /\ Accounted(q) /\ Telling(q))'
<1>0. CallType
  BY TypeParts
<1>1. UNCHANGED <<conn, peers, stage, from, msg, next, recipients, answer, heard>>
  BY DEF InvokeMoves, InvokeStep, LookupPeer, WritePeer, PeerReplies, CallEnds, CallVars, peerVars
<1>2. calls[q][p] \in {"start", "write", "sent"}
  BY DEF InvokeMoves, InvokeStep, LookupPeer, WritePeer, PeerReplies, CallEnds
<1>3. stage[q] = "gather"
  <2>1. p \in Asked(q) /\ calls[q][p] \notin {"none", "ended"}
    BY <1>2 DEF Asked
  <2> QED
    BY <2>1, TypeParts DEF Begun, StageType
<1>4. \/ /\ \E c \in {"write", "sent"} : calls' = [calls EXCEPT ![q][p] = c]
         /\ UNCHANGED <<entries, replied>>
      \/ \E ok \in BOOLEAN : /\ EndCall(q, p, ok)
                             /\ replied \subseteq replied' /\ (ok => <<q, p, TRUE>> \in replied')
  <2>1. CASE LookupPeer(q, p) \/ WritePeer(q, p) \/ CallEnds(q, p)
    BY <2>1 DEF LookupPeer, WritePeer, CallEnds
  <2>2. CASE PeerReplies(q, p)
    BY <2>2 DEF PeerReplies
  <2> QED
    BY <2>1, <2>2 DEF InvokeMoves, InvokeStep
<1>5. \A x \in Peers : /\ calls'[q][x] = "none" <=> calls[q][x] = "none"
                       /\ x # p => calls'[q][x] = calls[q][x]
  <2>1. PICK c \in {"write", "sent", "ended"} : calls' = [calls EXCEPT ![q][p] = c]
    BY <1>4 DEF EndCall
  <2>2. calls'[q] = [calls[q] EXCEPT ![p] = c] /\ calls[q] \in [Peers -> {"none", "start", "write", "sent", "ended"}]
    BY <1>0, <2>1 DEF CallType
  <2> QED
    BY <1>2, <2>1, <2>2
<1>6. Asked(q)' = Asked(q)
  BY <1>5 DEF Asked
<1>7. Begun(q)' /\ Telling(q)'
  BY <1>1, <1>3, <1>6 DEF Begun, Telling, Routed
<1>8. Accounted(q)'
  <2>1. CASE /\ \E c \in {"write", "sent"} : calls' = [calls EXCEPT ![q][p] = c]
             /\ UNCHANGED <<entries, replied>>
    <3>1. calls'[q][p] # "ended"
      BY <1>0, <2>1 DEF CallType
    <3> QED
      BY <1>2, <1>5, <2>1, <3>1 DEF Accounted
  <2>2. ASSUME NEW ok \in BOOLEAN, EndCall(q, p, ok),
               replied \subseteq replied', ok => <<q, p, TRUE>> \in replied'
        PROVE  Accounted(q)'
    <3>1. PICK s \in Seq(Entry) : s = entries[q]
      BY <1>0 DEF CallType
    <3>2. PICK r \in Entry : r = [peer |-> p, ok |-> ok]
      BY DEF Entry
    <3>3. entries'[q] = Append(s, r) /\ calls'[q][p] = "ended"
      BY <1>0, <2>2, <3>1, <3>2 DEF CallType, EndCall
    <3>4. PICK t : t = Append(s, r)
      OBVIOUS
    <3>5. \A i \in DOMAIN t : \/ i \in DOMAIN s /\ t[i] = s[i]
                              \/ i = Len(s) + 1 /\ t[i] = r
      BY <3>1, <3>2, <3>4
    <3>6. /\ \A i \in DOMAIN s : i \in DOMAIN t /\ t[i] = s[i]
          /\ Len(s) + 1 \in DOMAIN t /\ t[Len(s) + 1] = r
      BY <3>1, <3>2, <3>4
    <3>7. \A i \in DOMAIN s : s[i].peer # p
      BY <1>2, <3>1 DEF Accounted
    <3>8. r.peer = p /\ r.ok = ok
      BY <3>2
    <3>9. \A x \in Peers : calls'[q][x] = "ended" <=> \E i \in DOMAIN t : t[i].peer = x
      <4>1. \A x \in Peers : calls[q][x] = "ended" <=> \E i \in DOMAIN s : s[i].peer = x
        BY <3>1 DEF Accounted
      <4> QED
        BY <1>5, <3>3, <3>5, <3>6, <3>8, <4>1
    <3>10. \A i, j \in DOMAIN t : t[i].peer = t[j].peer => i = j
      <4>1. \A i, j \in DOMAIN s : s[i].peer = s[j].peer => i = j
        BY <3>1 DEF Accounted
      <4> QED
        BY <3>5, <3>7, <3>8, <4>1
    <3>11. \A i \in DOMAIN t : t[i].ok => <<q, t[i].peer, TRUE>> \in replied'
      <4>1. \A i \in DOMAIN s : s[i].ok => <<q, s[i].peer, TRUE>> \in replied
        BY <3>1 DEF Accounted
      <4> QED
        BY <2>2, <3>5, <3>8, <4>1
    <3>12. entries'[q] = t
      BY <3>3, <3>4
    <3> QED
      BY <3>9, <3>10, <3>11, <3>12 DEF Accounted
  <2> QED
    BY <1>4, <2>1, <2>2
<1> QED
  BY <1>7, <1>8

-----------------------------------------------------------------------------
(* The other steps of a request.                                            *)

(* What is told stays told when the calls and the connections do not change.  *)
LEMMA ToldStays ==
  ASSUME NEW q \in Requests, UNCHANGED <<calls, entries, peers, conn, from>>, heard \subseteq heard'
  PROVE  /\ Asked(q)' = Asked(q)
         /\ \A x : Concerned(q, x)' = Concerned(q, x)
         /\ \A i : Told(q, i) => Told(q, i)'
<1>1. Asked(q)' = Asked(q)
  BY DEF Asked
<1>2. \A x : Concerned(q, x)' = Concerned(q, x)
  BY <1>1 DEF Concerned
<1> QED
  BY <1>1, <1>2 DEF Told

(* Before a request is routed nobody is asked, so that there is nobody to      *)
(* account for or to tell.                                                  *)
LEMMA NobodyAsked ==
  ASSUME NEW q \in Requests, Asked(q)' = {}, entries'[q] = <<>>
  PROVE  /\ Accounted(q)'
         /\ stage'[q] # "notify" => Telling(q)'
<1>1. \A p \in Peers : calls'[q][p] = "none"
  BY DEF Asked
<1>2. Accounted(q)'
  BY <1>1 DEF Accounted
<1>3. stage'[q] # "notify" => Telling(q)'
  BY DEF Telling, Routed
<1> QED
  BY <1>2, <1>3

LEMMA UnroutedFits ==
  ASSUME TypeOK, NEW q \in Requests, Begun(q),
         \/ \E p \in Peers, m \in Messages : Arrive(q, p, m)
         \/ HandlerReturns(q) \/ HandlerEnds(q)
  PROVE  (Begun(q) /\ Accounted(q) /\ Telling(q))'
<1>0. StageType
  BY TypeParts
<1>1. stage[q] \in {"idle", "handler"} /\ UNCHANGED <<calls, entries, next>>
  BY DEF Arrive, HandlerReturns, HandlerEnds
<1>2. Asked(q)' = {} /\ entries'[q] = <<>> /\ next'[q] = 1
  BY <1>1 DEF Begun, Asked
<1>3. /\ stage'[q] \in {"handler", "exists", "snapshot", "reply", "done"}
      /\ from'[q] \in Peers /\ msg'[q] \in Messages
      /\ stage'[q] = "exists" => ~FanOut(msg'[q])
  <2>1. ASSUME NEW p \in Peers, NEW m \in Messages, Arrive(q, p, m)
        PROVE  /\ stage'[q] \in {"handler", "exists", "snapshot", "reply", "done"}
               /\ from'[q] = p /\ msg'[q] = m
               /\ stage'[q] = "exists" => Verdict(m) = "exists"
    BY <1>0, <2>1 DEF StageType, Arrive, AnswerWith
  <2>2. CASE HandlerReturns(q) \/ HandlerEnds(q)
    <3>1. UNCHANGED <<from, msg>> /\ stage[q] = "handler" /\ stage'[q] \in {"reply", "done"}
      BY <1>0, <2>2 DEF StageType, HandlerReturns, HandlerEnds, AnswerWith
    <3> QED
      BY <3>1 DEF Begun
  <2> QED
    BY <2>1, <2>2, VerdictType
<1>4. \A p \in Peers : calls'[q][p] = "none"
  BY <1>2 DEF Asked
<1>5. Begun(q)'
  BY <1>2, <1>3, <1>4 DEF Begun
<1> QED
  BY <1>2, <1>3, <1>5, NobodyAsked

LEMMA RouteFits ==
  ASSUME TypeOK, Known, NEW q \in Requests, Begun(q), PeerExists(q) \/ Snapshot(q)
  PROVE  (Begun(q) /\ Accounted(q) /\ Telling(q))'
<1>0. StageType /\ CallType /\ PeerType
  BY TypeParts
<1>1. /\ UNCHANGED <<conn, peers, from, msg, entries, next>> /\ stage[q] \in {"exists", "snapshot"}
      /\ from[q] \in Peers /\ msg[q] \in Messages /\ entries[q] = <<>> /\ Asked(q) = {} /\ next[q] = 1
  BY DEF PeerExists, Snapshot, peerVars, Begun
<1>2. CASE \/ InvokeAll(q, {msg[q].peer}) /\ stage[q] = "exists" /\ msg[q].peer \in peers
           \/ InvokeAll(q, Targets(q)) /\ stage[q] = "snapshot"
  <2>1. PICK ps \in SUBSET peers : InvokeAll(q, ps) /\ (FanOut(msg[q]) => from[q] \notin ps)
    BY <1>2 DEF Begun, Targets
  <2>2. stage'[q] = "gather" /\ \A p \in Peers : calls'[q][p] = IF p \in ps THEN "start" ELSE "none"
    BY <1>0, <2>1 DEF StageType, CallType, InvokeAll
  <2>3. Asked(q)' \subseteq ps
    BY <2>2 DEF Asked
  <2>4. Begun(q)'
    BY <1>1, <2>1, <2>2, <2>3 DEF Begun
  <2>5. Accounted(q)'
    BY <1>1, <2>2 DEF Accounted
  <2>6. Telling(q)'
    BY <1>1, <2>1, <2>2, <2>3 DEF Telling, Routed, Known
  <2> QED
    BY <2>4, <2>5, <2>6
<1>3. ASSUME NEW a, AnswerWith(q, msg[q], a), UNCHANGED calls
      PROVE  (Begun(q) /\ Accounted(q) /\ Telling(q))'
  <2>1. stage'[q] \in {"reply", "done"}
    BY <1>0, <1>3 DEF StageType, AnswerWith
  <2>2. Asked(q)' = {} /\ entries'[q] = <<>>
    BY <1>1, <1>3 DEF Asked
  <2>3. \A p \in Peers : calls'[q][p] = "none"
    BY <2>2 DEF Asked
  <2>4. Begun(q)'
    BY <1>1, <2>1, <2>2, <2>3 DEF Begun
  <2> QED
    BY <2>1, <2>2, <2>4, NobodyAsked
<1> QED
  BY <1>2, <1>3 DEF PeerExists, Snapshot

LEMMA RoutedFits ==
  ASSUME TypeOK, NEW q \in Requests, Begun(q), Accounted(q), Telling(q),
         \/ Gathered(q) \/ Announce(q) \/ Notified(q) \/ AllAnnounced(q) \/ Reply(q)
         \/ \E p \in Peers : Notify(q, p)
  PROVE  (Begun(q) /\ Accounted(q) /\ Telling(q))'
<1>0. StageType /\ CallType /\ TellType /\ PeerType
  BY TypeParts
<1>1. UNCHANGED <<conn, peers, from, msg, calls, entries, replied>> /\ heard \subseteq heard'
  BY DEF Gathered, Announce, Notified, AllAnnounced, Reply, Notify, peerVars, history
<1>2. /\ Asked(q)' = Asked(q)
      /\ \A x : Concerned(q, x)' = Concerned(q, x)
      /\ \A i : Told(q, i) => Told(q, i)'
  BY <1>1, ToldStays
<1>3. Accounted(q)'
  BY <1>1 DEF Accounted
<1>4. /\ stage[q] \in {"gather", "announce", "notify", "reply"}
      /\ stage'[q] \in {"announce", "notify", "reply", "done"}
      /\ \A p \in Peers : calls[q][p] \in {"none", "ended"}
  BY <1>0 DEF StageType, Begun, Gathered, Announce, Notified, AllAnnounced, Reply, Notify, AnswerWith
<1>5. Begun(q)'
  BY <1>1, <1>2, <1>4 DEF Begun
<1>6. \A p \in Asked(q)' : conn'[p] # "away"
  BY <1>1, <1>2 DEF Telling
<1>7. \A i \in DOMAIN entries[q] : i \in Nat /\ ~(i < 1)
  BY <1>0 DEF CallType
<1>8. CASE Gathered(q)
  <2>1. stage'[q] # "notify" /\ next'[q] = 1
    BY <1>0, <1>8 DEF StageType, Gathered, Begun, AnswerWith
  <2>2. FanOut(msg[q]) /\ msg[q].routing = "full-broadcast" => stage'[q] = "announce"
    BY <1>0, <1>8 DEF StageType, Gathered, Announced
  <2> QED
    BY <1>1, <1>3, <1>5, <1>6, <1>7, <2>1, <2>2 DEF Telling, Routed
<1>9. CASE Announce(q)
  <2>1. PICK x : x = entries[q][next[q]].peer
    OBVIOUS
  <2>2. /\ stage'[q] = "notify" /\ next'[q] = next[q] /\ next[q] \in DOMAIN entries[q]
        /\ recipients'[q] = peers \ {from[q], x} /\ stage[q] = "announce"
    BY <1>0, <1>9, <2>1 DEF StageType, TellType, Announce, Recipients
  <2>3. Concerned(q, x) \subseteq recipients'[q]
    BY <2>2 DEF Concerned
  <2> QED
    BY <1>1, <1>2, <1>3, <1>5, <1>6, <2>1, <2>2, <2>3 DEF Telling, Routed
<1>10. ASSUME NEW p \in Peers, Notify(q, p) PROVE Telling(q)'
  <2>1. PICK x : x = entries[q][next[q]].peer
    OBVIOUS
  <2>2. /\ stage'[q] = "notify" /\ next'[q] = next[q] /\ stage[q] = "notify"
        /\ recipients'[q] = recipients[q] \ {p} /\ (conn[p] = "on" => <<p, q, x>> \in heard')
    BY <1>0, <1>10, <2>1 DEF StageType, TellType, Notify
  <2>3. \A y \in Concerned(q, x)' : y \in recipients'[q] \/ <<y, q, x>> \in heard'
    BY <1>1, <1>2, <2>1, <2>2 DEF Telling, Concerned
  <2>4. entries'[q][next'[q]].peer = x
    BY <1>1, <2>1, <2>2
  <2> QED
    BY <1>1, <1>2, <1>6, <2>1, <2>2, <2>3, <2>4 DEF Telling, Routed
<1>11. CASE Notified(q)
  <2>1. /\ stage'[q] = "announce" /\ next'[q] = next[q] + 1 /\ stage[q] = "notify"
        /\ recipients[q] = {} /\ next[q] \in Nat
    BY <1>0, <1>11 DEF StageType, TellType, Notified
  <2>2. Told(q, next[q])
    BY <2>1 DEF Telling, Told
  <2>3. \A i \in DOMAIN entries[q] : i < next[q] + 1 => i < next[q] \/ i = next[q]
    BY <1>0, <2>1 DEF CallType
  <2> QED
    BY <1>1, <1>2, <1>3, <1>5, <1>6, <2>1, <2>2, <2>3 DEF Telling, Routed
<1>12. CASE AllAnnounced(q)
  <2>1. stage'[q] \in {"reply", "done"} /\ stage[q] = "announce" /\ next[q] \notin DOMAIN entries[q]
    BY <1>0, <1>12 DEF StageType, AllAnnounced, AnswerWith
  <2>2. \A i \in DOMAIN entries[q] : i < next[q]
    <3>1. entries[q] \in Seq(Entry) /\ next[q] \in Nat \ {0}
      BY <1>0 DEF CallType, TellType
    <3> QED
      BY <2>1, <3>1
  <2> QED
    BY <1>1, <1>2, <1>3, <1>5, <1>6, <2>1, <2>2 DEF Telling
<1>13. CASE Reply(q)
  <2>1. stage[q] = "reply" /\ stage'[q] = "done" /\ UNCHANGED answer
    BY <1>0, <1>13 DEF StageType, Reply
  <2> QED
    BY <1>1, <1>2, <1>3, <1>5, <1>6, <2>1 DEF Telling, Routed
<1> QED
  BY <1>3, <1>5, <1>8, <1>9, <1>10, <1>11, <1>12, <1>13

-----------------------------------------------------------------------------
(* Announcements.                                                           *)

LEMMA HeardKept ==
  ASSUME RoutingInv, [Next]_vars
  PROVE  HeardFits'
<1>0. TypeOK /\ StageType /\ TellType /\ HeardFits
  BY TypeParts DEF RoutingInv
<1> SUFFICES ASSUME NEW h \in heard'
             PROVE  /\ h[1] \notin {from'[h[2]], h[3]}
                    /\ stage'[h[2]] \in {"announce", "notify", "reply", "done"}
  BY DEF HeardFits
<1>1. ASSUME h \in heard, UNCHANGED <<stage, from>>
      PROVE  /\ h[1] \notin {from'[h[2]], h[3]}
             /\ stage'[h[2]] \in {"announce", "notify", "reply", "done"}
  BY <1>0, <1>1 DEF HeardFits
<1>2. ASSUME h \in heard, NEW q \in Requests, RequestMoves(q)
      PROVE  /\ h[1] \notin {from'[h[2]], h[3]}
             /\ stage'[h[2]] \in {"announce", "notify", "reply", "done"}
  <2>1. PICK j : j = h[2]
    OBVIOUS
  <2>2. j \in Requests /\ h[1] \notin {from[j], h[3]} /\ stage[j] \in {"announce", "notify", "reply", "done"}
    BY <1>0, <1>2, <2>1 DEF HeardFits, TellType
  <2>3. CASE j # q
    BY <1>0, <1>2, <2>1, <2>2, <2>3, OtherRequests DEF SameRequest
  <2>4. CASE j = q
    <3>1. \/ Gathered(q) \/ Announce(q) \/ Notified(q) \/ AllAnnounced(q) \/ Reply(q)
          \/ \E p \in Peers : Notify(q, p)
      BY <1>2, <2>2, <2>4 DEF RequestMoves, RequestStep, Arrive, HandlerReturns, HandlerEnds,
         PeerExists, Snapshot
    <3>2. UNCHANGED from /\ stage'[q] \in {"announce", "notify", "reply", "done"}
      BY <1>0, <3>1 DEF StageType, Gathered, Announce, Notified, AllAnnounced, Reply, Notify,
         AnswerWith
    <3> QED
      BY <2>1, <2>2, <2>4, <3>2
  <2> QED
    BY <2>3, <2>4
<1>3. ASSUME h \notin heard
      PROVE  /\ h[1] \notin {from'[h[2]], h[3]}
             /\ stage'[h[2]] \in {"announce", "notify", "reply", "done"}
  <2>1. PICK q \in Requests, p \in Peers : Notify(q, p)
    <3>1. heard' # heard
      BY <1>3
    <3> QED
      BY <3>1, NextMoves DEF RequestMoves, RequestStep, Arrive, HandlerReturns, HandlerEnds, PeerExists,
         Snapshot, Gathered, Announce, Notified, AllAnnounced, Reply, InvokeMoves, InvokeStep,
         LookupPeer, WritePeer, PeerReplies, CallEnds, CallVars, PeerMoves, SwapPeers, Join, Drop,
         Leave, history, vars
  <2>2. PICK x : x = entries[q][next[q]].peer
    OBVIOUS
  <2>3. h = <<p, q, x>> /\ UNCHANGED <<stage, from>> /\ stage[q] = "notify" /\ p \in recipients[q]
    BY <1>3, <2>1, <2>2 DEF Notify
  <2>4. p \notin {from[q], x}
    BY <2>2, <2>3 DEF RoutingInv, Telling
  <2> QED
    BY <2>3, <2>4
<1>4. CASE \E q \in Requests : RequestMoves(q)
  BY <1>2, <1>3, <1>4
<1>5. CASE PeerMoves \/ UNCHANGED vars \/ \E q \in Requests, p \in Peers : InvokeMoves(q, p)
  <2>1. UNCHANGED <<stage, from>>
    BY <1>5 DEF PeerMoves, SwapPeers, Join, Drop, Leave, vars, requestVars, InvokeMoves, InvokeStep,
       LookupPeer, WritePeer, PeerReplies, CallEnds, CallVars
  <2> QED
    BY <1>1, <1>3, <2>1
<1> QED
  BY <1>4, <1>5, NextMoves

-----------------------------------------------------------------------------
(* The theorems.                                                            *)

LEMMA RoutingStep == RoutingInv /\ [Next]_vars => RoutingInv'
<1> SUFFICES ASSUME RoutingInv, [Next]_vars PROVE RoutingInv'
  OBVIOUS
<1>1. TypeOK /\ Known /\ HeardFits /\ \A q \in Requests : Begun(q) /\ Accounted(q) /\ Telling(q)
  BY DEF RoutingInv
<1>2. PeersMoveOn /\ Remembers /\ Known'
  BY <1>1, World
<1>3. HeardFits'
  BY HeardKept
<1>4. TypeOK'
  <2>1. CASE UNCHANGED vars
    BY <1>1, <2>1, TypeParts, TypeSame DEF vars, requestVars, history
  <2>2. \A q \in Requests : stage[q] = "notify" => next[q] \in DOMAIN entries[q]
    BY <1>1 DEF Telling
  <2> QED
    BY <1>1, <2>1, <2>2, TypePeers, TypeInvoke, TypeRequest, NextMoves
<1>5. ASSUME NEW j \in Requests PROVE (Begun(j) /\ Accounted(j) /\ Telling(j))'
  <2>1. Begun(j) /\ Accounted(j) /\ Telling(j)
    BY <1>1
  <2>2. CASE SameRequest(j)
    BY <1>1, <1>2, <2>1, <2>2, SameFits
  <2>3. ASSUME NEW q \in Requests, RequestMoves(q) \/ \E p \in Peers : InvokeMoves(q, p)
        PROVE  (Begun(j) /\ Accounted(j) /\ Telling(j))'
    <3>1. CASE j # q
      BY <1>1, <2>2, <2>3, <3>1, OtherRequests
    <3>2. CASE j = q /\ RequestMoves(q)
      BY <1>1, <2>1, <3>2, UnroutedFits, RouteFits, RoutedFits DEF RequestMoves, RequestStep
    <3>3. CASE j = q /\ \E p \in Peers : InvokeMoves(q, p)
      BY <1>1, <2>1, <3>3, InvokeFits
    <3> QED
      BY <2>3, <3>1, <3>2, <3>3
  <2>4. CASE PeerMoves \/ UNCHANGED vars
    <3>1. SameRequest(j)
      BY <2>4 DEF PeerMoves, SwapPeers, Join, Drop, Leave, vars, requestVars, SameRequest
    <3> QED
      BY <2>2, <3>1
  <2> QED
    BY <2>3, <2>4, NextMoves
<1> QED
  BY <1>2, <1>3, <1>4, <1>5 DEF RoutingInv

(* The invariant holds of every state of a server that routes requests.       *)
THEOREM RoutingCorrect == Spec => []RoutingInv
<1>1. Init => RoutingInv
  <2> SUFFICES ASSUME Init PROVE RoutingInv
    OBVIOUS
  <2>1. TypeOK /\ Known /\ HeardFits
    BY TypeInit DEF Init, Known, HeardFits
  <2>2. ASSUME NEW q \in Requests PROVE Begun(q) /\ Accounted(q) /\ Telling(q)
    <3>1. Asked(q) = {} /\ entries[q] = <<>> /\ stage[q] = "idle" /\ next[q] = 1
      BY DEF Init, Asked
    <3>2. \A p \in Peers : calls[q][p] = "none"
      BY DEF Init
    <3> QED
      BY <3>1, <3>2 DEF Begun, Accounted, Telling, Routed
  <2> QED
    BY <2>1, <2>2 DEF RoutingInv
<1> QED
  BY <1>1, RoutingStep, PTL DEF Spec

(* Every variable keeps its type; in particular what is about to be written    *)
(* to a caller is an answer (server.go:450 to 511).                           *)
THEOREM RoutingTypeCorrect == Spec => []TypeOK
<1>1. RoutingInv => TypeOK
  BY DEF RoutingInv
<1> QED
  BY <1>1, RoutingCorrect, PTL

(* A fan-out's answer accounts for every peer that was asked, once, and for    *)
(* no other (routing.go:166).                                                 *)
THEOREM AggregateCorrect == Spec => []AggregateIsComplete
<1>1. RoutingInv => AggregateIsComplete
  <2> SUFFICES ASSUME RoutingInv, NEW q \in Requests, Routed(q)
               PROVE  /\ {e.peer : e \in {entries[q][i] : i \in DOMAIN entries[q]}} = Asked(q)
                      /\ \A i, j \in DOMAIN entries[q] : entries[q][i].peer = entries[q][j].peer => i = j
                      /\ FanOut(msg[q]) => from[q] \notin Asked(q)
                      /\ \A i \in DOMAIN entries[q] :
                           entries[q][i].ok => <<q, entries[q][i].peer, TRUE>> \in replied
    BY DEF AggregateIsComplete
  <2>1. Begun(q) /\ Accounted(q) /\ TypeOK
    BY DEF RoutingInv
  <2>2. \A p \in Peers : p \in Asked(q) <=> \E i \in DOMAIN entries[q] : entries[q][i].peer = p
    BY <2>1 DEF Begun, Accounted, Asked, Routed
  <2>3. \A i \in DOMAIN entries[q] : entries[q][i].peer \in Peers
    <3>1. entries[q] \in Seq(Entry)
      BY <2>1 DEF TypeOK
    <3> QED
      BY <3>1, EntryPeer
  <2>4. {e.peer : e \in {entries[q][i] : i \in DOMAIN entries[q]}} = Asked(q)
    BY <2>2, <2>3 DEF Asked
  <2> QED
    BY <2>1, <2>4 DEF Begun, Accounted, Routed
<1> QED
  BY <1>1, RoutingCorrect, PTL

(* The caller of a full-broadcast gets its answer after everybody who was      *)
(* asked has heard the rest (routing.go:96).                                  *)
THEOREM HeardCorrect == Spec => []HeardBeforeAnswer
<1>1. RoutingInv => HeardBeforeAnswer
  <2> SUFFICES ASSUME RoutingInv, NEW q \in Requests, Routed(q), FanOut(msg[q]),
                      msg[q].routing = "full-broadcast", NEW p \in Asked(q), NEW x \in Asked(q),
                      p # x, p \in peers, conn[p] = "on"
               PROVE  <<p, q, x>> \in heard
    BY DEF HeardBeforeAnswer
  <2>1. Begun(q) /\ Accounted(q) /\ Telling(q)
    BY DEF RoutingInv
  <2>2. PICK i \in DOMAIN entries[q] : entries[q][i].peer = x
    BY <2>1 DEF Begun, Accounted, Asked, Routed
  <2>3. p \in Concerned(q, x)
    BY <2>1 DEF Concerned, Begun, Routed
  <2> QED
    BY <2>1, <2>2, <2>3 DEF Telling, Told
<1> QED
  BY <1>1, RoutingCorrect, PTL

(* An announcement goes neither to the caller nor to the peer it is about, and *)
(* follows the end of all calls (routing.go:96 and 133).                      *)
THEOREM AnnouncedCorrect == Spec => []AnnouncedToOthers
<1>1. RoutingInv => AnnouncedToOthers
  <2> SUFFICES ASSUME RoutingInv, NEW h \in heard
               PROVE  /\ h[1] \notin {from[h[2]], h[3]}
                      /\ \A p \in Asked(h[2]) : calls[h[2]][p] = "ended"
    BY DEF AnnouncedToOthers
  <2>1. PICK q \in Requests : q = h[2]
    BY DEF RoutingInv, TypeOK
  <2>2. h[1] \notin {from[q], h[3]} /\ stage[q] \in {"announce", "notify", "reply", "done"}
    BY <2>1 DEF RoutingInv, HeardFits
  <2>3. \A p \in Peers : calls[q][p] \in {"none", "ended"}
    BY <2>2 DEF RoutingInv, Begun
  <2> QED
    BY <2>1, <2>2, <2>3 DEF Asked
<1> QED
  BY <1>1, RoutingCorrect, PTL

-----------------------------------------------------------------------------
(* What is refused.                                                         *)

(* The test that decides is the first that applies.                           *)
LEMMA FirstTest ==
  ASSUME NEW m
  PROVE  \E k \in 1..11 : /\ Verdict(m) = Tests(m)[k][2] /\ Tests(m)[k][1]
                          /\ \A i \in 1..11 : Tests(m)[i][1] => k <= i
<1> DEFINE applies == {i \in DOMAIN Tests(m) : Tests(m)[i][1]}
<1>1. DOMAIN Tests(m) = 1..11
  BY DEF Tests
<1>2. 11 \in applies
  <2>1. Tests(m)[11] = <<TRUE, "handler">>
    BY DEF Tests
  <2>2. Tests(m)[11][1]
    BY <2>1
  <2> QED
    BY <1>1, <2>2
<1>3. \E x \in applies : \A y \in applies : x <= y
  BY <1>1, <1>2
<1>4. Min(applies) \in applies /\ \A y \in applies : Min(applies) <= y
  BY <1>3 DEF Min
<1>5. PICK k : k = Min(applies)
  OBVIOUS
<1>6. Verdict(m) = Tests(m)[k][2]
  BY <1>5 DEF Verdict
<1> QED
  BY <1>1, <1>4, <1>5, <1>6

Refusals == {"invalid request", "invalid params"}

(* The tests in their order refuse exactly the malformed requests, and only    *)
(* fan-outs take a snapshot of the peers.                                    *)
LEMMA VerdictMeans ==
  ASSUME NEW m \in Messages
  PROVE  /\ Verdict(m) \in Refusals <=> ~WellFormed(m)
         /\ Verdict(m) = "snapshot" => FanOut(m)
<1>1. PICK k \in 1..11 : /\ Verdict(m) = Tests(m)[k][2] /\ Tests(m)[k][1]
                         /\ \A i \in 1..11 : Tests(m)[i][1] => k <= i
  BY FirstTest
<1>2. /\ Tests(m)[1][1] <=> m.version # "2.0"
      /\ Tests(m)[2][1] <=> m.method = "blank"
      /\ Tests(m)[3][1] <=> m.method \in {"rpc.heartbeat", "rpc.peers"}
      /\ Tests(m)[4][1] <=> m.params # "object"
      /\ Tests(m)[5][1] <=> m.routing = "unsupported" \/ m.peer = "blank"
      /\ Tests(m)[6][1] <=> m.method = "*.blank"
      /\ Tests(m)[7][1] <=> m.routing = "full-broadcast" /\ ~FanOut(m)
      /\ Tests(m)[8][1] <=> FanOut(m)
  BY DEF Tests
<1>3. /\ Tests(m)[1][2] = "invalid request" /\ Tests(m)[2][2] = "invalid request"
      /\ Tests(m)[3][2] = "result" /\ Tests(m)[4][2] = "invalid params"
      /\ Tests(m)[5][2] = "invalid params" /\ Tests(m)[6][2] = "invalid request"
      /\ Tests(m)[7][2] = "invalid params" /\ Tests(m)[8][2] = "snapshot"
      /\ Tests(m)[9][2] = "exists" /\ Tests(m)[10][2] = "method not found"
      /\ Tests(m)[11][2] = "handler"
  BY DEF Tests
<1>4. \A i \in 1..11 : i < k => ~Tests(m)[i][1]
  BY <1>1
<1>5. CASE k \in {1, 2, 4, 5, 6, 7}
  <2>1. Verdict(m) \in Refusals
    BY <1>1, <1>3, <1>5 DEF Refusals
  <2>2. ~WellFormed(m)
    <3>1. k > 2 => ~(m.method = "blank")
      BY <1>2, <1>4
    <3>2. k > 3 => m.method \notin {"rpc.heartbeat", "rpc.peers"}
      BY <1>2, <1>4
    <3> QED
      BY <1>1, <1>2, <1>5, <3>1, <3>2 DEF WellFormed
  <2> QED
    BY <2>1, <2>2 DEF Refusals
<1>6. CASE k = 3
  <2>1. Verdict(m) = "result"
    BY <1>1, <1>3, <1>6
  <2>2. ~Tests(m)[1][1] /\ ~Tests(m)[2][1] /\ Tests(m)[3][1]
    BY <1>1, <1>4, <1>6
  <2> QED
    BY <1>2, <2>1, <2>2 DEF WellFormed, Refusals
<1>7. CASE k \in {8, 9, 10, 11}
  <2>1. Verdict(m) \notin Refusals
    BY <1>1, <1>3, <1>7 DEF Refusals
  <2>2. WellFormed(m)
    <3>1. \A i \in 1..7 : ~Tests(m)[i][1]
      BY <1>4, <1>7
    <3> QED
      BY <1>2, <3>1 DEF WellFormed
  <2>3. Verdict(m) = "snapshot" => FanOut(m)
    <3>1. Verdict(m) = "snapshot" => k = 8
      BY <1>1, <1>3, <1>7
    <3> QED
      BY <1>1, <1>2, <3>1
  <2> QED
    BY <2>1, <2>2, <2>3
<1> QED
  BY <1>1, <1>5, <1>6, <1>7

(* A request that is not answered yet has passed the tests; what it asked was   *)
(* for it to ask.                                                           *)
Decided(q) ==
  /\ stage[q] \notin {"reply", "done"} => answer[q] = None
  /\ stage[q] # "idle" => (answer[q] \in Refusals <=> ~WellFormed(msg[q]))
  /\ stage[q] = "snapshot" => FanOut(msg[q])
  /\ Asked(q) # {} => WellFormed(msg[q]) /\ (FanOut(msg[q]) \/ Asked(q) = {msg[q].peer})
  /\ stage[q] = "idle" => q \notin delivered
  /\ stage[q] = "reply" \/ q \in delivered => msg[q].id

LEMMA DecidedSame ==
  ASSUME NEW q \in Requests, Decided(q), SameRequest(q), q \in delivered' <=> q \in delivered
  PROVE  Decided(q)'
<1>1. Asked(q)' = Asked(q)
  BY DEF SameRequest, Asked
<1> QED
  BY <1>1 DEF Decided, SameRequest, WellFormed, FanOut

LEMMA InvokeAsks ==
  ASSUME CallType, NEW q \in Requests, NEW p \in Peers, InvokeMoves(q, p)
  PROVE  Asked(q)' = Asked(q)
<1>1. \E c \in {"write", "sent", "ended"} : calls' = [calls EXCEPT ![q][p] = c]
  BY DEF InvokeMoves, InvokeStep, LookupPeer, WritePeer, PeerReplies, CallEnds, EndCall
<1>2. calls[q][p] # "none"
  BY DEF InvokeMoves, InvokeStep, LookupPeer, WritePeer, PeerReplies, CallEnds
<1>3. PICK c \in {"write", "sent", "ended"} : calls' = [calls EXCEPT ![q][p] = c]
  BY <1>1
<1>4. calls'[q] = [calls[q] EXCEPT ![p] = c]
      /\ calls[q] \in [Peers -> {"none", "start", "write", "sent", "ended"}]
  BY <1>3 DEF CallType
<1>5. \A x \in Peers : calls'[q][x] = "none" <=> calls[q][x] = "none"
  BY <1>2, <1>4
<1> QED
  BY <1>5 DEF Asked

(* The end of a request that passed the tests.                               *)
LEMMA DecidedAnswer ==
  ASSUME StageType, NEW q \in Requests, Decided(q), NEW a \in Answers \ Refusals,
         AnswerWith(q, msg[q], a), UNCHANGED <<msg, calls, delivered>>,
         stage[q] \notin {"idle", "reply", "done"}
  PROVE  Decided(q)'
<1>1. answer[q] \notin Refusals
  BY DEF Decided, Refusals, Answers
<1>2. WellFormed(msg[q])
  BY <1>1 DEF Decided
<1>3. Asked(q)' = Asked(q)
  BY DEF Asked
<1>4. /\ answer'[q] = a /\ msg'[q] = msg[q]
      /\ stage'[q] \in {"reply", "done"} /\ (stage'[q] = "reply" => msg[q].id)
  BY DEF StageType, AnswerWith
<1> QED
  BY <1>2, <1>3, <1>4 DEF Decided, WellFormed, FanOut

(* A request that goes on.                                                  *)
LEMMA DecidedStep ==
  ASSUME StageType, NEW q \in Requests, Decided(q), stage[q] # "idle",
         NEW t \in {"gather", "announce", "notify", "done"},
         stage' = [stage EXCEPT ![q] = t], UNCHANGED <<msg, calls, answer, delivered>>,
         stage[q] \notin {"reply", "done"}
  PROVE  Decided(q)'
<1>1. Asked(q)' = Asked(q)
  BY DEF Asked
<1>2. stage'[q] = t
  BY DEF StageType
<1> QED
  BY <1>1, <1>2 DEF Decided, WellFormed, FanOut

LEMMA DecidedMoves ==
  ASSUME TypeOK, NEW q \in Requests, Begun(q), Decided(q),
         RequestMoves(q) \/ \E p \in Peers : InvokeMoves(q, p)
  PROVE  Decided(q)'
<1>0. PeerType /\ StageType /\ CallType
  BY TypeParts
<1>1. ASSUME NEW p \in Peers, NEW m \in Messages, Arrive(q, p, m) PROVE Decided(q)'
  <2>1. msg'[q] = m /\ Asked(q)' = {} /\ q \notin delivered' /\ stage[q] = "idle" /\ answer[q] = None
    BY <1>0, <1>1 DEF StageType, Arrive, Begun, Decided, Asked
  <2>2. PICK a : a = Verdict(m)
    OBVIOUS
  <2>3. (a \in Refusals <=> ~WellFormed(m)) /\ (a = "snapshot" => FanOut(m))
    BY <2>2, VerdictMeans
  <2>4. CASE a \in {"snapshot", "exists", "handler"}
    <3>1. stage'[q] = a /\ answer'[q] = None
      BY <1>0, <1>1, <2>1, <2>2, <2>4 DEF StageType, Arrive
    <3>2. a \notin Refusals /\ None \notin Refusals
      BY <2>4 DEF Refusals, Answers
    <3>3. WellFormed(msg'[q])
      BY <2>1, <2>3, <3>2
    <3>4. a = "snapshot" => FanOut(msg'[q])
      BY <2>1, <2>3
    <3> QED
      BY <2>1, <2>4, <3>1, <3>2, <3>3, <3>4 DEF Decided, WellFormed, FanOut
  <2>5. CASE a \notin {"snapshot", "exists", "handler"}
    <3>1. /\ answer'[q] = a /\ stage'[q] \in {"reply", "done"}
          /\ stage'[q] = "reply" => m.id
      BY <1>0, <1>1, <2>2, <2>5 DEF StageType, Arrive, AnswerWith
    <3>2. answer'[q] \in Refusals <=> ~WellFormed(msg'[q])
      BY <2>1, <2>3, <3>1
    <3> QED
      BY <2>1, <3>1, <3>2 DEF Decided, WellFormed, FanOut
  <2> QED
    BY <2>4, <2>5
<1>2. CASE HandlerReturns(q)
  <2>1. PICK a \in {"result", "error"} : AnswerWith(q, msg[q], a)
    BY <1>2 DEF HandlerReturns
  <2>2. a \in Answers \ Refusals
    BY DEF Answers, Refusals
  <2> QED
    BY <1>0, <1>2, <2>1, <2>2, DecidedAnswer DEF HandlerReturns
<1>3. CASE HandlerEnds(q)
  BY <1>0, <1>3, DecidedStep DEF HandlerEnds
<1>4. CASE PeerExists(q) \/ Snapshot(q)
  <2>1. stage[q] \in {"exists", "snapshot"} /\ UNCHANGED <<msg, delivered>>
    BY <1>4 DEF PeerExists, Snapshot
  <2>2. CASE \E a \in Answers \ Refusals : AnswerWith(q, msg[q], a) /\ UNCHANGED calls
    BY <1>0, <2>1, <2>2, DecidedAnswer
  <2>3. ASSUME NEW ps \in SUBSET Peers, InvokeAll(q, ps), FanOut(msg[q]) \/ ps = {msg[q].peer}
        PROVE  Decided(q)'
    <3>1. stage'[q] = "gather" /\ answer'[q] = None /\ msg'[q] = msg[q]
      BY <1>0, <2>1, <2>3 DEF StageType, InvokeAll, Decided
    <3>2. Asked(q)' = ps
      <4>1. calls'[q] = [p \in Peers |-> IF p \in ps THEN "start" ELSE "none"]
        BY <1>0, <2>3 DEF CallType, InvokeAll
      <4> QED
        BY <2>3, <4>1 DEF Asked
    <3>3. answer[q] = None /\ None \notin Refusals
      BY <2>1 DEF Decided, Refusals, Answers
    <3>4. WellFormed(msg[q])
      BY <2>1, <3>3 DEF Decided
    <3> QED
      BY <2>1, <2>3, <3>1, <3>2, <3>3, <3>4 DEF Decided, WellFormed, FanOut
  <2>4. CASE PeerExists(q) /\ msg[q].peer \in peers
    <3>1. {msg[q].peer} \in SUBSET Peers
      BY <1>0, <2>4 DEF PeerType
    <3> QED
      BY <2>3, <2>4, <3>1 DEF PeerExists
  <2>5. CASE Snapshot(q) /\ Targets(q) # {}
    <3>1. Targets(q) \in SUBSET Peers /\ FanOut(msg[q])
      BY <1>0, <2>5 DEF PeerType, Targets, Snapshot, Decided
    <3> QED
      BY <2>3, <2>5, <3>1 DEF Snapshot
  <2>6. /\ "peer not found" \in Answers \ Refusals
        /\ "no connected peers" \in Answers \ Refusals
    BY DEF Answers, Refusals
  <2> QED
    BY <1>4, <2>2, <2>4, <2>5, <2>6 DEF PeerExists, Snapshot
<1>5. CASE Gathered(q) \/ AllAnnounced(q)
  <2>1. RoutedAnswer(q) \in Answers \ Refusals
    BY DEF RoutedAnswer, Answers, Refusals
  <2> QED
    BY <1>0, <1>5, <2>1, DecidedAnswer, DecidedStep DEF Gathered, AllAnnounced
<1>6. CASE Announce(q) \/ Notified(q)
  BY <1>0, <1>6, DecidedStep DEF Announce, Notified
<1>7. CASE Reply(q)
  <2>1. stage'[q] = "done" /\ UNCHANGED <<msg, calls, answer>> /\ stage[q] = "reply"
    BY <1>0, <1>7 DEF StageType, Reply
  <2>2. Asked(q)' = Asked(q)
    BY <2>1 DEF Asked
  <2> QED
    BY <2>1, <2>2 DEF Decided, WellFormed, FanOut
<1>8. CASE \/ \E p \in Peers : Notify(q, p)
           \/ \E p \in Peers : InvokeMoves(q, p)
  <2>1. UNCHANGED <<stage, msg, answer, delivered>>
    BY <1>8 DEF Notify, InvokeMoves, InvokeStep, LookupPeer, WritePeer, PeerReplies, CallEnds,
       CallVars
  <2>2. Asked(q)' = Asked(q)
    <3>1. ASSUME NEW p \in Peers, Notify(q, p) PROVE Asked(q)' = Asked(q)
      BY <3>1 DEF Notify, Asked
    <3> QED
      BY <1>0, <1>8, <3>1, InvokeAsks
  <2> QED
    BY <2>1, <2>2 DEF Decided, WellFormed, FanOut
<1> QED
  BY <1>1, <1>2, <1>3, <1>4, <1>5, <1>6, <1>7, <1>8 DEF RequestMoves, RequestStep

(* The requests refused as invalid are exactly the malformed ones, the others  *)
(* reach the peers their method or hint names, and a notification gets no      *)
(* answer (server.go:419 to 484, routing.go:29).                              *)
THEOREM RefusedCorrect == Spec => []OnlyMalformedRefused
<1> DEFINE AllDecided == \A q \in Requests : Decided(q)
<1>1. Init => AllDecided
  BY DEF Init, Decided, Asked
<1>2. RoutingInv /\ AllDecided /\ [Next]_vars => AllDecided'
  <2> SUFFICES ASSUME RoutingInv, AllDecided, [Next]_vars, NEW j \in Requests PROVE Decided(j)'
    OBVIOUS
  <2>0. TypeOK /\ Begun(j) /\ Decided(j)
    BY DEF RoutingInv
  <2>1. CASE PeerMoves \/ UNCHANGED vars
    <3>1. SameRequest(j) /\ UNCHANGED delivered
      BY <2>1 DEF PeerMoves, SwapPeers, Join, Drop, Leave, vars, requestVars, SameRequest
    <3> QED
      BY <2>0, <3>1, DecidedSame
  <2>2. ASSUME NEW q \in Requests, RequestMoves(q) \/ \E p \in Peers : InvokeMoves(q, p)
        PROVE  Decided(j)'
    <3>1. CASE j = q
      BY <2>0, <2>2, <3>1, DecidedMoves
    <3>2. CASE j # q
      <4>1. SameRequest(j)
        BY <2>0, <2>2, <3>2, OtherRequests
      <4>2. j \in delivered' <=> j \in delivered
        BY <2>2, <3>2 DEF RequestMoves, RequestStep, Arrive, HandlerReturns, HandlerEnds,
           PeerExists, Snapshot, Gathered, Announce, Notify, Notified, AllAnnounced, Reply,
           InvokeMoves, InvokeStep, LookupPeer, WritePeer, PeerReplies, CallEnds, CallVars
      <4> QED
        BY <2>0, <4>1, <4>2, DecidedSame
    <3> QED
      BY <3>1, <3>2
  <2> QED
    BY <2>1, <2>2, NextMoves
<1>3. RoutingInv /\ AllDecided => OnlyMalformedRefused
  <2> SUFFICES ASSUME RoutingInv, AllDecided, NEW q \in Requests, stage[q] # "idle"
               PROVE  /\ answer[q] \in {"invalid request", "invalid params"} <=> ~WellFormed(msg[q])
                      /\ Asked(q) # {} => /\ WellFormed(msg[q])
                                          /\ FanOut(msg[q]) \/ Asked(q) = {msg[q].peer}
                      /\ q \in delivered => msg[q].id
    BY DEF OnlyMalformedRefused
  <2>1. Decided(q)
    OBVIOUS
  <2> QED
    BY <2>1 DEF Decided, Refusals
<1> HIDE DEF AllDecided
<1> QED
  BY <1>1, <1>2, <1>3, RoutingCorrect, PTL DEF Spec
=============================================================================
