------------------------------ MODULE Routing ------------------------------
(***************************************************************************)
(* What the Holon-RPC server does with the requests of its peers           *)
(* (handlePeerRequest in pkg/holonrpc/server.go, and routing.go): each runs *)
(* in a goroutine of its own and is refused, answered by the server itself, *)
(* given to a registered handler, passed on to one other peer, or fanned    *)
(* out to all of them and aggregated; the results that were passed on may   *)
(* be announced to the other peers before the caller gets its answer.       *)
(*                                                                         *)
(* Peers connect, and leave the map, at any time.  Invoke towards a peer is *)
(* modelled down to its lookup, its write and its end; its bookkeeping is   *)
(* in module Server.                                                       *)
(***************************************************************************)
EXTENDS Naturals, Sequences, FiniteSetsExt

CONSTANTS Peers,
          Stalled,      \* peers that may stop reading what is sent to them
          Requests,     \* requests the peers send
          Messages,     \* the request messages considered
          None

Answers == {"result", "entries", "error", "invalid request", "invalid params",
            "method not found", "peer not found", "no connected peers"}

ASSUME RoutingNoneAssumption == None \notin Peers \cup Answers
ASSUME StalledAssumption == Stalled \subseteq Peers

(* The shapes of a request, as far as its treatment depends on them.         *)
Shapes ==
  [id : BOOLEAN, version : {"2.0", "other"},
   method : {"blank", "rpc.heartbeat", "rpc.peers", "known", "unknown", "*.known", "*.blank"},
   params : {"object", "other"},
   routing : {"absent", "default", "broadcast-response", "full-broadcast", "unsupported"},
   peer : Peers \cup {"absent", "blank"}]
ASSUME MessagesAssumption == Messages \subseteq Shapes

VARIABLES
  conn, peers,          \* each connection; s.peers
  stage, from, msg,     \* each request: where its goroutine is, who sent what
  calls,                \* its Invoke towards each peer
  entries,              \* what those ended with, in that order
  next, recipients,     \* the entry being announced, and to whom still
  answer,               \* what it is answered with
  delivered,            \* requests whose answer was written to a standing connection
  replied, heard        \* history: replies of peers, announcements received

peerVars == <<conn, peers>>
requestVars == <<stage, from, msg, calls, entries, next, recipients, answer, delivered>>
history == <<replied, heard>>
vars == <<peerVars, requestVars, history>>

Entry == [peer : Peers, ok : BOOLEAN]

TypeOK ==
  /\ conn \in [Peers -> {"away", "on", "gone"}] /\ peers \subseteq Peers
  /\ stage \in [Requests -> {"idle", "handler", "exists", "snapshot", "gather",
                             "announce", "notify", "reply", "done"}]
  /\ from \in [Requests -> Peers \cup {None}]
  /\ msg \in [Requests -> Messages \cup {None}]
  /\ calls \in [Requests -> [Peers -> {"none", "start", "write", "sent", "ended"}]]
  /\ entries \in [Requests -> Seq(Entry)]
  /\ next \in [Requests -> Nat \ {0}] /\ recipients \in [Requests -> SUBSET Peers]
  /\ answer \in [Requests -> Answers \cup {None}] /\ delivered \subseteq Requests
  /\ \A q \in Requests : stage[q] = "reply" => answer[q] # None
  /\ replied \subseteq Requests \X Peers \X BOOLEAN
  /\ heard \subseteq Peers \X Requests \X Peers

Init ==
  /\ conn = [p \in Peers |-> "away"] /\ peers = {}
  /\ stage = [q \in Requests |-> "idle"]
  /\ from = [q \in Requests |-> None] /\ msg = [q \in Requests |-> None]
  /\ calls = [q \in Requests |-> [p \in Peers |-> "none"]]
  /\ entries = [q \in Requests |-> <<>>]
  /\ next = [q \in Requests |-> 1] /\ recipients = [q \in Requests |-> {}]
  /\ answer = [q \in Requests |-> None] /\ delivered = {}
  /\ replied = {} /\ heard = {}

-----------------------------------------------------------------------------
(* handlePeerRequest and parseRouteHints as the list of their tests: the     *)
(* first that applies decides.                                               *)

FanOut(m) == m.method \in {"*.known", "*.blank"}
Tests(m) ==
  << <<m.version # "2.0",                                   "invalid request">>,
     <<m.method = "blank",                                  "invalid request">>,
     <<m.method \in {"rpc.heartbeat", "rpc.peers"},         "result">>,
     <<m.params # "object",                                 "invalid params">>,
     <<m.routing = "unsupported" \/ m.peer = "blank",       "invalid params">>,
     <<m.method = "*.blank",                                "invalid request">>,
     <<m.routing = "full-broadcast" /\ ~FanOut(m),          "invalid params">>,
     <<FanOut(m),                                           "snapshot">>,
     <<m.peer # "absent",                                   "exists">>,
     <<m.method = "unknown",                                "method not found">>,
     <<TRUE,                                                "handler">> >>
Verdict(m) == LET applies == {i \in DOMAIN Tests(m) : Tests(m)[i][1]}
              IN Tests(m)[Min(applies)][2]

AnswerAlways(q, m, a) ==   \* mutant: notifications are answered
  /\ answer' = [answer EXCEPT ![q] = a]
  /\ stage' = [stage EXCEPT ![q] = "reply"]

(* A request without an id is treated alike and never answered.              *)
AnswerWith(q, m, a) ==
  /\ answer' = [answer EXCEPT ![q] = a]
  /\ stage' = [stage EXCEPT ![q] = IF m.id THEN "reply" ELSE "done"]

Arrive(q, p, m) ==
  /\ stage[q] = "idle" /\ conn[p] = "on"
  /\ from' = [from EXCEPT ![q] = p]
  /\ msg' = [msg EXCEPT ![q] = m]
  /\ IF Verdict(m) \in {"snapshot", "exists", "handler"}
     THEN stage' = [stage EXCEPT ![q] = Verdict(m)] /\ UNCHANGED answer
     ELSE AnswerWith(q, m, Verdict(m))
  /\ UNCHANGED <<peerVars, calls, entries, next, recipients, delivered, history>>

(* callPeerHandler returns what the handler does, or as soon as the caller   *)
(* is gone; a context error of either is not answered.                       *)
HandlerReturns(q) ==
  /\ stage[q] = "handler"
  /\ \E a \in {"result", "error"} : AnswerWith(q, msg[q], a)
  /\ UNCHANGED <<peerVars, from, msg, calls, entries, next, recipients, delivered, history>>

HandlerEnds(q) ==
  /\ stage[q] = "handler"
  /\ stage' = [stage EXCEPT ![q] = "done"]
  /\ UNCHANGED <<peerVars, from, msg, calls, entries, next, recipients, answer, delivered, history>>

-----------------------------------------------------------------------------
(* routePeerRequest: whom to invoke.                                         *)

InvokeAll(q, ps) ==
  /\ calls' = [calls EXCEPT ![q] = [p \in Peers |-> IF p \in ps THEN "start" ELSE "none"]]
  /\ stage' = [stage EXCEPT ![q] = "gather"]
  /\ UNCHANGED answer

PeerExists(q) ==
  /\ stage[q] = "exists"
  /\ IF msg[q].peer \in peers
     THEN InvokeAll(q, {msg[q].peer})
     ELSE AnswerWith(q, msg[q], "peer not found") /\ UNCHANGED calls
  /\ UNCHANGED <<peerVars, from, msg, entries, next, recipients, delivered, history>>

TargetsAndCaller(q) == peers   \* mutant
Targets(q) == peers \ {from[q]}
Snapshot(q) ==
  /\ stage[q] = "snapshot"
  /\ IF Targets(q) # {}
     THEN InvokeAll(q, Targets(q))
     ELSE AnswerWith(q, msg[q], "no connected peers") /\ UNCHANGED calls
  /\ UNCHANGED <<peerVars, from, msg, entries, next, recipients, delivered, history>>

-----------------------------------------------------------------------------
(* Invoke of request q towards p: the lookup, the write, which only the end   *)
(* of p's connection interrupts, and the wait, which the caller's ends too.  *)

CallVars == <<peerVars, stage, from, msg, next, recipients, answer, delivered, heard>>

EndCall(q, p, ok) ==
  /\ calls' = [calls EXCEPT ![q][p] = "ended"]
  /\ entries' = [entries EXCEPT ![q] = Append(@, [peer |-> p, ok |-> ok])]

LookupPeer(q, p) ==
  /\ calls[q][p] = "start"
  /\ IF p \in peers
     THEN calls' = [calls EXCEPT ![q][p] = "write"] /\ UNCHANGED entries
     ELSE EndCall(q, p, FALSE)
  /\ UNCHANGED <<CallVars, replied>>

WritePeer(q, p) ==
  /\ calls[q][p] = "write"
  /\ IF conn[p] = "on"
     THEN calls' = [calls EXCEPT ![q][p] = "sent"] /\ UNCHANGED entries
     ELSE EndCall(q, p, FALSE)
  /\ UNCHANGED <<CallVars, replied>>

PeerReplies(q, p) ==
  /\ calls[q][p] = "sent" /\ conn[p] = "on"
  /\ \E ok \in BOOLEAN : /\ EndCall(q, p, ok)
                         /\ replied' = replied \cup {<<q, p, ok>>}
  /\ UNCHANGED CallVars

WaitForPeer(q, p) == conn[p] = "gone"   \* mutant: the caller's context is ignored
WaitEnded(q, p) == conn[p] = "gone" \/ conn[from[q]] = "gone"
CallEnds(q, p) ==
  /\ calls[q][p] = "sent" /\ WaitEnded(q, p)
  /\ EndCall(q, p, FALSE)
  /\ UNCHANGED <<CallVars, replied>>

-----------------------------------------------------------------------------
(* Back in routePeerRequest: the announcements, then the answer.             *)

Announced(q) == \/ FanOut(msg[q]) /\ msg[q].routing = "full-broadcast"
                \/ /\ ~FanOut(msg[q]) /\ msg[q].routing = "broadcast-response"
                   /\ entries[q][1].ok
RoutedAnswer(q) == IF FanOut(msg[q]) THEN "entries"
                   ELSE IF entries[q][1].ok THEN "result" ELSE "error"

Gathered(q) ==
  /\ stage[q] = "gather" /\ \A p \in Peers : calls[q][p] \in {"none", "ended"}
  /\ IF Announced(q)
     THEN stage' = [stage EXCEPT ![q] = "announce"] /\ UNCHANGED answer
     ELSE AnswerWith(q, msg[q], RoutedAnswer(q))
  /\ UNCHANGED <<peerVars, from, msg, calls, entries, next, recipients, delivered, history>>

(* broadcastNotificationMany: the peers of the moment, one after the other.  *)
TellEverybody(q, p)     == peers \ {from[q]}         \* mutants: the peer itself is told,
TellBystanders(q, p) == {x \in peers \ {from[q]} : calls[q][x] = "none"} \* or no other one
Recipients(q, p) == peers \ {from[q], p}
Announce(q) ==
  /\ stage[q] = "announce" /\ next[q] \in DOMAIN entries[q]
  /\ recipients' = [recipients EXCEPT ![q] = Recipients(q, entries[q][next[q]].peer)]
  /\ stage' = [stage EXCEPT ![q] = "notify"]
  /\ UNCHANGED <<peerVars, from, msg, calls, entries, next, answer, delivered, history>>

Notify(q, p) ==
  /\ stage[q] = "notify" /\ p \in recipients[q]
  /\ recipients' = [recipients EXCEPT ![q] = @ \ {p}]
  /\ heard' = IF conn[p] = "on" THEN heard \cup {<<p, q, entries[q][next[q]].peer>>} ELSE heard
  /\ UNCHANGED <<peerVars, stage, from, msg, calls, entries, next, answer, delivered, replied>>

Notified(q) ==
  /\ stage[q] = "notify" /\ recipients[q] = {}
  /\ next' = [next EXCEPT ![q] = @ + 1]
  /\ stage' = [stage EXCEPT ![q] = "announce"]
  /\ UNCHANGED <<peerVars, from, msg, calls, entries, recipients, answer, delivered, history>>

AllAnnounced(q) ==
  /\ stage[q] = "announce" /\ next[q] \notin DOMAIN entries[q]
  /\ AnswerWith(q, msg[q], RoutedAnswer(q))
  /\ UNCHANGED <<peerVars, from, msg, calls, entries, next, recipients, delivered, history>>

(* sendPeerResult and sendPeerError; the write to a caller that is gone fails. *)
Reply(q) ==
  /\ stage[q] = "reply"
  /\ stage' = [stage EXCEPT ![q] = "done"]
  /\ delivered' = IF conn[from[q]] = "on" THEN delivered \cup {q} ELSE delivered
  /\ UNCHANGED <<peerVars, from, msg, calls, entries, next, recipients, answer, history>>

-----------------------------------------------------------------------------
(* The connections (module Server has them in full): a peer registers, its   *)
(* connection ends, its goroutine or the server's Close removes it.          *)

Join(p) == /\ conn[p] = "away"
           /\ conn' = [conn EXCEPT ![p] = "on"] /\ peers' = peers \cup {p}
           /\ UNCHANGED <<requestVars, history>>
Drop(p) == /\ conn[p] = "on"
           /\ conn' = [conn EXCEPT ![p] = "gone"]
           /\ UNCHANGED <<peers, requestVars, history>>
Leave(p) == /\ conn[p] = "gone" /\ p \in peers
            /\ peers' = peers \ {p}
            /\ UNCHANGED <<conn, requestVars, history>>
SwapPeers == /\ peers # {} /\ peers' = {}
             /\ UNCHANGED <<conn, requestVars, history>>

(* The steps of a request that nothing outside it can hold up, and its       *)
(* writes, which a peer that does not read holds up while it is connected.   *)
RequestStep(q) ==
  \/ PeerExists(q) \/ Snapshot(q) \/ Gathered(q)
  \/ Announce(q) \/ Notified(q) \/ AllAnnounced(q)
InvokeStep(q, p) == LookupPeer(q, p) \/ CallEnds(q, p)
Blocked(p) == p \in Stalled /\ conn[p] = "on"

(* No goroutine is left: the server waits for connections and requests.       *)
Quiet == (\A q \in Requests : stage[q] \in {"idle", "done"}) /\ UNCHANGED vars

Next ==
  \/ \E q \in Requests :
       \/ \E p \in Peers, m \in Messages : Arrive(q, p, m)
       \/ HandlerReturns(q) \/ HandlerEnds(q) \/ RequestStep(q) \/ Reply(q)
       \/ \E p \in Peers : \/ InvokeStep(q, p) \/ WritePeer(q, p)
                           \/ PeerReplies(q, p) \/ Notify(q, p)
  \/ \E p \in Peers : Join(p) \/ Drop(p) \/ Leave(p)
  \/ SwapPeers
  \/ Quiet

Spec == Init /\ [][Next]_vars

(* Goroutines that can run are run, a write to a peer that reads ends, and    *)
(* callPeerHandler returns when the caller is gone.  Peers need not reply.    *)
Fairness ==
  \A q \in Requests :
    /\ WF_vars(RequestStep(q))
    /\ WF_vars(Reply(q) /\ ~Blocked(from[q]))
    /\ WF_vars(HandlerEnds(q) /\ conn[from[q]] = "gone")
    /\ \A p \in Peers : /\ WF_vars(InvokeStep(q, p))
                        /\ WF_vars((WritePeer(q, p) \/ Notify(q, p)) /\ ~Blocked(p))

FairSpec == Spec /\ Fairness

-----------------------------------------------------------------------------
(* Properties.                                                              *)

Asked(q) == {p \in Peers : calls[q][p] # "none"}
Routed(q) == stage[q] \in {"reply", "done"} /\ answer[q] \in {"entries", "result"}
             /\ Asked(q) # {}

(* The server refuses as invalid exactly the requests that are malformed, only *)
(* those it understands reach a peer, and then the peer that was named; a     *)
(* notification gets no answer.  A heartbeat or a list of peers is answered    *)
(* whatever its parameters are.                                              *)
WellFormed(m) ==
  /\ m.version = "2.0" /\ m.method # "blank"
  /\ \/ m.method \in {"rpc.heartbeat", "rpc.peers"}
     \/ /\ m.params = "object" /\ m.routing # "unsupported" /\ m.peer # "blank"
        /\ m.method # "*.blank"
        /\ m.routing = "full-broadcast" => FanOut(m)
OnlyMalformedRefused ==
  \A q \in Requests : stage[q] # "idle" =>
    /\ answer[q] \in {"invalid request", "invalid params"} <=> ~WellFormed(msg[q])
    /\ Asked(q) # {} => WellFormed(msg[q]) /\ (FanOut(msg[q]) \/ Asked(q) = {msg[q].peer})
    /\ q \in delivered => msg[q].id

(* An aggregated answer has one entry for every peer that was asked, none for *)
(* the caller, and an entry is a success only if that peer replied so.        *)
AggregateIsComplete ==
  \A q \in Requests : Routed(q) =>
    /\ {e.peer : e \in {entries[q][i] : i \in DOMAIN entries[q]}} = Asked(q)
    /\ \A i, j \in DOMAIN entries[q] : entries[q][i].peer = entries[q][j].peer => i = j
    /\ FanOut(msg[q]) => from[q] \notin Asked(q)
    /\ \A i \in DOMAIN entries[q] :
         entries[q][i].ok => <<q, entries[q][i].peer, TRUE>> \in replied

(* When a fan-out in full-broadcast mode is answered, every peer that was     *)
(* asked and is still there has heard of the outcome of every other one.      *)
HeardBeforeAnswer ==
  \A q \in Requests :
    Routed(q) /\ FanOut(msg[q]) /\ msg[q].routing = "full-broadcast" =>
      \A p, x \in Asked(q) : p # x /\ p \in peers /\ conn[p] = "on" => <<p, q, x>> \in heard

(* An announcement goes neither to the caller nor to the peer it is about,    *)
(* and never precedes the end of the calls it sums up.                       *)
AnnouncedToOthers ==
  \A h \in heard :
    /\ h[1] \notin {from[h[2]], h[3]}
    /\ \A p \in Asked(h[2]) : calls[h[2]][p] = "ended"

(* However peers come and go, a request whose caller is gone ends, and so does *)
(* one that is passed on to peers that have all gone, so that the caller is   *)
(* not left without an answer -- unless a connected peer does not read.        *)
LossEndsRequests ==
  \A q \in Requests :
    (\/ stage[q] # "idle" /\ conn[from[q]] = "gone"
     \/ stage[q] = "gather" /\ (\A p \in Asked(q) : conn[p] = "gone"))
      ~> stage[q] = "done" \/ \E p \in Peers : Blocked(p)
=============================================================================
