----------------------------- MODULE MCRouting -----------------------------
(* Small instances of Routing for TLC.                                     *)
EXTENDS Routing, TLC

Plain == [id |-> TRUE, version |-> "2.0", method |-> "known",
          params |-> "object", routing |-> "absent", peer |-> "absent"]
FanOutMessage == [Plain EXCEPT !.method = "*.known"]
FullBroadcast == [FanOutMessage EXCEPT !.routing = "full-broadcast"]
UnicastTo(p)  == [Plain EXCEPT !.peer = p, !.routing = "broadcast-response"]

Routings   == {FanOutMessage, FullBroadcast, [FullBroadcast EXCEPT !.id = FALSE]}
              \cup {UnicastTo(p) : p \in Peers}

(* Together with the routed requests: those with up to two peculiarities.    *)
Faults(m) == Cardinality({f \in {"version", "method", "params", "routing", "peer"} :
                            m[f] # Plain[f]})
Mixed == Routings \cup {m \in Shapes : m.peer \in {"absent", "blank"} /\ Faults(m) <= 2}
=============================================================================
