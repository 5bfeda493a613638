---------------------------- MODULE MCExchange ----------------------------
(* Small instances of Exchange for TLC.                                    *)
EXTENDS Exchange, TLC
CONSTANTS k1, k2, k3

(* The client calls, the server's handler calls back, and the server calls  *)
(* the client at the same time.                                            *)
ThreeCalls == {k1, k2, k3}
CallersOfThree == k1 :> "client" @@ k2 :> "server" @@ k3 :> "server"
NestedInFirst == k1 :> None @@ k2 :> k1 @@ k3 :> None

Own(e) == [id |-> IF e = "server" THEN "s string" ELSE "string", version |-> "2.0",
           method |-> "known", params |-> "object"]
Known == {Own("client"), Own("server")}
Notification == [Own("server") EXCEPT !.id = "null"]
Considered == Known \cup {Notification}
SomeFrames == {[text |-> FALSE, json |-> "any", id |-> "absent"],
               [text |-> TRUE, json |-> "envelope", id |-> "number"]}
=============================================================================
