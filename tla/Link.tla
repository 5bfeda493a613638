-------------------------------- MODULE Link --------------------------------
(***************************************************************************)
(* What the connection management of the Holon-RPC client promises to      *)
(* everything above it: one connection at a time, each with one receiver   *)
(* of its own that is gone before the next connection is attached; and a   *)
(* Close that is final and ends the receiver.  ClientLifecycle implements  *)
(* it where one goroutine at a time may connect (OneWayIn).                *)
(***************************************************************************)
CONSTANTS Conns, None
VARIABLES link,         \* the connection in use
          live,         \* the connections somebody still receives from
          shut

linkVars == <<link, live, shut>>

Init == link = None /\ live = {} /\ shut = FALSE

Attach(c) == ~shut /\ link = None /\ live = {} /\ link' = c /\ live' = {c} /\ UNCHANGED shut
Detach    == ~shut /\ link # None /\ link' = None /\ live' = {} /\ UNCHANGED shut
Shut      == ~shut /\ shut' = TRUE /\ link' = None /\ UNCHANGED live
Drain     == shut /\ live # {} /\ live' = {} /\ UNCHANGED <<link, shut>>

Next == (\E c \in Conns : Attach(c)) \/ Detach \/ Shut \/ Drain

Spec == Init /\ [][Next]_linkVars
=============================================================================
