---------------------------- MODULE MCWebBridge ----------------------------
(* Small instances of WebBridge for TLC.                                   *)
EXTENDS WebBridge, TLC
CONSTANTS r1, i1, i2

(* The handler of a request calls the browser back, onConnect calls it, too. *)
TwoInvokes == {i1, i2}
WithinFirst == i1 :> r1 @@ i2 :> None
=============================================================================
