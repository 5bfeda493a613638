------------------------------ MODULE MCClient ------------------------------
(* Small instances of Client for TLC.                                      *)
EXTENDS Client, TLC

OnlyReconnect == {"ConnectWithReconnect"}
OnlyConnect == {"Connect"}
=============================================================================
