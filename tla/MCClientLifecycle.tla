------------------------- MODULE MCClientLifecycle -------------------------
(* Small instances of ClientLifecycle for TLC.                             *)
EXTENDS ClientLifecycle, TLC

OnlyReconnect == {"ConnectWithReconnect"}
OnlyConnect == {"Connect"}
BothModes == {"Connect", "ConnectWithReconnect"}

Symmetric == Permutations(Conns) \cup Permutations(Connectors) \cup Permutations(Sessions)
=============================================================================
