------------------------------ MODULE MCServer ------------------------------
(* Small instances of Server for TLC.                                      *)
EXTENDS Server, TLC

Symmetric == Permutations(Peers \ Talkers) \cup Permutations(Talkers) \cup Permutations(Starters)
             \cup Permutations(Waiters) \cup Permutations(Calls)
=============================================================================
