-------------------------------- MODULE Rpc --------------------------------
(***************************************************************************)
(* What one request between two ends of a Holon-RPC connection promises,   *)
(* whichever end makes it and whatever else goes on: the callee takes it up *)
(* at most once, and only if it was made; the caller gets an answer only if *)
(* the callee has come to one, and gets that one.  Anything may fail, and a *)
(* caller that has given up may still be served.                           *)
(***************************************************************************)
CONSTANTS Calls, Verdicts, None
VARIABLES caller,    \* each call at its caller: "idle", "open", "failed" or a verdict
          callee     \* each call at its callee: "idle", "running", "silent" or a verdict

rpcVars == <<caller, callee>>

Init == /\ caller = [k \in Calls |-> "idle"]
        /\ callee = [k \in Calls |-> "idle"]

Moves(f, k, from, to) == f[k] = from /\ f' = [f EXCEPT ![k] = to]

Ask(k)    == Moves(caller, k, "idle", "open") /\ UNCHANGED callee
Run(k)    == Moves(callee, k, "idle", "running") /\ caller[k] # "idle" /\ UNCHANGED caller
Refuse(k) == /\ \E v \in Verdicts \cup {"silent"} : Moves(callee, k, "idle", v)
             /\ caller[k] # "idle" /\ UNCHANGED caller
Finish(k) == (\E v \in Verdicts \cup {"silent"} : Moves(callee, k, "running", v)) /\ UNCHANGED caller
Answer(k) == /\ callee[k] \in Verdicts
             /\ Moves(caller, k, "open", callee[k]) /\ UNCHANGED callee
Fail(k)   == Moves(caller, k, "open", "failed") /\ UNCHANGED callee

Next == \E k \in Calls : Ask(k) \/ Run(k) \/ Refuse(k) \/ Finish(k) \/ Answer(k) \/ Fail(k)

Spec == Init /\ [][Next]_rpcVars

-----------------------------------------------------------------------------
(* What follows for those who call.                                         *)
TypeOK == /\ caller \in [Calls -> Verdicts \cup {"idle", "open", "failed"}]
          /\ callee \in [Calls -> Verdicts \cup {"idle", "running", "silent"}]

(* Nobody serves what was not asked, and nobody is told what the callee of    *)
(* this very call has not come to.                                          *)
Honest == \A k \in Calls : /\ callee[k] # "idle" => caller[k] # "idle"
                           /\ caller[k] \in Verdicts => callee[k] = caller[k]

(* A call is taken up once and comes to one end, and its caller is told once. *)
Settled(f, k) == f[k] \in Verdicts \cup {"failed", "silent"}
Final == \A k \in Calls : /\ Settled(caller, k) => caller'[k] = caller[k]
                          /\ Settled(callee, k) => callee'[k] = callee[k]
                          /\ callee[k] = "running" => callee'[k] # "idle"
OnceForAll == [][Final]_rpcVars
=============================================================================
