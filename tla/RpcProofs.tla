----------------------------- MODULE RpcProofs -----------------------------
(***************************************************************************)
(* What the abstract Rpc promises, proved; ExchangeProofs and               *)
(* WebBridgeProofs carry it over to their connections.                     *)
(***************************************************************************)
EXTENDS Rpc, TLAPS

Distinct == Verdicts \cap {"idle", "open", "running", "silent", "failed"} = {}
RpcInv == TypeOK /\ Honest

(* Each step of a caller or a callee keeps them honest.                      *)
LEMMA RpcKept ==
  ASSUME Distinct, RpcInv, [Next]_rpcVars PROVE RpcInv'
<1>1. CASE UNCHANGED rpcVars
  BY <1>1 DEF RpcInv, TypeOK, Honest, rpcVars
<1>2. ASSUME NEW k \in Calls, Ask(k) \/ Run(k) \/ Refuse(k) \/ Finish(k) \/ Answer(k) \/ Fail(k)
      PROVE  RpcInv'
  BY <1>2 DEF RpcInv, TypeOK, Honest, Distinct, Ask, Run, Refuse, Finish, Answer, Fail, Moves
<1> QED
  BY <1>1, <1>2 DEF Next

(* A caller has nothing but what its callee came to.                         *)
THEOREM HonestCorrect == ASSUME Distinct PROVE Spec => []Honest
<1>1. Init => RpcInv
  BY DEF Init, RpcInv, TypeOK, Honest, Distinct
<1>2. RpcInv /\ [Next]_rpcVars => RpcInv'
  BY RpcKept
<1>3. RpcInv => Honest
  BY DEF RpcInv
<1> QED
  BY <1>1, <1>2, <1>3, PTL DEF Spec

(* A verdict is final at both ends.                                          *)
THEOREM OnceForAllCorrect == ASSUME Distinct PROVE Spec => OnceForAll
<1>1. Init => RpcInv
  BY DEF Init, RpcInv, TypeOK, Honest, Distinct
<1>2. RpcInv /\ [Next]_rpcVars => RpcInv'
  BY RpcKept
<1>3. RpcInv /\ [Next]_rpcVars => [Final]_rpcVars
  <2>1. ASSUME RpcInv, NEW j \in Calls, Ask(j) \/ Run(j) \/ Refuse(j) \/ Finish(j) \/ Answer(j) \/ Fail(j)
        PROVE  Final
    BY <2>1 DEF RpcInv, TypeOK, Final, Settled, Distinct, Ask, Run, Refuse, Finish, Answer, Fail, Moves
  <2> QED
    BY <2>1 DEF Next
<1> QED
  BY <1>1, <1>2, <1>3, PTL DEF Spec, OnceForAll
=============================================================================
