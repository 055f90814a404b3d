------------------------------- MODULE MCGate -------------------------------
(***************************************************************************)
(* Small instances of Gate for TLC: an agent, and an executor that has     *)
(* still to be registered; two intents that reuse one idempotency key;     *)
(* outcome documents of the executor (o1, o2), one the agent signs itself  *)
(* although the policy allows it as an executor (o3) and one with status   *)
(* UNKNOWN (o4).                                                           *)
(***************************************************************************)
EXTENDS Gate, TLC

CONSTANTS agent, worker, a1, i1, i2, o1, o2, o3, o4, g1, g2

MCKey == {agent, worker}
MCActionOf == (i1 :> a1) @@ (i2 :> a1)
MCAgentOf == (a1 :> agent)
MCTenantOf == (a1 :> "t1") @@ (agent :> "t1") @@ (worker :> "*")
MCRequestedAt == (i1 :> 0) @@ (i2 :> 3)
MCExecutorOf == [o \in Outcome |-> IF o = o3 THEN agent ELSE worker]
MCStatusOf ==
  [o \in Outcome |-> IF o = o2 THEN "FAILED" ELSE IF o = o4 THEN "UNKNOWN" ELSE "SUCCEEDED"]
MCPermitted == {i1, i2}
MCExecutors == {worker, agent}

(* Processes are alike: no definition of Gate tells them apart. *)
ProcSymmetry == Permutations(Proc)
=============================================================================
