----------------------------- MODULE MCExecutor -----------------------------
(***************************************************************************)
(* Small instances of Executor for TLC.  In one, two permits for one       *)
(* action (a gate restored from a backup can sign a second permit for an   *)
(* action); in the other, permits for two actions, one of them of a type   *)
(* the adapter does not support, so that a recovery pass has a row behind  *)
(* another.                                                                *)
(***************************************************************************)
EXTENDS Executor, TLC

CONSTANTS p1, p2, w1, w2

MCPermit == {p1, p2}
MCWorker == {w1, w2}
MCExpiresAt == (p1 :> 0) @@ (p2 :> 1)

SameAction == (p1 :> "a1") @@ (p2 :> "a1")
TwoActions == (p1 :> "a1") @@ (p2 :> "a2")
OneSupported == {p1}

(* Workers are alike: no definition of Executor tells them apart. *)
WorkerSymmetry == Permutations(MCWorker)
=============================================================================
