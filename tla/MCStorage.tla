----------------------------- MODULE MCStorage -----------------------------
(***************************************************************************)
(* A small instance of Storage for TLC.  The ledger and the checkpoints    *)
(* share the file and its backups, and no statement: to have both move in  *)
(* one behaviour would only multiply their states, hence `part` says which *)
(* of them does.                                                           *)
(***************************************************************************)
EXTENDS Storage, TLC

CONSTANTS p1, p2, t1, t2

VARIABLE part

MCInit == Init /\ part \in {"decisions", "checkpoints"}

MCNext ==
  \/ part = "decisions" /\ LedgerStep /\ UNCHANGED part
  \/ part = "checkpoints" /\ CheckpointsStep /\ UNCHANGED part
  \/ Backup /\ UNCHANGED part
  \/ Restore /\ UNCHANGED part

MCSpec == MCInit /\ [][MCNext]_<<vars, part>>

(* Processes are alike, and so are tenants. *)
StorageSymmetry == Permutations({p1, p2}) \cup Permutations({t1, t2})
=============================================================================
