------------------------------ MODULE Storage ------------------------------
(***************************************************************************)
(* The database file that holds the decision ledger, the event streams and *)
(* their checkpoints, with the backups that operators take of it and       *)
(* restore (docs/BACKUP_AND_DISASTER_RECOVERY.md).                         *)
(*                                                                         *)
(* What has left the file is not restored: the checkpoints published.      *)
(***************************************************************************)
EXTENDS Ledger, Checkpoints

CONSTANTS
  NoBackup,
  MaxRestores  \* bound on the restores

ASSUME StorageAssumption == MaxRestores \in Nat

VARIABLES
  backup,      \* the file as it was last backed up
  restores     \* how often it was restored

vars == <<ledgerVars, checkpointVars, backup, restores>>

Tables == [decisions |-> decisions, events |-> events, checkpoints |-> checkpoints]

Init ==
  /\ LedgerInit
  /\ CheckpointsInit
  /\ backup = NoBackup
  /\ restores = 0

(* SQLite's online backup is a snapshot between two transactions. *)
Backup ==
  /\ restores < MaxRestores
  /\ backup' = Tables
  /\ UNCHANGED <<ledgerVars, checkpointVars, restores>>

(* The backup is put in place of the file when nobody has it open.  (Past  *)
(* the bound on restores no backup is of any consequence.)                 *)
Restore ==
  /\ backup # NoBackup
  /\ restores < MaxRestores
  /\ \A p \in Recorder : recording[p] = NotRecording /\ place[p] = NoPlace
  /\ \A p \in Auditor : auditing[p] = NotAuditing
  /\ restores' = restores + 1
  /\ decisions' = backup.decisions
  /\ events' = backup.events
  /\ checkpoints' = backup.checkpoints
  /\ answer' = NoAnswer
  /\ backup' = IF restores' = MaxRestores THEN NoBackup ELSE backup
  /\ UNCHANGED <<recorded, clock, wentBack, place, recording, told, published, auditing>>

LedgerStep == LedgerNext /\ UNCHANGED <<checkpointVars, backup, restores>>
CheckpointsStep == CheckpointsNext /\ UNCHANGED <<ledgerVars, backup, restores>>

Next ==
  \/ LedgerStep
  \/ CheckpointsStep
  \/ Backup
  \/ Restore

Spec == Init /\ [][Next]_vars

-----------------------------------------------------------------------------
(* Properties *)

(* The parts keep their types through backups and restores. *)
TypeOK ==
  /\ LedgerTypeOK
  /\ CheckpointsTypeOK
  /\ restores \in 0..MaxRestores
=============================================================================
