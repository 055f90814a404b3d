SPECIFICATION MCSpec
CONSTANTS
  p1 = p1
  p2 = p2
  t1 = t1
  t2 = t2
  NoBackup = NoBackup
  NoHash = NoHash
  Recorder = {p1, p2}
  MaxDecisions = 4
  MaxBatch = 2
  MaxStamp = 2
  Stream = {t1, t2}
  Auditor = {p1, p2}
  MaxEvents = 3
  MaxNumber = 3
  MaxRestores = 1
SYMMETRY StorageSymmetry
INVARIANTS TypeOK LedgerIsAChain OnlyTheClockInvalidates AnswerIsOwnOrLater CheckpointsGrow VerdictIsExact
CHECK_DEADLOCK FALSE
