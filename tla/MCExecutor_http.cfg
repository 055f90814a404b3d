SPECIFICATION Spec
CONSTANTS
  p1 = p1
  p2 = p2
  w1 = w1
  w2 = w2
  NoPermit = NoPermit
  Permit <- MCPermit
  ActionOf <- SameAction
  ExpiresAt <- MCExpiresAt
  Supported <- MCPermit
  Worker <- MCWorker
  Operator = {o1}
  Adapter = "http"
  GateDb = TRUE
  LocalFaults = FALSE
  OlderThan = 0
  MaxTime = 1
SYMMETRY WorkerSymmetry
INVARIANTS FailedIsTrue
CHECK_DEADLOCK FALSE
