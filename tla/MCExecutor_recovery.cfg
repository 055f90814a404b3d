SPECIFICATION RecoveredSpec
CONSTANTS
  p1 = p1
  p2 = p2
  w1 = w1
  w2 = w2
  NoPermit = NoPermit
  Permit <- MCPermit
  ActionOf <- TwoActions
  ExpiresAt <- MCExpiresAt
  Supported <- OneSupported
  Worker <- MCWorker
  Operator = {o1}
  Adapter = "slack"
  GateDb = FALSE
  LocalFaults = TRUE
  OlderThan = 0
  MaxTime = 1
PROPERTIES StartedIsSettled
CHECK_DEADLOCK FALSE
