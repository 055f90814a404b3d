SPECIFICATION Spec
CONSTANTS
  root = root
  deputy = deputy
  leaf = leaf
  spare = spare
  g1 = g1
  g2 = g2
  None = None
  Proc = {g1, g2}
  Key <- MCKey
  Signer <- MCSigner
  Charge <- Each
  TenantOf <- MCTenantOf
  Delegator = {deputy, leaf}
  MaxChain = 2
  MaxTime = 5
SYMMETRY ProcSymmetry
INVARIANTS TypeOK EveryKeyVerifiesInTurn
PROPERTIES RecordsAreKept LifelineInTurn
CHECK_DEADLOCK FALSE
