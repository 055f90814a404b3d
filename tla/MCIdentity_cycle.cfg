SPECIFICATION Spec
CONSTANTS
  root = root
  deputy = deputy
  leaf = leaf
  spare = spare
  g1 = g1
  g2 = g2
  None = None
  Proc = {g1}
  Key <- MCKey
  Signer <- MCSigner
  Charge <- Anyone
  TenantOf <- AllTenants
  Delegator = {deputy}
  MaxChain = 16
  MaxTime = 5
INVARIANTS EveryKeyVerifies
CHECK_DEADLOCK FALSE
