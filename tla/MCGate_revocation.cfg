SPECIFICATION Spec
CONSTANTS
  agent = agent
  worker = worker
  a1 = a1
  i1 = i1
  i2 = i2
  o1 = o1
  o2 = o2
  o3 = o3
  o4 = o4
  None = None
  g1 = g1
  g2 = g2
  Proc = {g1, g2}
  Intent = {i1, i2}
  Outcome = {o1, o3}
  Key <- MCKey
  ActionId = {a1}
  Tenant = {"t1", "*"}
  ActionOf <- MCActionOf
  AgentOf <- MCAgentOf
  TenantOf <- MCTenantOf
  RequestedAt <- MCRequestedAt
  ExecutorOf <- MCExecutorOf
  StatusOf <- MCStatusOf
  Permitted <- MCPermitted
  Executors <- MCExecutors
  Proposer = {}
  Enrolled = {agent}
  Ttl = 2
  MaxAge = 2
  MaxSkew = 1
  MaxTime = 4
SYMMETRY ProcSymmetry
INVARIANTS RevocationIsComplete
CHECK_DEADLOCK FALSE
