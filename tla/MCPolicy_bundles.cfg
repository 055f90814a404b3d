SPECIFICATION Spec
CONSTANTS
  root = root
  deputy = deputy
  baseline = baseline
  first = first
  second = second
  wide = wide
  v0 = v0
  v1 = v1
  v2 = v2
  v3 = v3
  g1 = g1
  g2 = g2
  None = None
  Proc = {g1, g2}
  Signer = {root, deputy}
  Tenant = {"t1"}
  Draft = {first, second, wide}
  Baseline = baseline
  Version = {v0, v1, v2, v3}
  VersionOf <- MCVersionOf
  TenantOf <- MCTenantOf
  MaxTime = 3
  Unset = Unset
  MaxInt = 4095
  Segment = {1, 2}
  Text <- MCText
  Rule <- MCRule
  Intent <- MCIntent
SYMMETRY CallerSymmetry
INVARIANTS TypeOK OnePolicyInForce OwnPolicyAnswers RefusalIsExplained RulesAreExact
PROPERTIES BundlesAreKept
CHECK_DEADLOCK FALSE
