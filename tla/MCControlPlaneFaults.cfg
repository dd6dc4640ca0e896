SPECIFICATION LiveSpec
CONSTANTS
  None = None
  r1 = r1
  r2 = r2
  r3 = r3
  t1 = t1
  t2 = t2
  d1 = d1
  orgA = orgA
  Requests = {r1, r2, r3}
  Tokens = {t1, t2}
  Ops <- AllOps
  MaxUses <- TwoUses
  OrgOf <- OneOrg
  DeviceOf <- SharedPrefix
  PoolSize = 2
  MaxConcurrent = 3
  MaxFailures = 1
  MaxDisconnects = 1
  MaxCrashes = 1
CHECK_DEADLOCK FALSE
INVARIANTS
  TokenBudget
  OkIsDurable
  ChainVerifiesUntilOvertaken
PROPERTIES
  Answered
