SPECIFICATION MCSpec

CONSTANTS
  Nil = Nil
  Escrows = {"e1"}
  Contracts = {"e1", "t1"}
  Ads = {"ad1", "ad2"}
  Tokens = {"t1"}
  AdToken <- OneToken
  Signers = {"s1", "s2"}
  Agents = {"a1"}
  Wasms = {"w1", "w2"}
  SchemaVersion <- Schemas
  MaxTargets = 2
  MaxGuardedAds = 2
  MaxGuardDelay = 3
  MinGuardWindow = 2
  MaxWhitelist = 2
  Forever = 1000
  Amounts = {1, 3}
  Payees = {"out", "account"}
  Settings <- MCSettings
  Limits <- MCLimits
  Policies <- MCPolicies
  Orders <- MCOrders
  TargetSets <- MCTargets
  Announcements <- MCAnnouncements
  MaxHeld = 4
  MaxTime = 4

INVARIANTS
  AgentTypeOK
  AllowanceIsExact
  RowsWaitTheDelay

PROPERTIES
  WideningIsAnnounced
  OutflowIsCharged

CHECK_DEADLOCK FALSE
