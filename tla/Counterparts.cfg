SPECIFICATION CounterpartsSpec

CONSTANTS
  Orders = {"o1", "o2"}
  Deadline <- Deadlines
  Amount <- Amounts
  Timings <- Shortest
  MaxOrderWindow = 10
  MinBuffer = 1
  MaxBuffer = 4
  MaxTime = 3
  Unpayable = {"pool", "payee"}
  Nil = Nil
  Modules = {"dm1"}
  Escrows = {"am"}
  Parties = {"maker", "pool"}
  FeePools = {"pool"}
  ParamChoices <- OneParams
  BondChoices <- RouteBonds
  MaxBonds = 3
  Accounts = {"bridger", "payee"}
  BridgerOf <- BridgerIs
  AdRecipientOf <- PayeeIs
  Deposit <- Amounts
  OrderDelays = {0, 1}
  OrderLevers = {"pause", "route", "verifier", "delay", "anchor"}
  AdShownDomains = {"CANCEL", "FORFEIT"}

INVARIANTS
  DisputeManagerTypeOK
  DisputeWindowFloor
  BondsCovered
  OrderPortalTypeOK
  DepositsBacked
  DepositPaidOnce

PROPERTIES
  DepositGoesOnce

CHECK_DEADLOCK FALSE
