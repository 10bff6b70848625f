SPECIFICATION MCSpec

CONSTANTS
  Orders = {"o1", "o2"}
  Deadline <- Deadlines
  Amount <- Amounts
  Timings <- Shortest
  MaxOrderWindow = 10
  MinBuffer = 1
  MaxBuffer = 4
  MaxTime = 4
  MaxTermsTime = 3
  Unpayable = {"rcp"}
  Nil = Nil
  Modules = {"dm1"}
  Escrows = {"am"}
  Parties = {"maker", "rcp", "pool", "pool2"}
  FeePools = {}
  ParamChoices <- ShortParams
  BondChoices = {}
  MaxBonds = 3
  Registries = {"reg1"}
  Signers = {"signer", "other"}
  Makers = {"maker"}
  MaxActiveSlots = 2
  GracePeriod = 20
  MaxSlotId = 0
  MaxRepins = 0
  Ads = {"ad1"}
  MakerOf <- OneMaker
  AdOf <- OneAd
  SignerOf <- OneSigner
  RecipientOf <- Recipients
  FeesOf <- ChargedFees
  FeeChoices <- BothFees
  AdPools = {"pool", "pool2"}
  Deposits = {100, 300}
  MaxFunded = 300
  Delays = {0}
  ThisEscrow = "am"
  HomeRegistry = "reg1"
  Levers = {"funds", "fees", "pause", "signer", "approvals", "route", "module"}
  ShownDomains = {"SETTLED"}

INVARIANTS
  LockedMatchesOrders
  VaultBacked
  AdPaidOnce
  InFlightCountsLive

CHECK_DEADLOCK FALSE
