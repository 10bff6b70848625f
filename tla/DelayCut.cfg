SPECIFICATION MCSpec

CONSTANTS
  Orders = {"o1"}
  Deadline <- Deadlines
  Amount <- Amounts
  Timings <- Shortest
  MaxOrderWindow = 2
  MinBuffer = 1
  MaxBuffer = 1
  MaxTime = 7
  MaxKeysTime = 7
  MaxRepinTime = 4
  MaxWiringTime = 5
  Unpayable = {}
  Nil = Nil
  Modules = {"dm1"}
  Escrows = {"am"}
  Parties = {"maker", "rcp", "pool"}
  FeePools = {}
  ParamChoices = {}
  BondChoices = {}
  MaxBonds = 3
  Registries = {"reg1"}
  Signers = {"signer"}
  Makers = {"maker"}
  MaxActiveSlots = 2
  GracePeriod = 6
  MaxSlotId = 1
  MaxRepins = 1
  Ads = {"ad1"}
  MakerOf <- OneMaker
  AdOf <- OneAd
  SignerOf <- OneSigner
  RecipientOf <- Recipients
  FeesOf <- FreeOfFees
  FeeChoices <- JustNoFee
  AdPools = {}
  Deposits = {100}
  MaxFunded = 100
  Delays = {1, 2}
  ThisEscrow = "am"
  HomeRegistry = "reg1"
  Levers = {"halt", "delay"}
  ShownDomains = {"SETTLED"}

PROPERTIES
  CutShortensNoGrace

CHECK_DEADLOCK FALSE
