SPECIFICATION DisputesSpec

CONSTANTS
  Orders = {"o1"}
  Deadline <- LateDeadline
  Amount <- Amounts
  Timings <- TwoTimings
  MaxOrderWindow = 10
  MinBuffer = 1
  MaxBuffer = 4
  MaxTime = 8
  Unpayable = {}
  Nil = Nil
  Modules = {"dm1", "dm2"}
  Escrows = {"am"}
  Parties = {"maker", "rcp", "pool"}
  FeePools = {}
  ParamChoices <- LongParams
  BondChoices = {}
  MaxBonds = 3
  Registries = {"reg1"}
  Signers = {"signer"}
  Makers = {"maker"}
  MaxActiveSlots = 2
  GracePeriod = 20
  MaxSlotId = 0
  MaxRepins = 0
  Ads = {"ad1"}
  MakerOf <- OneMaker
  AdOf <- OneAd
  SignerOf <- OneSigner
  RecipientOf <- Recipients
  FeesOf <- FreeOfFees
  FeeChoices <- JustNoFee
  AdPools = {}
  Deposits = {100}
  MaxFunded = 100
  Delays = {1}
  ThisEscrow = "am"
  HomeRegistry = "reg1"
  Levers = {"timing", "dispute", "anchor", "halt"}
  ShownDomains = {"SETTLED"}

INVARIANTS
  AdManagerTypeOK
  ClaimIffClaimed
  DisputedIffRecord
  OneVerdict
  NoEarlyRelease

PROPERTIES
  TerminalForever
  WindowFixed

CHECK_DEADLOCK FALSE
