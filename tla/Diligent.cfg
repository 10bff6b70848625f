SPECIFICATION MCSpec

CONSTANTS
  Orders = {"o1"}
  Deadline <- Deadlines
  Amount <- Amounts
  Timings <- BareTiming
  MaxOrderWindow = 10
  MinBuffer = 1
  MaxBuffer = 4
  MaxTime = 8
  Unpayable = {}
  Nil = Nil
  Modules = {"dm1"}
  Escrows = {"am"}
  Parties = {"maker", "rcp", "pool"}
  FeePools = {}
  ParamChoices <- ShortParams
  BondChoices = {}
  MaxBonds = 3
  Registries = {"reg1"}
  Signers = {"signer"}
  Makers = {"maker"}
  MaxActiveSlots = 2
  GracePeriod = 20
  MaxSlotId = 1
  MaxRepins = 1
  Ads = {"ad1"}
  MakerOf <- OneMaker
  AdOf <- OneAd
  SignerOf <- OneSigner
  RecipientOf <- Recipients
  FeesOf <- FreeOfFees
  FeeChoices <- JustNoFee
  AdPools = {}
  Deposits = {100}
  MaxFunded = 100
  Delays = {1, 2}
  ThisEscrow = "am"
  HomeRegistry = "reg1"
  Levers = {"halt", "delay", "anchor", "verifier", "slots", "repin"}
  ShownDomains = {"SETTLED"}
  Accounts = {"bridger", "payee"}
  BridgerOf <- BridgerIs
  AdRecipientOf <- PayeeIs
  Deposit <- Amounts
  OrderDelays = {0}
  OrderLevers = {}
  AdShownDomains = {"CANCEL"}
  Skew = 1
  LastRuling = 4
  Cadence = 1

INVARIANTS
  NobodyPaidTwice

CHECK_DEADLOCK FALSE
