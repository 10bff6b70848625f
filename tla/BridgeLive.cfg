SPECIFICATION LiveSpec

CONSTANTS
  Orders = {"o1"}
  Deadline <- Deadlines
  Amount <- Amounts
  Timings <- BareTiming
  MaxOrderWindow = 10
  MinBuffer = 1
  MaxBuffer = 4
  MaxTime = 8
  Unpayable = {}
  Nil = Nil
  Modules = {"dm1"}
  Escrows = {"am"}
  Parties = {"maker", "rcp", "pool"}
  FeePools = {}
  ParamChoices <- ShortParams
  BondChoices = {}
  MaxBonds = 3
  Registries = {"reg1"}
  Signers = {"signer"}
  Makers = {"maker"}
  MaxActiveSlots = 2
  GracePeriod = 20
  MaxSlotId = 0
  MaxRepins = 0
  Ads = {"ad1"}
  MakerOf <- OneMaker
  AdOf <- OneAd
  SignerOf <- OneSigner
  RecipientOf <- Recipients
  FeesOf <- FreeOfFees
  FeeChoices <- JustNoFee
  AdPools = {}
  Deposits = {100}
  MaxFunded = 100
  Delays = {0}
  ThisEscrow = "am"
  HomeRegistry = "reg1"
  Levers = {"halt"}
  ShownDomains = {"AD", "SETTLED"}
  Accounts = {"bridger", "payee"}
  BridgerOf <- BridgerIs
  AdRecipientOf <- PayeeIs
  Deposit <- Amounts
  OrderDelays = {0}
  OrderLevers = {}
  AdShownDomains = {"CANCEL", "SETTLED", "FORFEIT"}
  Skew = 1
  LastRuling = 4

PROPERTIES
  EveryLockEnds
  EveryDepositEnds

CHECK_DEADLOCK FALSE
