SPECIFICATION TimelockedSpec
CONSTANTS
  Nil = Nil
  TlDelay = 2
  TlGrace = 1
  Calls <- MCCalls
  MaxPending = 1
  MaxEpoch = 1
  MaxTime = 6
  Chains = {"c1"}
  Roots = {"r1", "r2"}
  Notaries = {"n1", "n2", "n3"}
  Seqs = {1, 2}
  AnchorDelays = {0, 1, 2}
  MaxAnchorDelay = 1
  SignerSets <- MCSignerSets
  MaxSetEpoch = 2
  MaxGen = 1
  FieldModulus = 1000
  Appenders = {"escrow", "registrar"}
  Appends <- MCAppends
PROPERTIES
  AnchorLooseningAnnounced
  QuorumAnchors
  AppendersAnnounced
  EveryLeafProves
  RootsCommitToPrefix
CHECK_DEADLOCK FALSE
