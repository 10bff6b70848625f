SPECIFICATION MCSpec
CONSTANTS
  Nil = Nil
  Registries = {"r1", "r2"}
  Keys = {k1, k2}
  Makers = {"m1"}
  MaxActiveSlots = 1
  GracePeriod = 1
  MaxRegisterTtl = 1
  MaxSigned = 1
  MaxNonce = 2
  MaxEpoch = 0
  MaxTime = 3
INVARIANTS
  LeavingKillsSignatures
SYMMETRY KeySymmetry
CHECK_DEADLOCK FALSE
