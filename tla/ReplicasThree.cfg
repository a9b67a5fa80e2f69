CONSTANTS
  UserOrder <- ThreeUsers
  Document <- OneCharacter
  MaxRequests <- OneEach
  Kinds <- DeleteAndInserts
  MaxSaves <- NobodySaves
  MaxTotalLogSize <- Unlimited
SPECIFICATION Spec
INVARIANTS Converged
CHECK_DEADLOCK FALSE
