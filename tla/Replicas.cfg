CONSTANTS
  UserOrder <- TwoUsers
  Document <- TwoCharacters
  MaxRequests <- ThreeAndTwo
  Kinds <- DeleteAndInsert
  MaxSaves <- FirstSaves
  MaxTotalLogSize <- Unlimited
SPECIFICATION Spec
INVARIANTS Converged AlwaysExecutable LogsAgree UnmodifiedIsSaved CacheTransparent
CHECK_DEADLOCK FALSE
