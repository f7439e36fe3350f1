SPECIFICATION FairSpec
CONSTANTS
  MaxSession = 3
  MaxSize = 2
  MaxCand = 2
INVARIANTS
  SessionOwned
  ResourcesReleased
  BlockingRestored
  VerifiedTransfer
PROPERTIES
  IsRetrieval
  OpEnds
