SPECIFICATION Spec
CONSTANTS
  MaxSession = 2
  MaxSize = 1
  MaxCand = 1
INVARIANT
  HandleReleasedFirst
