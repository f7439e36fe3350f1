SPECIFICATION Spec
CONSTANTS
  BufSize = 2
  MaxLen = 5
INVARIANTS
  TypeOK
  InOrder
  WithinSize
  WholeTransfer
  Acknowledged
PROPERTY TransferEnds
CHECK_DEADLOCK FALSE
