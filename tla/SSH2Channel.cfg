SPECIFICATION FairSpec
CONSTANTS
  Thread = {t1, t2}
  NoThread = NoThread
  MaxData = 3
  MaxSize = 2
  MaxWire = 4
  MaxErr = 2
  Width = 3
INVARIANTS
  StreamInOrder
PROPERTIES
  BlockWhole
  WriteWhole
  ReadEnds
