SPECIFICATION Spec
CONSTANTS
  Thread = {t1, t2}
  NoThread = NoThread
  MaxConn = 3
SYMMETRY Symmetry
INVARIANTS
  HandleClosedFirst
  MethodKeepsSession
  RestState
