SPECIFICATION Spec
CONSTANTS
  Thread = {t1}
  NoThread = NoThread
  Channel = {}
  Listener = {}
  MaxConn = 1
  MaxCand = 1
INVARIANTS
  AgentReleasedFirst
