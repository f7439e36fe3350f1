SPECIFICATION Spec
CONSTANTS
  Client = {c1, c2}
  SFTP = {c2}
  Server <- MCServer
  Key <- MCKey
  NoKey = NoKey
  Path = {home}
  AutoPath = home
  NoFile = NoFile
  Known <- MCKnown
  Environment <- MCEnvironment
  MaxConnect = 2
  MaxSet = 2
INVARIANTS
  KnownKeysKept
  SteadyEntryBinds
  FirstUseBinds
  StoreBinds
  PolicyHonoured
CHECK_DEADLOCK FALSE
