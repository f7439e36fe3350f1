SPECIFICATION FairSpec
CONSTANTS
  Thread = {t1, t2}
  NoThread = NoThread
  Channel = {c1}
  Listener = {l1}
  MaxConn = 2
  MaxCand = 1
INVARIANTS
  DescriptorHeld
  ObjectsOnSession
  ConnectKeepsSession
  ConnectAssertions
  HostKeyAcceptedFirst
PROPERTIES
  SettingsFixedInConnect
  ConnectEnds
