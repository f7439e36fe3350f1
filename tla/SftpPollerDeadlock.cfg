SPECIFICATION FairSpec
CONSTANTS
  Caller = {c1, c2}
  Worker = {w1}
  NoThread = NoThread
  File = {f1}
  Dirs = 1
  Disposes = TRUE
  Inliner = {}
  EventStops = TRUE
  Updates = FALSE
PROPERTIES
  StopNeverHangs
CHECK_DEADLOCK FALSE
