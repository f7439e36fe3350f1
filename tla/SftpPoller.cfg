SPECIFICATION FairSpec
CONSTANTS
  Caller = {c1, c2}
  Worker = {w1}
  NoThread = NoThread
  File = {f1, f2}
  Dirs = 2
  Disposes = TRUE
  Inliner = {c1}
  EventStops = TRUE
  Updates = TRUE
INVARIANTS
  OnePollLoop
  DeliveredOnce
PROPERTIES
  StopMeansStopped
  FailsAfterEvent
  StopReturns
CHECK_DEADLOCK FALSE
