SPECIFICATION SharedSpec
CONSTANTS
  MaxSession = 2
  MaxSize = 1
  MaxCand = 1
PROPERTY
  PollExclusive
