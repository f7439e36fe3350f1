SPECIFICATION Spec
CONSTANTS
  Userauthlist = {{"publickey"}, {"password", "keyboard-interactive"},
                  {"publickey", "password", "keyboard-interactive"}}
  MaxIdentity = 1
  MaxCandidate = 2
INVARIANTS
  DriversAgree
  ProcessIdentityGuarded
  CheckedBeforeRead
PROPERTY DriversEnd
CHECK_DEADLOCK FALSE
