SPECIFICATION Spec
CONSTANTS
  Servers = {s1, s2}
  Attempts = 2
  NoServer = NoServer
  Foreign = Foreign
INVARIANTS
  OneOwner
CHECK_DEADLOCK FALSE
