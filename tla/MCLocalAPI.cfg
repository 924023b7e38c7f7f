SPECIFICATION FairSpec
CONSTANTS
  Servers = {s1, s2}
  Attempts = 2
  NoServer = NoServer
  Foreign = Foreign
INVARIANTS
  TypeOK
  StateMatchesServer
  OneServer
PROPERTIES
  StartingEnds
  StoppingEnds
\* Every start may be used up, with nothing left to do.
CHECK_DEADLOCK FALSE
