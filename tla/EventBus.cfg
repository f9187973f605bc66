SPECIFICATION FairSpec
CONSTANTS
  Servers = {p1, p2}
  Events = {e1}
  MaxFaults = 4
  None = None
INVARIANTS
  OneClient
PROPERTIES
  EveryoneHears
  Rejoins
\* every event may be published and every process closed
CHECK_DEADLOCK FALSE
