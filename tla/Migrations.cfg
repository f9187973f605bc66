SPECIFICATION Spec
CONSTANTS
  s1 = s1
  s2 = s2
  s3 = s3
  Servers = {s1, s2, s3}
  NoServer = NoServer
  Release <- MCRelease
  Files = 3
  MaxAttempts = 3
  MaxCommands = 2
  MaxFaults = 2
INVARIANTS
  NoReapply
  AllOrNothing
\* every server may be up, every command over and every fault spent
CHECK_DEADLOCK FALSE
