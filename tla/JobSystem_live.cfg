SPECIFICATION SystemFairSpec
CONSTANTS
  r1 = r1
  r2 = r2
  Jobs = {1, 2}
  Runners = {r1, r2}
  MaxAttempts = 1
  BatchSize = 2
  Concurrency = 1
  Unhandled = {}
  IdType = "bigint"
  Faults = FALSE
  Schedules = {a}
  Interval = 1
  MaxTime = 2
  Nobody = Nobody
  NoSchedule = NoSchedule
INVARIANTS
  NoDuplicateActive
PROPERTIES
  ImplementsLease
  TerminalStays
  NeverForgotten
\* the clock stops and every job may be settled
CHECK_DEADLOCK FALSE
