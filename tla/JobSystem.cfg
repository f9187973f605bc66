SPECIFICATION SystemSpec
CONSTANTS
  r1 = r1
  r2 = r2
  Jobs = {1, 2}
  Runners = {r1, r2}
  MaxAttempts = 1
  BatchSize = 2
  Concurrency = 2
  Unhandled = {2}
  IdType = "bigint"
  Faults = TRUE
  Schedules = {a}
  Interval = 1
  MaxTime = 2
  Nobody = Nobody
  NoSchedule = NoSchedule
INVARIANTS
  OneOwner
  LeaseIsCurrent
  DeadLetterSpent
  RunIsServed
SYMMETRY MCSymmetry
\* the clock stops and every job may be settled
CHECK_DEADLOCK FALSE
