SPECIFICATION Spec
CONSTANTS
  r1 = r1
  r2 = r2
  r3 = r3
  k1 = k1
  k2 = k2
  Refs = {r1, r2, r3}
  Keys = {k1, k2}
  NoKey = NoKey
  Amounts <- MCAmounts
  MinAmount = 1
  MaxAmount = 3
  Times <- MCTimes
  MaxCount = 2
INVARIANTS
  TypeOK
  CountersReconcile
  OneOutcome
PROPERTY ImplementsIntent
\* every intent may be settled and every counter at its limit
CHECK_DEADLOCK FALSE
