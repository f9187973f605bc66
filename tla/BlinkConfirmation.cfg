SPECIFICATION Spec
CONSTANTS
  Sigs = {s1}
  Workers = {w1, w2}
  NoSig = NoSig
  MaxAttempts = 1
  MaxFaults = 1
SYMMETRY Symmetry
INVARIANTS
  ConfirmedOnChain
  GrantedOnce
\* the chain may be final and every row closed
CHECK_DEADLOCK FALSE
