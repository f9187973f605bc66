SPECIFICATION FairSpec
CONSTANTS
  p1 = p1
  p2 = p2
  s1 = s1
  s2 = s2
  c1 = c1
  c2 = c2
  Payments = {p1, p2}
  Sigs = {s1, s2}
  NoSig = NoSig
  Gives <- MCGives
  Pays <- MCPays
  RefundSigs = {s2}
  Clients = {c1}
  Expiring = {p1, p2}
  Overridable = {p1}
  SweepLimit = 2
  Faults = FALSE
INVARIANTS
  SignatureUnique
  ShownIsReceived

  
\* every payment may be settled and every handler over
CHECK_DEADLOCK FALSE
