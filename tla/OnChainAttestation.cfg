SPECIFICATION ProgramSpec
CONSTANTS
  k1 = k1
  k2 = k2
  k3 = k3
  h1 = h1
  h2 = h2
  a = a
  b = b
  Keys = {k1, k2, k3}
  Signers = {a, b}
  NoSigner = NoSigner
  Payloads = {h1, h2}
  ZeroHash = zero
  MaxVersion = 1
  MaxCount = 2
  MaxTxs = 5
INVARIANTS
  CountersReconcile
  EventsTellAccounts
SYMMETRY MCSymmetry
\* the chain may be full
CHECK_DEADLOCK FALSE
