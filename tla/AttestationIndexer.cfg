SPECIFICATION Spec
CONSTANTS
  k1 = k1
  h1 = h1
  r1 = r1
  r2 = r2
  Keys = {k1}
  Signers = {a}
  NoSigner = NoSigner
  Payloads = {h1}
  ZeroHash = zero
  MaxVersion = 0
  MaxCount = 1
  MaxTxs = 3
  Recoveries = {r1, r2}
  PageSize = 2
  MaxPerRun = 2
  MaxFaults = 1
SYMMETRY Symmetry
INVARIANTS
  CheckpointIsReplayed
  RecoveryReaches
PROPERTIES
  CheckpointAdvances
