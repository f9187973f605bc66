SPECIFICATION Spec
CONSTANTS
  c1 = c1
  c2 = c2
  Requests = {q}
  Staff = {s}
  Kinds = {"SELFIE"}
  MaxApplications = 2
  Faults = TRUE
  Reviewers = {x}
  Conns = {c1, c2}
  MaxReviews = 1
INVARIANTS
  OneActive
  InStep
SYMMETRY MCSymmetry
\* the bound on applications is reached and every request may be over
CHECK_DEADLOCK FALSE
