------------------------- MODULE MCComplianceReview -------------------------
EXTENDS ComplianceReview, TLC

CONSTANTS c1, c2

MCSymmetry == Permutations(Conns)

=============================================================================
