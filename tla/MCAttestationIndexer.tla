----------------------- MODULE MCAttestationIndexer -----------------------
EXTENDS AttestationIndexer, TLC

CONSTANTS k1, h1, r1, r2

Symmetry == Permutations({r1, r2})

=============================================================================
