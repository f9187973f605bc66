----------------------- MODULE MCOnChainAttestation -----------------------
EXTENDS OnChainAttestation, TLC

CONSTANTS k1, k2, k3, h1, h2, a, b

MCSymmetry == Permutations({k1, k2, k3}) \cup Permutations({h1, h2})
                \cup Permutations({a, b})

=============================================================================
