---------------------------- MODULE MCJobSystem -----------------------------
EXTENDS JobSystem, TLC

CONSTANTS r1, r2

\* The processes are interchangeable (safety runs only).
MCSymmetry == Permutations(Runners)

=============================================================================
