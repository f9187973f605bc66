------------------------ MODULE MCBlinkConfirmation -------------------------
EXTENDS BlinkConfirmation, TLC

Symmetry == Permutations(Workers)

=============================================================================
