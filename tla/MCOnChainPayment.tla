-------------------------- MODULE MCOnChainPayment --------------------------
EXTENDS OnChainPayment

\* Amounts on both sides of each bound
MCAmounts == {0, 1, 3, 4}
MCTimes == {1}

=============================================================================
