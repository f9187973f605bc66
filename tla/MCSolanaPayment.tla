-------------------------- MODULE MCSolanaPayment ---------------------------
EXTENDS SolanaPayment, TLC

CONSTANTS p1, p2, s1, s2, c1, c2

\* s1 pays either payment (same recipient, token and amount); s2 gives the recipient
\* of p1 its amount in tokens of another mint.
MCGives == (s1 :> {p1, p2}) @@ (s2 :> {p1})
MCPays == (s1 :> {p1, p2}) @@ (s2 :> {})

\* Requests are interchangeable (safety runs only).
MCSymmetry == Permutations(Clients)

=============================================================================
