------------------------------ MODULE MCSetup ------------------------------
\* Model checking of Setup: addresses, sessions, invitations and requests
\* are interchangeable.
EXTENDS Setup, TLC

Symmetry == Permutations(People) \cup Permutations(Sessions)
            \cup Permutations(Invites) \cup Permutations(Calls)
=============================================================================
