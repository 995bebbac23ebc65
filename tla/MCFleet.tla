------------------------------ MODULE MCFleet ------------------------------
\* Model checking of Fleet: workspaces, names, owners, versions and requests
\* are interchangeable; ports are not, the lowest free one is taken.
EXTENDS Fleet, TLC

Symmetry == Permutations(Ids) \cup Permutations(Slugs) \cup Permutations(Owners)
            \cup Permutations(Refs) \cup Permutations(Calls)
=============================================================================
