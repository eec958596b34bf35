--------------------------- MODULE MCModelResolve ---------------------------
\* ModelResolve with the symmetry of its identities, for TLC.
EXTENDS ModelResolve, TLC

Symmetry == Permutations(Requests) \cup Permutations(Admins)
              \cup Permutations(Names) \cup Permutations(Providers)
=============================================================================
