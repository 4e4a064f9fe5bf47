----------------------------- MODULE MCSessions -----------------------------
\* Model checking of Sessions: rows, codes and calls are interchangeable.
EXTENDS Sessions, TLC

Symmetry == Permutations(Rows) \cup Permutations(Challenges) \cup Permutations(Handlers)
=============================================================================
