---------------------------- MODULE MCSaleLedger ----------------------------
\* Model checking of SaleLedger: two handlers in flight, interchangeable.
EXTENDS SaleLedger, TLC

Symmetry == Permutations(Requests) \cup Permutations(Proofs)
=============================================================================
