--------------------------- MODULE MCSaleCreation ---------------------------
\* Model checking of SaleCreation: two forms for one request, one for none, and
\* one without a key.
EXTENDS SaleCreation, TLC

CONSTANTS k1, k2, k3, q1

Form(k, q, n) == [key |-> k, source |-> q, units |-> n]
MCIntents == {Form(k1, q1, 1), Form(k2, q1, 1), Form(k3, NoSource, 2), Form(NoKey, q1, 1)}

Symmetry == Permutations(Sales) \cup Permutations(Calls)
=============================================================================
