-------------------------- MODULE MCOrderRequests --------------------------
\* Model checking of OrderRequests: what a request may ask for, and the requests
\* and customers being interchangeable.
EXTENDS OrderRequests, TLC

OneOrTwo == {<<1, 0>>, <<2, 0>>}
TwoVariants == {<<1, 1>>}
Symmetry == Permutations(Requests) \cup Permutations(Customers)
=============================================================================
