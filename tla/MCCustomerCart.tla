--------------------------- MODULE MCCustomerCart ---------------------------
\* Model checking of CustomerCart: a shop with a set of two products and a shop
\* with one product.
EXTENDS CustomerCart, TLC

CONSTANTS shopA, shopB, p1, p2, p3

MCShopOf == [p \in Products |-> IF p = p3 THEN shopB ELSE shopA]
Symmetry == Permutations(Requests) \cup Permutations(Handlers) \cup Permutations(InSet)
=============================================================================
