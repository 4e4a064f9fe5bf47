--------------------------- MODULE MCRentalBooking ---------------------------
\* Model checking of RentalBooking: what a sale may book, and the sales being
\* interchangeable.
EXTENDS RentalBooking, TLC

L(n, a, b) == [quantity |-> n, start |-> a, end |-> b]

\* A sale of one line takes one unit at the start or two at the end; one of two
\* lines takes units whose periods overlap.
Periods == {L(1, 0, 1), L(2, 2, 3)}
Pairs == {<<L(1, 0, 2), L(1, 1, 3)>>}
MCOrders == (Periods \X {NoLine}) \cup Pairs

Symmetry == Permutations(Sales)
=============================================================================
