\* Two sales of a product of one or two units, one call of each kind at a time.
SPECIFICATION BookingSpec
CONSTANTS
    Sales = {s1, s2}
    Owners = {o1}
    Editors = {e1}
    Customers = {c1}
    Horizon = 3
    Capacities = {1, 2}
    Orders <- MCOrders
SYMMETRY Symmetry
INVARIANTS NeverOversold SweepIsPeak
PROPERTIES ImplementsRentalCapacity
CHECK_DEADLOCK FALSE
