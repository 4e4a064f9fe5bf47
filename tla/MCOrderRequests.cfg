\* Two requests of one or two customers for one or two units each, a promotion
\* of three units, two for each customer, and three units in stock.
SPECIFICATION Spec
CONSTANTS
    Requests = {q1, q2}
    Customers = {k1, k2}
    Orders <- OneOrTwo
    Changes = {}
    Owners = {o1}
    Buyers = {b1}
    ClaimLimit = 3
    PerCustomerLimit = 2
    InitialStock = 3
    Crashes = FALSE
    NoCustomer = NoCustomer
SYMMETRY Symmetry
CHECK_DEADLOCK FALSE
INVARIANTS
    LimitKept
    GoodsAccounted
    CanceledReleases
