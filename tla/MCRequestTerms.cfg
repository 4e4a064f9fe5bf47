\* One request with up to three proposed changes; one owner call and two customer
\* calls at a time, any of which may stop half way.
SPECIFICATION Spec
CONSTANTS
    Requests = {q1}
    Customers = {k1}
    Orders <- TwoVariants
    Changes = {1, 2, 3}
    Owners = {o1}
    Buyers = {b1, b2}
    ClaimLimit = 1
    PerCustomerLimit = 1
    InitialStock = 2
    Crashes = TRUE
    NoCustomer = NoCustomer
CHECK_DEADLOCK FALSE
INVARIANTS
    OneOpenProposal
PROPERTIES
    AnsweredOnce
