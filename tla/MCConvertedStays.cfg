\* One request, one owner call at a time.
SPECIFICATION Spec
CONSTANTS
    Requests = {q1}
    Customers = {k1}
    Orders <- OneOrTwo
    Changes = {1}
    Owners = {o1}
    Buyers = {b1}
    ClaimLimit = 1
    PerCustomerLimit = 1
    InitialStock = 2
    Crashes = FALSE
    NoCustomer = NoCustomer
CHECK_DEADLOCK FALSE
PROPERTY ConvertedStays
