\* One rental order of 1 unit that a late fee may raise, paid by its owner; one
\* owner and one customer on the journey, one payment handler.
SPECIFICATION JourneySpec
CONSTANTS
    Requests = {r1}
    Proofs = {}
    Totals = {1}
    Amounts = {1}
    Fees = {0, 1}
    LedgerCap = 2
    SourceRequest = TRUE
    NoProof = NoProof
    Owners = {o1}
    Customers = {c1}
    HasRental = TRUE
CHECK_DEADLOCK FALSE
PROPERTY CancelOnlyUnpaid
