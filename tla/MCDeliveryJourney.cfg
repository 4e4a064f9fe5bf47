\* One rental order of 1 unit that a late fee may raise, paid to its owner or by
\* transfer; one owner and one customer on the journey, one payment handler.
SPECIFICATION JourneySpec
CONSTANTS
    Requests = {r1}
    Proofs = {p1}
    Totals = {1}
    Amounts = {1}
    Fees = {0, 1}
    LedgerCap = 2
    SourceRequest = TRUE
    NoProof = NoProof
    Owners = {o1}
    Customers = {c1}
    HasRental = TRUE
CHECK_DEADLOCK FALSE
INVARIANTS
    RestockedOnce
    ReceivedBeforeConfirmed
    RiderConfirmedAfterHandoff
PROPERTIES
    ConfirmedWhenSettled
    MethodFixedAfterHandoff
    OnlyPaymentUnlocks
