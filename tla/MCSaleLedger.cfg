\* One sale of 0, 2 or 3 units that a late fee may raise, paid by transfer or not,
\* two handlers at a time, two transfer proofs.
SPECIFICATION Spec
CONSTANTS
    Requests = {r1, r2}
    Proofs = {p1, p2}
    Totals = {0, 2, 3}
    Amounts = {1, 2}
    Fees = {0, 1}
    LedgerCap = 3
    SourceRequest = TRUE
    NoProof = NoProof
SYMMETRY Symmetry
CHECK_DEADLOCK FALSE
INVARIANTS
    BalanceInRange
    ProofEnteredOnce
    PaidMeansSettled
PROPERTIES
    OwnerEntryMovesBalance
    ImplementsPaymentLedger
