\* One sale of 2 units that a late fee may raise to 3, two handlers at a time,
\* one transfer proof.
SPECIFICATION Spec
CONSTANTS
    Requests = {r1, r2}
    Proofs = {p1}
    Totals = {2}
    Amounts = {1, 2}
    Fees = {0, 1}
    LedgerCap = 3
    SourceRequest = TRUE
    NoProof = NoProof
CHECK_DEADLOCK FALSE
INVARIANT LedgerMatchesBalance
