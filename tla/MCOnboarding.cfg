\* One e-mail address, one number, two codes and two invitations; one code
\* request, two other calls and one administrator at a time.
SPECIFICATION Spec
CONSTANTS
    Emails = {e1}
    Phones = {p1}
    Codes = {c1, c2}
    Invitations = {i1, i2}
    Senders = {s1}
    Callers = {u1, u2}
    Admins = {a1}
    MaxAttempts = 1
    AccessRequired = TRUE
    None = None
SYMMETRY Symmetry
CHECK_DEADLOCK FALSE
INVARIANTS
    FoundedOnProof
    AttemptsBounded
    OneLiveCode
    OneActiveInvitation
PROPERTIES
    EndedStays
