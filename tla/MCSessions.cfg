\* Four session rows, two codes of two attempts each, two calls at a time.
SPECIFICATION Spec
CONSTANTS
    Rows = {s1, s2, s3, s4}
    Challenges = {c1, c2}
    Handlers = {h1, h2}
    Password = Password
    MaxAttempts = 2
SYMMETRY Symmetry
INVARIANTS TypeOK OneSessionPerLogin CodeOpensOnce
PROPERTY EndedStays
