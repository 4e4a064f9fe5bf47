\* Three sales, two create calls at a time, an edit of the product; the request's
\* sale may be sent with two keys, with none, and converted.
SPECIFICATION Spec
CONSTANTS
    k1 = k1  k2 = k2  k3 = k3  q1 = q1
    NoKey = NoKey  NoSource = NoSource
    Sales = {s1, s2, s3}
    Calls = {c1, c2}
    Keys = {k1, k2, k3}
    Sources = {q1}
    Intents <- MCIntents
    Counts = {0, 3}
    MaxEdits = 1
SYMMETRY Symmetry
INVARIANTS AnsweredAlike
PROPERTY StockFollowsSales
CHECK_DEADLOCK FALSE
