\* As MCSaleCreation; the cancel of a sale whose variant was replaced.
SPECIFICATION Spec
CONSTANTS
    k1 = k1  k2 = k2  k3 = k3  q1 = q1
    NoKey = NoKey  NoSource = NoSource
    Sales = {s1, s2, s3}
    Calls = {c1, c2}
    Keys = {k1, k2, k3}
    Sources = {q1}
    Intents <- MCIntents
    Counts = {0, 3}
    MaxEdits = 1
SYMMETRY Symmetry
PROPERTY CancelRestores
CHECK_DEADLOCK FALSE
