\* As MCAttentionDigest, with a request and a proof: both are listed, and it is the
\* cap on alerts that leaves one out.
SPECIFICATION MCSpec
CONSTANTS
    First = i1
    Second = i2
    Items = {i1, i2}
    KindOf <- MCMixedKinds
    CreatedAt <- MCCreatedAt
    TakeOf <- MCTakeOf
    AlertCap = 1
    Businesses = 2
    RunTake = 2
    Phones = {p1, p2}
    NoPhone = NoPhone
    FirstPhone = p1
    Runs = {r1}
    Calls = {c1}
    StopBound = 1
    CallsStop = FALSE
INVARIANTS
    RemindedOnce
PROPERTIES
    SentToChosenNumber
    EveryReminderGoesOut
