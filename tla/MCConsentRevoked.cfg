\* As MCAttentionDigest, with settings calls that may stop half way.
SPECIFICATION DigestSpec
CONSTANTS
    First = i1
    Second = i2
    Items = {i1, i2}
    KindOf <- MCKindOf
    CreatedAt <- MCCreatedAt
    TakeOf <- MCTakeOf
    AlertCap = 1
    Businesses = 2
    RunTake = 2
    Phones = {p1, p2}
    NoPhone = NoPhone
    FirstPhone = p1
    Runs = {r1}
    Calls = {c1}
    StopBound = 1
    CallsStop = TRUE
INVARIANT DisablingRevokes
