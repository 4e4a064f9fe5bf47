\* The digest of a day with two numbers, and two requests of which attention.get
\* lists one; a run may stop once between a push and its mark, any number of times
\* elsewhere.  A run takes every business.
SPECIFICATION MCSpec
CONSTANTS
    First = i1
    Second = i2
    Items = {i1, i2}
    KindOf <- MCKindOf
    CreatedAt <- MCCreatedAt
    TakeOf <- MCTakeOf
    AlertCap = 1
    Businesses = 2
    RunTake = 2
    Phones = {p1, p2}
    NoPhone = NoPhone
    FirstPhone = p1
    Runs = {r1}
    Calls = {c1}
    StopBound = 1
    CallsStop = FALSE
INVARIANTS
    RemindedOnce
PROPERTIES
    SentToChosenNumber
    EveryReminderGoesOut
