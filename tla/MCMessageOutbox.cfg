\* A founding invitation and a plain message that share a cap of one send a day.
\* Calls and webhook handlers may stop half way, but not forever.
SPECIFICATION MCSpec
CONSTANTS
    Messages = {m1, m2}
    Invitations = {m1}
    Workers = {w1, w2}
    Second = m2
    SecondWorker = w2
    DailyCap = 1
    MaxAttempts = 2
    SendBound = 2
    Crashes = TRUE
    NoMessage = NoMessage
CHECK_DEADLOCK FALSE
INVARIANTS
    StatusEvidenced
    SentTokenGone
PROPERTIES
    SuppressedStays
    EverySettles
