\* One founding invitation and two workers at a time; nothing is bounded but its sends.
SPECIFICATION Spec
CONSTANTS
    Messages = {m1}
    Invitations = {m1}
    Workers = {w1, w2}
    DailyCap = 1
    MaxAttempts = 2
    SendBound = 2
    Crashes = FALSE
    Second = m1
    SecondWorker = w2
    NoMessage = NoMessage
SYMMETRY WorkerSymmetry
CHECK_DEADLOCK FALSE
INVARIANTS
    ClaimedOnce
