-------------------------- MODULE MCMessageOutbox --------------------------
\* Model checking of MessageOutbox: two workers and two sends of one message, or
\* one worker and a send of each of two messages that share the day's cap.
EXTENDS MessageOutbox, TLC

CONSTANTS Second, SecondWorker    \* a message and a worker that do not meet

\* Bound: while there is a second message there is one worker, each message is
\* accepted once, consents stand, and callbacks say how a send ended.
Apart ==
    /\ consent[Second]
    /\ status[Second] # "NONE" =>
           /\ worker[SecondWorker] = IdleWorker
           /\ \A m \in Messages : accepted[m] <= 1 /\ consent[m]
           /\ \A e \in seen : e[3] # "sent"

MCInit == Init /\ Apart
MCNext == Next /\ Apart'
MCSpec == MCInit /\ [][MCNext]_vars /\ Fairness
WorkerSymmetry == Permutations(Workers)
=============================================================================
