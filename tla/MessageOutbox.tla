--------------------------- MODULE MessageOutbox ----------------------------
(***************************************************************************)
(* The WhatsApp outbox: rows enqueued by the other services, the workers   *)
(* that send them (MessagingService.processOne, called by processDue from  *)
(* the cron and directly after an enqueue), the provider, and its status   *)
(* callbacks.  Several processOne calls may run at once; each reads the    *)
(* row, checks consent, counts the day's sends, marks the row PROCESSING,  *)
(* calls the provider and records the outcome, every write being by id.    *)
(*                                                                         *)
(* A message of Invitations is a founding invitation: it cannot be sent    *)
(* before createInvitation has linked the invitation's encrypted token to  *)
(* the row.  Each message has a recipient of its own.                      *)
(***************************************************************************)
EXTENDS Naturals, FiniteSets

CONSTANTS
    Messages,       \* idempotency keys of the outbox rows
    Invitations,    \* those that carry a founding invitation
    Workers,        \* processOne calls that may be in flight at once
    DailyCap,       \* TWILIO_WHATSAPP_DAILY_SEND_CAP, at least 1
    MaxAttempts,    \* maxAttempts(), at least 1
    SendBound,      \* bound: sends the provider accepts for one message
    Crashes,        \* a worker or a webhook handler may stop half way
    NoMessage

ASSUME MessagesAssumption == Invitations \subseteq Messages /\ NoMessage \notin Messages
ASSUME LimitsAssumption == /\ DailyCap \in Nat \ {0} /\ MaxAttempts \in Nat \ {0}
                           /\ SendBound \in Nat
                           /\ Crashes \in BOOLEAN

VARIABLES
    status, attemptCount, reference,   \* the MessageOutbox rows (reference: last sid, 0 none)
    due,            \* nextAttemptAt has passed
    sentToday,      \* sentAt is in the current UTC day
    token,          \* the invitation's encryptedToken and its link to the row
    consent,        \* the recipient has an unrevoked consent and no suppression
    accepted,       \* sends the provider accepted: sids 1 .. accepted[m]
    seen,           \* webhook events with processedAt set
    worker          \* the processOne calls in flight

rowVars == <<status, attemptCount, reference, due, sentToday>>
outsideVars == <<consent, accepted, seen>>
vars == <<rowVars, token, outsideVars, worker>>

MessageStatus == {"PENDING", "PROCESSING", "SENT", "DELIVERED", "FAILED",
                  "SUPPRESSED", "DEAD_LETTER"}
Settled == {"SENT", "DELIVERED", "SUPPRESSED", "DEAD_LETTER"}
TokenStates == {"none", "unlinked", "linked", "cleared"}
ProviderStatus == {"sent", "delivered", "undelivered"}

Worker == [pc : {"idle", "read", "permitted", "counted", "sending", "accepted", "failed"},
           msg : Messages \cup {NoMessage}, attempts : Nat, sid : Nat]
IdleWorker == [pc |-> "idle", msg |-> NoMessage, attempts |-> 0, sid |-> 0]

TypeOK ==
    /\ status \in [Messages -> MessageStatus \cup {"NONE"}]
    /\ attemptCount \in [Messages -> Nat] /\ reference \in [Messages -> Nat]
    /\ due \in [Messages -> BOOLEAN] /\ sentToday \in [Messages -> BOOLEAN]
    /\ token \in [Messages -> TokenStates] /\ consent \in [Messages -> BOOLEAN]
    /\ accepted \in [Messages -> Nat] /\ seen \subseteq Messages \X Nat \X ProviderStatus
    /\ worker \in [Workers -> Worker]

Init ==
    /\ status = [m \in Messages |-> "NONE"]
    /\ attemptCount = [m \in Messages |-> 0] /\ reference = [m \in Messages |-> 0]
    /\ due = [m \in Messages |-> TRUE] /\ sentToday = [m \in Messages |-> FALSE]
    /\ token = [m \in Messages |-> IF m \in Invitations THEN "unlinked" ELSE "none"]
    /\ consent \in [Messages -> BOOLEAN]
    /\ accepted = [m \in Messages |-> 0] /\ seen = {}
    /\ worker = [w \in Workers |-> IdleWorker]

-----------------------------------------------------------------------------
\* enqueueUtility: an upsert on the idempotency key that leaves a row alone once
\* it exists.  A suppressed row is never read again, so createInvitation's
\* dropping of the token that follows is part of the step.
enqueueUtility(m) ==
    /\ status[m] = "NONE"
    /\ status' = [status EXCEPT ![m] = IF consent[m] THEN "PENDING" ELSE "SUPPRESSED"]
    /\ token' = [token EXCEPT ![m] = IF @ = "unlinked" /\ ~consent[m] THEN "cleared" ELSE @]
    /\ UNCHANGED <<attemptCount, reference, due, sentToday, outsideVars, worker>>

\* createInvitation links the row it enqueued to the invitation.
LinkInvitation(m) ==
    /\ token[m] = "unlinked" /\ status[m] # "NONE"
    /\ token' = [token EXCEPT ![m] = "linked"]
    /\ UNCHANGED <<rowVars, outsideVars, worker>>

\* onboardingInvitation.updateMany where messageOutboxId is this row
KeepToken(m) == UNCHANGED token           \* mutant: the token left at rest
ClearToken(m) == token' = [token EXCEPT ![m] = IF @ = "linked" THEN "cleared" ELSE @]

\* revokeInvitation (platform-admin): the token first, then a row not yet sent.
RevokeToken(m) ==
    /\ token[m] \in {"unlinked", "linked"}
    /\ token' = [token EXCEPT ![m] = "cleared"]
    /\ UNCHANGED <<rowVars, outsideVars, worker>>

RevokeMessage(m) ==
    /\ token[m] = "cleared"
    /\ status[m] \in {"PENDING", "FAILED"}
    /\ status' = [status EXCEPT ![m] = "SUPPRESSED"]
    /\ UNCHANGED <<attemptCount, reference, due, sentToday, token, outsideVars, worker>>

-----------------------------------------------------------------------------
Step(w, pc) == worker' = [worker EXCEPT ![w].pc = pc]
Leave(w) == worker' = [worker EXCEPT ![w] = IdleWorker]

\* processDue picks rows to try; processOne looks at the status again.
PickPending(m) == status[m] = "PENDING"           \* mutant: FAILED never retried
PickUnsent(m) == status[m] # "NONE" /\ reference[m] = 0   \* mutant: whatever was not sent
Pickable(m) == status[m] \in {"PENDING", "FAILED"}

processOneRead(w, m) ==
    /\ worker[w] = IdleWorker
    /\ Pickable(m) /\ due[m]
    /\ worker' = [worker EXCEPT ![w] = [pc |-> "read", msg |-> m,
                                        attempts |-> attemptCount[m], sid |-> 0]]
    /\ UNCHANGED <<rowVars, token, outsideVars>>

CheckConsent(w) ==
    LET m == worker[w].msg
    IN  /\ worker[w].pc = "read"
        /\ IF consent[m]
           THEN Step(w, "permitted") /\ UNCHANGED <<status, token>>
           ELSE /\ status' = [status EXCEPT ![m] = "SUPPRESSED"]
                /\ ClearToken(m)
                /\ Leave(w)
        /\ UNCHANGED <<attemptCount, reference, due, sentToday, outsideVars>>

CountedToday == {m \in Messages : sentToday[m] /\ status[m] \in {"SENT", "DELIVERED"}}

\* At the cap processOne throws, which also ends the processDue around it.
assertDailyCap(w) ==
    /\ worker[w].pc = "permitted"
    /\ IF Cardinality(CountedToday) < DailyCap THEN Step(w, "counted") ELSE Leave(w)
    /\ UNCHANGED <<rowVars, token, outsideVars>>

MarkProcessing(w) ==
    /\ worker[w].pc = "counted"
    /\ status' = [status EXCEPT ![worker[w].msg] = "PROCESSING"]
    /\ Step(w, "sending")
    /\ UNCHANGED <<attemptCount, reference, due, sentToday, token, outsideVars>>

\* sendWithProvider: accepted; or accepted although the answer (or the write
\* that records it) was lost.
ProviderAccepts(w, answered) ==
    LET m == worker[w].msg
    IN  /\ worker[w].pc = "sending"
        /\ token[m] \in {"none", "linked"}
        /\ accepted[m] < SendBound
        /\ accepted' = [accepted EXCEPT ![m] = @ + 1]
        /\ worker' = [worker EXCEPT ![w] = [@ EXCEPT !.sid = accepted[m] + 1,
                                    !.pc = IF answered THEN "accepted" ELSE "failed"]]
        /\ UNCHANGED <<rowVars, token, consent, seen>>

\* The provider refuses, or messageVariables finds no invitation token.
SendFails(w) ==
    /\ worker[w].pc = "sending"
    /\ Step(w, "failed")
    /\ UNCHANGED <<rowVars, token, outsideVars>>

RecordSent(w) ==
    LET m == worker[w].msg
    IN  /\ worker[w].pc = "accepted"
        /\ status' = [status EXCEPT ![m] = "SENT"]
        /\ reference' = [reference EXCEPT ![m] = worker[w].sid]
        /\ attemptCount' = [attemptCount EXCEPT ![m] = @ + 1]
        /\ sentToday' = [sentToday EXCEPT ![m] = TRUE]
        /\ ClearToken(m)
        /\ Leave(w)
        /\ UNCHANGED <<due, outsideVars>>

RecordFailed(w) ==
    LET m == worker[w].msg
        attempts == worker[w].attempts + 1
        terminal == attempts >= MaxAttempts
    IN  /\ worker[w].pc = "failed"
        /\ status' = [status EXCEPT ![m] = IF terminal THEN "DEAD_LETTER" ELSE "FAILED"]
        /\ attemptCount' = [attemptCount EXCEPT ![m] = attempts]
        /\ due' = [due EXCEPT ![m] = FALSE]
        /\ IF terminal THEN ClearToken(m) ELSE UNCHANGED token
        /\ Leave(w)
        /\ UNCHANGED <<reference, sentToday, outsideVars>>

Crash(w) ==
    /\ Crashes /\ worker[w] # IdleWorker
    /\ Leave(w)
    /\ UNCHANGED <<rowVars, token, outsideVars>>

-----------------------------------------------------------------------------
\* The provider reports on a sid in any order; it never says that one send was
\* both delivered and undelivered.
Reported(m, k, said) ==
    /\ k \in 1 .. accepted[m]
    /\ <<m, k, said>> \notin seen
    /\ said = "undelivered" => <<m, k, "delivered">> \notin seen
    /\ said = "delivered" => <<m, k, "undelivered">> \notin seen

RawStatus(said) == said                   \* mutant: the provider's own word stored
mapTwilioStatus(said) ==
    CASE said = "delivered" -> "DELIVERED" [] said = "sent" -> "SENT" [] OTHER -> "FAILED"

\* handleTwilioWebhook: the event is claimed, then the row that carries its sid
\* (if any does yet) takes the mapped status.
MatchAny(m, k) == reference[m] # 0        \* mutant: matched by recipient
Matches(m, k) == reference[m] = k

handleTwilioWebhook(m, k, said) ==
    /\ Reported(m, k, said)
    /\ seen' = seen \cup {<<m, k, said>>}
    /\ status' = [status EXCEPT ![m] = IF Matches(m, k) THEN mapTwilioStatus(said) ELSE @]
    /\ UNCHANGED <<attemptCount, reference, due, sentToday, token, consent, accepted, worker>>

\* It stops after the claim: the event counts as processed.
WebhookStops(m, k, said) ==
    /\ Crashes
    /\ Reported(m, k, said)
    /\ seen' = seen \cup {<<m, k, said>>}
    /\ UNCHANGED <<rowVars, token, consent, accepted, worker>>

\* grantConsent, revokeConsent, STOP and START
ChangeConsent(m) ==
    /\ consent' = [consent EXCEPT ![m] = ~@]
    /\ UNCHANGED <<rowVars, token, accepted, seen, worker>>

\* Time: a backoff ends, a UTC day begins.
BackoffEnds(m) ==
    /\ ~due[m]
    /\ due' = [due EXCEPT ![m] = TRUE]
    /\ UNCHANGED <<status, attemptCount, reference, sentToday, token, outsideVars, worker>>

NewDay ==
    /\ sentToday # [m \in Messages |-> FALSE]
    /\ sentToday' = [m \in Messages |-> FALSE]
    /\ UNCHANGED <<status, attemptCount, reference, due, token, outsideVars, worker>>

WorkerStep(w) ==
    \/ CheckConsent(w) \/ assertDailyCap(w) \/ MarkProcessing(w)
    \/ \E answered \in BOOLEAN : ProviderAccepts(w, answered)
    \/ SendFails(w) \/ RecordSent(w) \/ RecordFailed(w)

Next ==
    \/ \E w \in Workers : WorkerStep(w) \/ Crash(w) \/ \E m \in Messages : processOneRead(w, m)
    \/ \E m \in Messages :
           \/ enqueueUtility(m) \/ ChangeConsent(m) \/ BackoffEnds(m)
           \/ \E k \in 1 .. SendBound, said \in ProviderStatus :
                  handleTwilioWebhook(m, k, said) \/ WebhookStops(m, k, said)
    \/ \E m \in Invitations :
           LinkInvitation(m) \/ RevokeToken(m) \/ RevokeMessage(m)
    \/ NewDay

Spec == Init /\ [][Next]_vars

\* Processes are not killed forever (a call that ends at the cap is not killed).
CrashesEnd == <>[][\A w \in Workers : Crash(w) => assertDailyCap(w)]_vars

\* The cron runs every few minutes and visits every due row; a call that started
\* goes on; backoffs end and days begin.
Fairness ==
    /\ CrashesEnd
    /\ \A w \in Workers : WF_vars(WorkerStep(w))
    /\ \A m \in Messages : SF_vars(\E w \in Workers : processOneRead(w, m))
    /\ \A m \in Messages : WF_vars(BackoffEnds(m))
    /\ WF_vars(NewDay)

FairSpec == Spec /\ Fairness

-----------------------------------------------------------------------------
Held(m) == \E w \in Workers : worker[w].msg = m

\* What a row says of a message rests on the provider's word: one SENT or
\* DELIVERED carries a sid the provider gave for it, and one DELIVERED a report
\* of delivery for that very sid, whatever workers and callbacks overlapped.
StatusEvidenced ==
    \A m \in Messages :
        /\ status[m] \in {"SENT", "DELIVERED"} => reference[m] \in 1 .. accepted[m]
        /\ status[m] = "DELIVERED" => <<m, reference[m], "delivered">> \in seen

\* An invitation's one-time token is not kept once a send of it is recorded,
\* even when callbacks make the message retryable again.
SentTokenGone == \A m \in Invitations : reference[m] # 0 => token[m] = "cleared"

\* What makes those two inductive: a call past its read holds a message, one
\* whose send was accepted holds a sid of it and a token still linked or gone.
CallsSound ==
    \A w \in Workers :
        LET m == worker[w].msg
        IN  /\ worker[w].pc # "idle" => m \in Messages
            /\ worker[w].pc = "accepted" =>
                   /\ worker[w].sid \in 1 .. accepted[m]
                   /\ token[m] # "unlinked"
                   /\ m \in Invitations => token[m] # "none"

RowsSound ==
    /\ \A m \in Messages : reference[m] <= accepted[m]
    /\ \A m \in Invitations : token[m] # "none"

OutboxInv == TypeOK /\ CallsSound /\ RowsSound /\ StatusEvidenced /\ SentTokenGone

\* A suppressed message that was never sent, and that no call still holds, is
\* not picked up again: neither the cron nor a callback revives it.
SuppressedStays ==
    [][\A m \in Messages :
           status[m] = "SUPPRESSED" /\ reference[m] = 0 /\ ~Held(m) =>
               status'[m] = "SUPPRESSED" /\ ~Held(m)']_vars

\* A row marked by a call that was killed: processDue selects it no more.
Stranded(m) == status[m] = "PROCESSING" /\ ~Held(m)

\* Every message enqueued comes to rest: retries end, the day's cap only
\* postpones, and processes that are killed cost no message but the one that a
\* call had marked PROCESSING when it died.
EverySettles ==
    \A m \in Messages :
        (status[m] \in {"PENDING", "PROCESSING", "FAILED"}) ~>
            (status[m] \in Settled \/ Stranded(m))

\* docs/RAILWAY_REMINDERS.md, of two message workers: "Outbox claiming is safe".
ClaimedOnce ==
    \A m \in Messages :
        Cardinality({w \in Workers : worker[w].msg = m
                                       /\ worker[w].pc \in {"sending", "accepted"}}) <= 1

=============================================================================
