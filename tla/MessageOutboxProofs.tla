------------------------ MODULE MessageOutboxProofs -------------------------
(***************************************************************************)
(* For any number of messages, workers, attempts and sends: the outbox's   *)
(* rows keep their types, what a row says of a message rests on the        *)
(* provider's word, and an invitation's token is gone once it was sent.    *)
(* Where no two calls hold a message its sends are counted against the     *)
(* maximum, and where no two count at once the day's cap is kept.          *)
(* The second part is about the owner's digest, which the outbox delivers: *)
(* each reminder is given once, and only to the number chosen for it.      *)
(***************************************************************************)
EXTENDS MessageOutbox, AttentionDigest, FiniteSetTheorems, TLAPS

USE MessagesAssumption, LimitsAssumption

LEMMA InitInv == Init => OutboxInv
  BY DEF Init, OutboxInv, TypeOK, CallsSound, RowsSound, StatusEvidenced, SentTokenGone,
         MessageStatus, TokenStates, Worker, IdleWorker

\* Rows change here; the calls in flight do not.
LEMMA EnqueuePreserves ==
    ASSUME OutboxInv, NEW m \in Messages, enqueueUtility(m)
    PROVE  OutboxInv'
  BY DEF enqueueUtility, outsideVars, OutboxInv, TypeOK, CallsSound, RowsSound,
         StatusEvidenced, SentTokenGone, MessageStatus, TokenStates, Worker

LEMMA InvitationPreserves ==
    ASSUME OutboxInv, NEW m \in Invitations,
           LinkInvitation(m) \/ RevokeToken(m) \/ RevokeMessage(m)
    PROVE  OutboxInv'
<1>1. CASE LinkInvitation(m)
  BY <1>1 DEF LinkInvitation, rowVars, outsideVars, OutboxInv, TypeOK, CallsSound, RowsSound,
              StatusEvidenced, SentTokenGone, MessageStatus, TokenStates, Worker
<1>2. CASE RevokeToken(m)
  BY <1>2 DEF RevokeToken, rowVars, outsideVars, OutboxInv, TypeOK, CallsSound, RowsSound,
              StatusEvidenced, SentTokenGone, MessageStatus, TokenStates, Worker
<1>3. CASE RevokeMessage(m)
  BY <1>3 DEF RevokeMessage, outsideVars, OutboxInv, TypeOK, CallsSound, RowsSound,
              StatusEvidenced, SentTokenGone, MessageStatus, TokenStates, Worker
<1> QED BY <1>1, <1>2, <1>3

LEMMA ReadPreserves ==
    ASSUME OutboxInv, NEW w \in Workers, NEW m \in Messages, processOneRead(w, m)
    PROVE  OutboxInv'
<1>1. [pc |-> "read", msg |-> m, attempts |-> attemptCount[m], sid |-> 0] \in Worker
  BY DEF OutboxInv, TypeOK, Worker
<1> QED
  BY <1>1 DEF processOneRead, rowVars, outsideVars, OutboxInv, TypeOK, CallsSound, RowsSound,
              StatusEvidenced, SentTokenGone

LEMMA IdleIsWorker == IdleWorker \in Worker
  BY DEF IdleWorker, Worker

LEMMA HoldsMessage ==
    ASSUME OutboxInv, NEW w \in Workers, worker[w].pc # "idle"
    PROVE  worker[w].msg \in Messages /\ worker[w] \in Worker
  BY DEF OutboxInv, TypeOK, CallsSound

\* A call ends or goes on without an accepted send.
LEMMA LeaveSound ==
    ASSUME OutboxInv, NEW w \in Workers, Leave(w)
    PROVE  /\ worker' \in [Workers -> Worker]
           /\ \A v \in Workers : worker'[v].pc # "idle" => v # w /\ worker'[v] = worker[v]
<1>1. worker'[w].pc = "idle"
  BY DEF Leave, IdleWorker, OutboxInv, TypeOK
<1> QED
  BY <1>1, IdleIsWorker DEF Leave, OutboxInv, TypeOK

LEMMA StepSound ==
    ASSUME OutboxInv, NEW w \in Workers, worker[w].pc # "idle",
           NEW pc \in {"permitted", "counted", "sending", "failed"}, Step(w, pc)
    PROVE  /\ worker' \in [Workers -> Worker]
           /\ \A v \in Workers : worker'[v].msg = worker[v].msg
           /\ \A v \in Workers : worker'[v].pc = "accepted" => worker'[v] = worker[v]
           /\ \A v \in Workers : worker'[v].pc # "idle" => worker[v].pc # "idle"
<1>1. worker[w] \in Worker /\ worker' = [worker EXCEPT ![w] = [worker[w] EXCEPT !.pc = pc]]
  BY DEF Step, OutboxInv, TypeOK
<1>2. [worker[w] EXCEPT !.pc = pc] \in Worker
  BY <1>1 DEF Worker
<1>3. worker'[w].pc = pc /\ worker'[w].msg = worker[w].msg
  BY <1>1 DEF Worker, OutboxInv, TypeOK
<1> QED
  BY <1>1, <1>2, <1>3 DEF OutboxInv, TypeOK

-----------------------------------------------------------------------------
\* One lemma per step of a call.
LEMMA ConsentPreserves ==
    ASSUME OutboxInv, NEW w \in Workers, CheckConsent(w)
    PROVE  OutboxInv'
<1> DEFINE m == worker[w].msg
<1>1. worker[w].pc # "idle" /\ m \in Messages
  BY HoldsMessage DEF CheckConsent
<1>2. CASE consent[m]
  <2>1. Step(w, "permitted") /\ UNCHANGED <<rowVars, token, outsideVars>>
    BY <1>2 DEF CheckConsent, rowVars
  <2> QED
    BY <1>1, <2>1, StepSound DEF rowVars, outsideVars, OutboxInv, TypeOK, CallsSound, RowsSound,
                                 StatusEvidenced, SentTokenGone
<1>3. CASE ~consent[m]
  <2>1. Leave(w) /\ ClearToken(m) /\ status' = [status EXCEPT ![m] = "SUPPRESSED"]
        /\ UNCHANGED <<attemptCount, reference, due, sentToday, outsideVars>>
    BY <1>3 DEF CheckConsent
  <2> QED
    BY <1>1, <2>1, LeaveSound
    DEF ClearToken, outsideVars, OutboxInv, TypeOK, CallsSound, RowsSound,
        StatusEvidenced, SentTokenGone, MessageStatus, TokenStates
<1> QED BY <1>2, <1>3

LEMMA CapPreserves ==
    ASSUME OutboxInv, NEW w \in Workers, assertDailyCap(w)
    PROVE  OutboxInv'
<1>1. worker[w].pc # "idle" /\ UNCHANGED <<rowVars, token, outsideVars>>
      /\ (Step(w, "counted") \/ Leave(w))
  BY DEF assertDailyCap
<1> QED
  BY <1>1, StepSound, LeaveSound
  DEF rowVars, outsideVars, OutboxInv, TypeOK, CallsSound, RowsSound, StatusEvidenced, SentTokenGone

LEMMA MarkPreserves ==
    ASSUME OutboxInv, NEW w \in Workers, MarkProcessing(w)
    PROVE  OutboxInv'
<1>1. worker[w].pc # "idle" /\ worker[w].msg \in Messages /\ Step(w, "sending")
  BY HoldsMessage DEF MarkProcessing
<1> QED
  BY <1>1, StepSound
  DEF MarkProcessing, outsideVars, OutboxInv, TypeOK, CallsSound, RowsSound,
      StatusEvidenced, SentTokenGone, MessageStatus

LEMMA FailsPreserves ==
    ASSUME OutboxInv, NEW w \in Workers, SendFails(w)
    PROVE  OutboxInv'
<1>1. worker[w].pc # "idle" /\ Step(w, "failed") /\ UNCHANGED <<rowVars, token, outsideVars>>
  BY DEF SendFails
<1> QED
  BY <1>1, StepSound
  DEF rowVars, outsideVars, OutboxInv, TypeOK, CallsSound, RowsSound, StatusEvidenced, SentTokenGone

LEMMA AcceptPreserves ==
    ASSUME OutboxInv, NEW w \in Workers, NEW answered \in BOOLEAN, ProviderAccepts(w, answered)
    PROVE  OutboxInv'
<1> DEFINE m == worker[w].msg
           after == IF answered THEN "accepted" ELSE "failed"
           held == [worker[w] EXCEPT !.sid = accepted[m] + 1, !.pc = after]
<1>1. worker[w].pc = "sending" /\ m \in Messages /\ worker[w] \in Worker
  BY HoldsMessage DEF ProviderAccepts
<1>2. accepted' = [accepted EXCEPT ![m] = @ + 1] /\ accepted[m] \in Nat
  BY <1>1 DEF ProviderAccepts, OutboxInv, TypeOK
<1>3. worker' = [worker EXCEPT ![w] = held] /\ held \in Worker
  <2>1. worker' = [worker EXCEPT ![w] = held]
    BY DEF ProviderAccepts, OutboxInv, TypeOK
  <2>2. after \in {"accepted", "failed"} /\ accepted[m] + 1 \in Nat
    BY <1>2
  <2> HIDE DEF after
  <2>3. held \in Worker
    BY <1>1, <2>2 DEF Worker
  <2> QED BY <2>1, <2>3
<1>4. worker'[w].msg = m /\ worker'[w].sid = accepted'[m]
      /\ \A v \in Workers : v # w => worker'[v] = worker[v]
  BY <1>1, <1>2, <1>3 DEF Worker, OutboxInv, TypeOK
<1>5. token[m] \in {"none", "linked"} /\ UNCHANGED <<rowVars, token, consent, seen>>
  BY DEF ProviderAccepts
<1>6. \A n \in Messages : accepted'[n] \in Nat /\ accepted[n] <= accepted'[n]
  BY <1>2 DEF OutboxInv, TypeOK
<1>7. accepted' \in [Messages -> Nat] /\ accepted'[m] \in 1 .. accepted'[m]
  BY <1>1, <1>2 DEF OutboxInv, TypeOK
<1>8. TypeOK'
  BY <1>3, <1>5, <1>7 DEF OutboxInv, TypeOK, rowVars
<1>9. CallsSound'
  <2> SUFFICES ASSUME NEW v \in Workers
               PROVE  /\ worker'[v].pc # "idle" => worker'[v].msg \in Messages
                      /\ worker'[v].pc = "accepted" =>
                             /\ worker'[v].sid \in 1 .. accepted'[worker'[v].msg]
                             /\ token[worker'[v].msg] # "unlinked"
                             /\ worker'[v].msg \in Invitations => token[worker'[v].msg] # "none"
    BY <1>5 DEF CallsSound
  <2>1. CASE v = w
    BY <2>1, <1>1, <1>4, <1>5, <1>7 DEF OutboxInv, RowsSound
  <2>2. CASE v # w
    <3>1. worker'[v] = worker[v]
      BY <2>2, <1>4
    <3>2. CASE worker[v].pc = "accepted"
      <4>1. worker[v].msg \in Messages /\ worker[v].sid \in 1 .. accepted[worker[v].msg]
        BY <3>2 DEF OutboxInv, CallsSound
      <4>2. worker[v].sid \in 1 .. accepted'[worker[v].msg]
        BY <4>1, <1>6 DEF OutboxInv, TypeOK
      <4> QED BY <3>1, <3>2, <4>1, <4>2 DEF OutboxInv, CallsSound
    <3> QED BY <3>1, <3>2 DEF OutboxInv, CallsSound
  <2> QED BY <2>1, <2>2
<1>10. \A n \in Messages : reference[n] <= accepted'[n]
  BY <1>6 DEF OutboxInv, TypeOK, RowsSound
<1>11. RowsSound' /\ SentTokenGone'
  BY <1>5, <1>10 DEF OutboxInv, RowsSound, SentTokenGone, rowVars
<1>12. \A n \in Messages : reference[n] \in 1 .. accepted[n] => reference[n] \in 1 .. accepted'[n]
  BY <1>6 DEF OutboxInv, TypeOK
<1>13. StatusEvidenced'
  BY <1>5, <1>12 DEF OutboxInv, StatusEvidenced, rowVars
<1> QED BY <1>8, <1>9, <1>11, <1>13 DEF OutboxInv

LEMMA SentPreserves ==
    ASSUME OutboxInv, NEW w \in Workers, RecordSent(w)
    PROVE  OutboxInv'
<1> DEFINE m == worker[w].msg
<1>1. worker[w].pc = "accepted" /\ m \in Messages /\ worker[w] \in Worker
  BY HoldsMessage DEF RecordSent
<1>2. worker[w].sid \in 1 .. accepted[m] /\ token[m] # "unlinked"
      /\ (m \in Invitations => token[m] # "none") /\ worker[w].sid \in Nat
  BY <1>1 DEF OutboxInv, CallsSound, Worker
<1>3. Leave(w) /\ ClearToken(m)
  BY DEF RecordSent
<1>4. m \in Invitations => token'[m] = "cleared"
  BY <1>1, <1>2, <1>3 DEF ClearToken, OutboxInv, TypeOK, TokenStates
<1>5. /\ token' \in [Messages -> TokenStates]
      /\ \A n \in Messages : token[n] = token'[n] \/ token'[n] = "cleared"
  BY <1>1, <1>3 DEF ClearToken, OutboxInv, TypeOK, TokenStates
<1>6. /\ status' = [status EXCEPT ![m] = "SENT"]
      /\ reference' = [reference EXCEPT ![m] = worker[w].sid]
      /\ attemptCount' = [attemptCount EXCEPT ![m] = @ + 1]
      /\ sentToday' = [sentToday EXCEPT ![m] = TRUE]
      /\ UNCHANGED <<due, outsideVars>>
  BY DEF RecordSent
<1>7. TypeOK'
  BY <1>1, <1>2, <1>3, <1>5, <1>6, LeaveSound DEF OutboxInv, TypeOK, MessageStatus, outsideVars
<1>8. CallsSound'
  BY <1>3, <1>5, <1>6, LeaveSound DEF OutboxInv, CallsSound, outsideVars
<1>9. RowsSound' /\ SentTokenGone' /\ StatusEvidenced'
  BY <1>1, <1>2, <1>4, <1>5, <1>6
  DEF OutboxInv, TypeOK, RowsSound, SentTokenGone, StatusEvidenced, outsideVars
<1> QED BY <1>7, <1>8, <1>9 DEF OutboxInv

LEMMA FailedPreserves ==
    ASSUME OutboxInv, NEW w \in Workers, RecordFailed(w)
    PROVE  OutboxInv'
<1> DEFINE m == worker[w].msg
           attempts == worker[w].attempts + 1
<1>1. worker[w].pc = "failed" /\ m \in Messages /\ attempts \in Nat
  BY HoldsMessage DEF RecordFailed, Worker
<1>2. Leave(w) /\ (ClearToken(m) \/ UNCHANGED token)
  BY DEF RecordFailed
<1>3. /\ token' \in [Messages -> TokenStates]
      /\ \A n \in Messages : token[n] = token'[n] \/ token'[n] = "cleared"
  BY <1>1, <1>2 DEF ClearToken, OutboxInv, TypeOK, TokenStates
<1>4. /\ \E s \in {"DEAD_LETTER", "FAILED"} : status' = [status EXCEPT ![m] = s]
      /\ attemptCount' = [attemptCount EXCEPT ![m] = attempts]
      /\ due' = [due EXCEPT ![m] = FALSE]
      /\ UNCHANGED <<reference, sentToday, outsideVars>>
  BY DEF RecordFailed
<1>5. TypeOK'
  BY <1>1, <1>2, <1>3, <1>4, LeaveSound DEF OutboxInv, TypeOK, MessageStatus, outsideVars
<1>6. CallsSound' /\ RowsSound' /\ SentTokenGone' /\ StatusEvidenced'
  BY <1>1, <1>2, <1>3, <1>4, LeaveSound
  DEF OutboxInv, TypeOK, CallsSound, RowsSound, SentTokenGone, StatusEvidenced, outsideVars
<1> QED BY <1>5, <1>6 DEF OutboxInv

LEMMA CrashPreserves ==
    ASSUME OutboxInv, NEW w \in Workers, Crash(w)
    PROVE  OutboxInv'
  BY LeaveSound
  DEF Crash, rowVars, outsideVars, OutboxInv, TypeOK, CallsSound, RowsSound,
      StatusEvidenced, SentTokenGone

-----------------------------------------------------------------------------
\* A callback writes SENT or DELIVERED only over a row that carries its sid.
LEMMA WebhookPreserves ==
    ASSUME OutboxInv, NEW m \in Messages, NEW k \in 1 .. SendBound, NEW said \in ProviderStatus,
           handleTwilioWebhook(m, k, said) \/ WebhookStops(m, k, said)
    PROVE  OutboxInv'
<1>1. seen' = seen \cup {<<m, k, said>>} /\ k \in 1 .. accepted[m] /\ k \in Nat
      /\ UNCHANGED <<attemptCount, reference, due, sentToday, token, consent, accepted, worker>>
  BY DEF handleTwilioWebhook, WebhookStops, Reported, rowVars
<1>2. seen' \subseteq Messages \X Nat \X ProviderStatus
  BY <1>1 DEF OutboxInv, TypeOK
<1>3. status' = status \/ (reference[m] = k /\ status' = [status EXCEPT ![m] = mapTwilioStatus(said)])
  BY DEF handleTwilioWebhook, WebhookStops, Matches, rowVars, OutboxInv, TypeOK
<1>4. mapTwilioStatus(said) \in MessageStatus
      /\ (mapTwilioStatus(said) = "DELIVERED" => said = "delivered")
  BY DEF mapTwilioStatus, ProviderStatus, MessageStatus
<1>5. status' \in [Messages -> MessageStatus \cup {"NONE"}]
  BY <1>3, <1>4 DEF OutboxInv, TypeOK
<1>6. TypeOK'
  BY <1>1, <1>2, <1>5 DEF OutboxInv, TypeOK
<1>7. CallsSound' /\ RowsSound' /\ SentTokenGone'
  BY <1>1 DEF OutboxInv, CallsSound, RowsSound, SentTokenGone
<1>8. StatusEvidenced'
  <2> SUFFICES ASSUME NEW n \in Messages
               PROVE  /\ status'[n] \in {"SENT", "DELIVERED"} => reference[n] \in 1 .. accepted[n]
                      /\ status'[n] = "DELIVERED" => <<n, reference[n], "delivered">> \in seen'
    BY <1>1 DEF StatusEvidenced
  <2>1. CASE status'[n] = status[n]
    BY <2>1, <1>1 DEF OutboxInv, StatusEvidenced
  <2>2. CASE status'[n] # status[n]
    <3>1. n = m /\ reference[m] = k /\ status'[n] = mapTwilioStatus(said)
      BY <2>2, <1>3 DEF OutboxInv, TypeOK
    <3> QED BY <3>1, <1>1, <1>4
  <2> QED BY <2>1, <2>2
<1> QED BY <1>6, <1>7, <1>8 DEF OutboxInv

LEMMA OutsidePreserves ==
    ASSUME OutboxInv, NewDay \/ \E m \in Messages : ChangeConsent(m) \/ BackoffEnds(m)
    PROVE  OutboxInv'
<1>1. CASE NewDay
  BY <1>1 DEF NewDay, outsideVars, OutboxInv, TypeOK, CallsSound, RowsSound,
              StatusEvidenced, SentTokenGone
<1>2. ASSUME NEW m \in Messages, ChangeConsent(m)
      PROVE  OutboxInv'
  BY <1>2 DEF ChangeConsent, rowVars, OutboxInv, TypeOK, CallsSound, RowsSound,
              StatusEvidenced, SentTokenGone
<1>3. ASSUME NEW m \in Messages, BackoffEnds(m)
      PROVE  OutboxInv'
  BY <1>3 DEF BackoffEnds, outsideVars, OutboxInv, TypeOK, CallsSound, RowsSound,
              StatusEvidenced, SentTokenGone
<1> QED BY <1>1, <1>2, <1>3

LEMMA NextPreserves == OutboxInv /\ [Next]_vars => OutboxInv'
<1> SUFFICES ASSUME OutboxInv, [Next]_vars PROVE OutboxInv'
  OBVIOUS
<1>1. ASSUME NEW w \in Workers, WorkerStep(w)
      PROVE  OutboxInv'
  BY <1>1, ConsentPreserves, CapPreserves, MarkPreserves, AcceptPreserves, FailsPreserves,
     SentPreserves, FailedPreserves DEF WorkerStep
<1>2. CASE UNCHANGED vars
  BY <1>2 DEF vars, rowVars, outsideVars, OutboxInv, TypeOK, CallsSound, RowsSound,
              StatusEvidenced, SentTokenGone
<1> QED
  BY <1>1, <1>2, EnqueuePreserves, InvitationPreserves, ReadPreserves, CrashPreserves,
     WebhookPreserves, OutsidePreserves DEF Next

\* The outbox's inductive invariant holds in every reachable state.
THEOREM OutboxInvariance == Spec => []OutboxInv
  BY InitInv, NextPreserves, PTL DEF Spec

\* processOne's writes and handleTwilioWebhook's keep every column in its type.
THEOREM OutboxTypes == Spec => []TypeOK
<1>1. OutboxInv => TypeOK
  BY DEF OutboxInv
<1> QED BY <1>1, OutboxInvariance, PTL

\* A row says SENT or DELIVERED only with the sid, and the report, of the
\* provider, for every overlap of workers, crashes and late callbacks.
THEOREM SendsAreEvidenced == Spec => []StatusEvidenced
<1>1. OutboxInv => StatusEvidenced
  BY DEF OutboxInv
<1> QED BY <1>1, OutboxInvariance, PTL

\* A founding invitation's token does not outlive the record of its send.
THEOREM TokenGoneOnceSent == Spec => []SentTokenGone
<1>1. OutboxInv => SentTokenGone
  BY DEF OutboxInv
<1> QED BY <1>1, OutboxInvariance, PTL

-----------------------------------------------------------------------------
\* A call writes the row of the message it holds, and takes up no other; a
\* callback writes a row that carries a sid.
LEMMA SuppressedKept ==
    ASSUME OutboxInv, [Next]_vars, NEW m \in Messages,
           status[m] = "SUPPRESSED", reference[m] = 0, ~Held(m)
    PROVE  status'[m] = "SUPPRESSED" /\ ~Held(m)'
<1>1. \A w \in Workers : worker[w].msg # m
  BY DEF Held
<1>2. IdleWorker.msg # m
  BY MessagesAssumption DEF IdleWorker
<1>3. ASSUME UNCHANGED <<status, worker>> PROVE status'[m] = "SUPPRESSED" /\ ~Held(m)'
  BY <1>3 DEF Held
<1>4. ASSUME NEW w \in Workers, Leave(w) PROVE ~Held(m)'
  BY <1>1, <1>2, <1>4 DEF Leave, Held, OutboxInv, TypeOK
<1>5. ASSUME NEW w \in Workers, NEW pc, Step(w, pc) PROVE ~Held(m)'
  <2>1. worker[w] \in Worker /\ worker' = [worker EXCEPT ![w] = [worker[w] EXCEPT !.pc = pc]]
    BY <1>5 DEF Step, OutboxInv, TypeOK
  <2>2. [worker[w] EXCEPT !.pc = pc].msg = worker[w].msg
    BY <2>1 DEF Worker
  <2> QED BY <1>1, <2>1, <2>2 DEF Held, OutboxInv, TypeOK
<1>6. ASSUME NEW w \in Workers, NEW s, status' = [status EXCEPT ![worker[w].msg] = s]
      PROVE  status'[m] = "SUPPRESSED"
  BY <1>1, <1>6 DEF OutboxInv, TypeOK
<1>7. ASSUME NEW w \in Workers, WorkerStep(w) \/ Crash(w)
      PROVE  status'[m] = "SUPPRESSED" /\ ~Held(m)'
  <2>1. CASE CheckConsent(w)
    BY <2>1, <1>4, <1>5, <1>6 DEF CheckConsent
  <2>2. CASE assertDailyCap(w)
    BY <2>2, <1>4, <1>5 DEF assertDailyCap, rowVars
  <2>3. CASE MarkProcessing(w)
    BY <2>3, <1>5, <1>6 DEF MarkProcessing
  <2>4. ASSUME NEW answered \in BOOLEAN, ProviderAccepts(w, answered)
        PROVE  status'[m] = "SUPPRESSED" /\ ~Held(m)'
    <3> DEFINE pc == IF answered THEN "accepted" ELSE "failed"
               held == [worker[w] EXCEPT !.sid = accepted[worker[w].msg] + 1, !.pc = pc]
    <3>1. worker' = [worker EXCEPT ![w] = held] /\ status' = status /\ worker[w] \in Worker
      BY <2>4 DEF ProviderAccepts, rowVars, OutboxInv, TypeOK
    <3> HIDE DEF pc
    <3>2. held.msg = worker[w].msg
      BY <3>1 DEF Worker
    <3> QED BY <1>1, <3>1, <3>2 DEF Held, OutboxInv, TypeOK
  <2>5. CASE SendFails(w)
    BY <2>5, <1>5 DEF SendFails, rowVars
  <2>6. CASE RecordSent(w)
    BY <2>6, <1>4, <1>6 DEF RecordSent
  <2>7. CASE RecordFailed(w)
    BY <2>7, <1>4, <1>6 DEF RecordFailed
  <2>8. CASE Crash(w)
    BY <2>8, <1>4 DEF Crash, rowVars
  <2> QED BY <1>7, <2>1, <2>2, <2>3, <2>4, <2>5, <2>6, <2>7, <2>8 DEF WorkerStep
<1>8. ASSUME NEW w \in Workers, NEW n \in Messages, processOneRead(w, n)
      PROVE  status'[m] = "SUPPRESSED" /\ ~Held(m)'
  <2>1. n # m
    BY <1>8 DEF processOneRead, Pickable
  <2> QED BY <1>1, <1>8, <2>1 DEF processOneRead, rowVars, Held, OutboxInv, TypeOK
<1>9. ASSUME NEW n \in Messages, enqueueUtility(n) \/ ChangeConsent(n) \/ BackoffEnds(n)
      PROVE  status'[m] = "SUPPRESSED" /\ ~Held(m)'
  <2>1. worker' = worker /\ (status' = status \/ n # m)
    BY <1>9 DEF enqueueUtility, ChangeConsent, BackoffEnds, rowVars
  <2> QED BY <1>1, <1>9, <2>1 DEF Held, enqueueUtility, ChangeConsent, BackoffEnds, rowVars, OutboxInv, TypeOK
<1>10. ASSUME NEW n \in Messages, NEW k \in 1 .. SendBound, NEW said \in ProviderStatus,
              handleTwilioWebhook(n, k, said) \/ WebhookStops(n, k, said)
       PROVE  status'[m] = "SUPPRESSED" /\ ~Held(m)'
  <2>1. k # 0 /\ worker' = worker
    BY <1>10, LimitsAssumption DEF handleTwilioWebhook, WebhookStops, rowVars
  <2>2. status'[m] = status[m]
    BY <1>10, <2>1 DEF handleTwilioWebhook, WebhookStops, Matches, rowVars, OutboxInv, TypeOK
  <2> QED BY <1>1, <2>1, <2>2 DEF Held
<1>11. ASSUME NEW n \in Invitations, LinkInvitation(n) \/ RevokeToken(n) \/ RevokeMessage(n)
       PROVE  status'[m] = "SUPPRESSED" /\ ~Held(m)'
  <2>1. worker' = worker
    BY <1>11 DEF LinkInvitation, RevokeToken, RevokeMessage
  <2>2. status'[m] = "SUPPRESSED"
    BY <1>11 DEF LinkInvitation, RevokeToken, RevokeMessage, rowVars, OutboxInv, TypeOK
  <2> QED BY <1>1, <2>1, <2>2 DEF Held
<1>12. CASE NewDay
  BY <1>3, <1>12 DEF NewDay
<1>13. CASE UNCHANGED vars
  BY <1>3, <1>13 DEF vars, rowVars
<1> QED BY <1>7, <1>8, <1>9, <1>10, <1>11, <1>12, <1>13 DEF Next

\* No cron run and no callback takes up a suppressed message that was never sent.
THEOREM SuppressedIsFinal == Spec => SuppressedStays
<1> DEFINE Stays == \A m \in Messages :
        status[m] = "SUPPRESSED" /\ reference[m] = 0 /\ ~Held(m) =>
            status'[m] = "SUPPRESSED" /\ ~Held(m)'
<1>1. OutboxInv /\ [Next]_vars => [Stays]_vars
  BY SuppressedKept
<1> QED BY <1>1, OutboxInvariance, PTL DEF Spec, SuppressedStays

-----------------------------------------------------------------------------
(***************************************************************************)
(* Retries.  The claim a worker would make of a row, had processOne one,   *)
(* is that no other call in flight holds it.  Where that is so, a message  *)
(* is tried, and sent, MaxAttempts times at most, and once more for every  *)
(* send the provider reports undelivered; calls may stop at any step.      *)
(***************************************************************************)
ClaimedAlone ==
    \A v, w \in Workers :
        worker[v].pc # "idle" /\ worker[w].pc # "idle" /\ worker[v].msg = worker[w].msg => v = w

Bounces(m) == {e \in seen : e[1] = m /\ e[3] = "undelivered"}
Budget(m) == MaxAttempts + Cardinality(Bounces(m))

AttemptsBudgeted ==
    \A m \in Messages : attemptCount[m] <= Budget(m) /\ accepted[m] <= Budget(m)

\* No report can make the row retryable again: none matches it, or the one that
\* could is in already.
Answered(m) == reference[m] = 0 \/ <<m, reference[m], "undelivered">> \in seen

\* A row tells how often its message was sent, but for one send whose call has
\* not recorded it, or stopped before it could; that row is tried no more.
Owed(m) ==
    /\ accepted[m] = attemptCount[m] + 1 /\ attemptCount[m] < Budget(m)
    /\ ~Pickable(m) /\ Answered(m)

RowBudget(m) ==
    /\ status[m] = "NONE" => accepted[m] = 0 /\ attemptCount[m] = 0 /\ reference[m] = 0
    /\ attemptCount[m] <= Budget(m)
    /\ Pickable(m) => attemptCount[m] < Budget(m) /\ Answered(m)
    /\ accepted[m] <= attemptCount[m] \/ Owed(m)

CallBudget(c) ==
    LET m == c.msg
    IN  c.pc # "idle" =>
            /\ status[m] # "NONE"
            /\ c.attempts = attemptCount[m] /\ attemptCount[m] < Budget(m) /\ Answered(m)
            /\ c.pc \in {"read", "permitted", "counted", "sending"} => accepted[m] <= attemptCount[m]
            /\ c.pc \in {"sending", "accepted", "failed"} => ~Pickable(m)

BudgetInv ==
    /\ IsFiniteSet(seen)
    /\ \A m \in Messages : RowBudget(m)
    /\ \A w \in Workers : CallBudget(worker[w])

\* The budget of a message is a number; a report of its failure adds one to it.
LEMMA BudgetType ==
    ASSUME IsFiniteSet(seen), NEW m \in Messages
    PROVE  Budget(m) \in Nat /\ MaxAttempts <= Budget(m)
<1>1. IsFiniteSet(Bounces(m))
  BY FS_Subset DEF Bounces
<1>2. Cardinality(Bounces(m)) \in Nat
  BY <1>1, FS_CardinalityType
<1> QED BY <1>2 DEF Budget

LEMMA BudgetGrows ==
    ASSUME IsFiniteSet(seen), NEW m \in Messages, NEW k \in Nat, NEW said \in ProviderStatus,
           <<m, k, said>> \notin seen, seen' = seen \cup {<<m, k, said>>}
    PROVE  /\ IsFiniteSet(seen')
           /\ Budget(m)' = IF said = "undelivered" THEN Budget(m) + 1 ELSE Budget(m)
           /\ \A n \in Messages : n # m => Budget(n)' = Budget(n)
<1> DEFINE e == <<m, k, said>>
<1>1. IsFiniteSet(seen')
  BY FS_AddElement
<1>2. \A n \in Messages : n # m => Bounces(n)' = Bounces(n)
  BY DEF Bounces
<1>3. CASE said = "undelivered"
  <2>1. Bounces(m)' = Bounces(m) \cup {e} /\ e \notin Bounces(m)
    BY <1>3 DEF Bounces
  <2>2. IsFiniteSet(Bounces(m))
    BY FS_Subset DEF Bounces
  <2>3. Cardinality(Bounces(m)') = Cardinality(Bounces(m)) + 1 /\ Cardinality(Bounces(m)) \in Nat
    BY <2>1, <2>2, FS_AddElement, FS_CardinalityType
  <2> QED BY <1>1, <1>2, <1>3, <2>3 DEF Budget
<1>4. CASE said # "undelivered"
  <2>1. Bounces(m)' = Bounces(m)
    BY <1>4 DEF Bounces
  <2> QED BY <1>1, <1>2, <1>4, <2>1 DEF Budget
<1> QED BY <1>3, <1>4

LEMMA BudgetKept ==
    ASSUME UNCHANGED seen
    PROVE  \A m \in Messages : Budget(m)' = Budget(m)
  BY DEF Budget, Bounces

\* A row nobody writes keeps its budget, and so does a call on it.
LEMMA RowUntouched ==
    ASSUME NEW m \in Messages, RowBudget(m),
           UNCHANGED <<status[m], attemptCount[m], accepted[m], reference[m], seen>>
    PROVE  RowBudget(m)'
  BY BudgetKept DEF RowBudget, Owed, Pickable, Answered

LEMMA CallUntouched ==
    ASSUME OutboxInv, BudgetInv, NEW v \in Workers, worker'[v] = worker[v],
           worker[v].pc # "idle" =>
               UNCHANGED <<status[worker[v].msg], attemptCount[worker[v].msg],
                           accepted[worker[v].msg], reference[worker[v].msg], seen>>
    PROVE  CallBudget(worker[v])'
<1>1. worker[v].pc # "idle" => worker[v].msg \in Messages
  BY HoldsMessage
<1> QED BY <1>1, BudgetKept DEF BudgetInv, CallBudget, Pickable, Answered

\* A call that moves on writes its own message's row, which nobody else holds.
LEMMA CallMoves ==
    ASSUME OutboxInv, BudgetInv, ClaimedAlone, NEW w \in Workers, worker[w].pc # "idle",
           NEW m \in Messages, m = worker[w].msg, UNCHANGED seen,
           \A v \in Workers : v # w => worker'[v] = worker[v],
           \A n \in Messages : n # m =>
               UNCHANGED <<status[n], attemptCount[n], accepted[n], reference[n]>>,
           RowBudget(m)', CallBudget(worker[w])'
    PROVE  BudgetInv'
<1>1. \A n \in Messages : RowBudget(n)'
  <2> SUFFICES ASSUME NEW n \in Messages, n # m PROVE RowBudget(n)'
    OBVIOUS
  <2>1. RowBudget(n) /\ UNCHANGED <<status[n], attemptCount[n], accepted[n], reference[n], seen>>
    BY DEF BudgetInv
  <2> QED BY <2>1, RowUntouched
<1>2. \A v \in Workers : CallBudget(worker[v])'
  <2> SUFFICES ASSUME NEW v \in Workers, v # w PROVE CallBudget(worker[v])'
    OBVIOUS
  <2>1. worker[v].pc # "idle" => worker[v].msg \in Messages /\ worker[v].msg # m
    BY HoldsMessage DEF ClaimedAlone
  <2> QED BY <2>1, CallUntouched
<1>3. IsFiniteSet(seen')
  BY DEF BudgetInv
<1> QED BY <1>1, <1>2, <1>3 DEF BudgetInv

\* One lemma per kind of step, as for OutboxInv.
LEMMA IdleBudget ==
    ASSUME OutboxInv, NEW w \in Workers, Leave(w)
    PROVE  /\ CallBudget(worker[w])'
           /\ \A v \in Workers : v # w => worker'[v] = worker[v]
  BY DEF Leave, IdleWorker, CallBudget, OutboxInv, TypeOK

LEMMA PcMoves ==
    ASSUME OutboxInv, NEW w \in Workers, worker[w].pc # "idle",
           NEW pc \in {"permitted", "counted", "sending", "failed"}, Step(w, pc)
    PROVE  /\ worker'[w].pc = pc /\ worker'[w].msg = worker[w].msg
           /\ worker'[w].attempts = worker[w].attempts
           /\ \A v \in Workers : v # w => worker'[v] = worker[v]
<1>1. worker[w] \in Worker /\ worker' = [worker EXCEPT ![w] = [worker[w] EXCEPT !.pc = pc]]
  BY DEF Step, OutboxInv, TypeOK
<1> QED BY <1>1 DEF Worker, OutboxInv, TypeOK

LEMMA StepBudget ==
    ASSUME OutboxInv, BudgetInv, ClaimedAlone, NEW w \in Workers, worker[w].pc # "idle",
           UNCHANGED <<status, attemptCount, accepted, reference, seen>>,
           \/ Leave(w)
           \/ Step(w, "permitted") /\ worker[w].pc = "read"
           \/ Step(w, "counted") /\ worker[w].pc = "permitted"
           \/ Step(w, "failed") /\ worker[w].pc = "sending"
    PROVE  BudgetInv'
<1>1. PICK m \in Messages : m = worker[w].msg
  BY HoldsMessage
<1>2. RowBudget(m)'
  BY RowUntouched DEF BudgetInv
<1>3. CASE Leave(w)
  BY <1>1, <1>2, <1>3, IdleBudget, CallMoves
<1>4. ASSUME NEW pc \in {"permitted", "counted", "failed"}, Step(w, pc),
             pc = "permitted" => worker[w].pc = "read",
             pc = "counted" => worker[w].pc = "permitted",
             pc = "failed" => worker[w].pc = "sending"
      PROVE  BudgetInv'
  <2>1. /\ worker'[w].pc = pc /\ worker'[w].msg = worker[w].msg
        /\ worker'[w].attempts = worker[w].attempts
        /\ \A v \in Workers : v # w => worker'[v] = worker[v]
    BY <1>4, PcMoves
  <2>2. CallBudget(worker[w])'
    BY <1>1, <1>4, <2>1, BudgetKept DEF BudgetInv, CallBudget, Pickable, Answered
  <2> QED BY <1>1, <1>2, <2>1, <2>2, CallMoves
<1> QED BY <1>3, <1>4

LEMMA ReadBudget ==
    ASSUME OutboxInv, BudgetInv, ClaimedAlone, ClaimedAlone',
           NEW w \in Workers, NEW m \in Messages, processOneRead(w, m)
    PROVE  BudgetInv'
<1> DEFINE c == [pc |-> "read", msg |-> m, attempts |-> attemptCount[m], sid |-> 0]
<1>1. worker'[w] = c /\ Pickable(m) /\ \A v \in Workers : v # w => worker'[v] = worker[v]
  BY DEF processOneRead, OutboxInv, TypeOK
<1>2. UNCHANGED <<status, attemptCount, accepted, reference, seen>>
  BY DEF processOneRead, rowVars, outsideVars
<1>3. \A n \in Messages : RowBudget(n)'
  BY <1>2, RowUntouched DEF BudgetInv
<1>4. CallBudget(worker[w])'
  BY <1>1, <1>2, BudgetKept DEF BudgetInv, RowBudget, CallBudget, Owed, Pickable, Answered
<1>5. \A v \in Workers : v # w => CallBudget(worker[v])'
  BY <1>1, <1>2, CallUntouched
<1> QED BY <1>2, <1>3, <1>4, <1>5 DEF BudgetInv

LEMMA ConsentBudget ==
    ASSUME OutboxInv, BudgetInv, ClaimedAlone, NEW w \in Workers, CheckConsent(w)
    PROVE  BudgetInv'
<1>1. PICK m \in Messages : m = worker[w].msg
  BY HoldsMessage DEF CheckConsent
<1>2. worker[w].pc = "read" /\ UNCHANGED <<attemptCount, accepted, reference, seen>>
  BY DEF CheckConsent, outsideVars
<1>3. CASE Step(w, "permitted") /\ UNCHANGED status
  BY <1>2, <1>3, StepBudget
<1>4. CASE status' = [status EXCEPT ![m] = "SUPPRESSED"] /\ Leave(w)
  <2>1. status'[m] = "SUPPRESSED" /\ \A n \in Messages : n # m => status'[n] = status[n]
    BY <1>4 DEF OutboxInv, TypeOK
  <2>2. RowBudget(m)'
    BY <1>1, <1>2, <2>1, BudgetKept DEF BudgetInv, RowBudget, CallBudget, Owed, Pickable, Answered
  <2> QED BY <1>1, <1>2, <1>4, <2>1, <2>2, IdleBudget, CallMoves
<1> QED BY <1>1, <1>3, <1>4 DEF CheckConsent

LEMMA MarkBudget ==
    ASSUME OutboxInv, BudgetInv, ClaimedAlone, NEW w \in Workers, MarkProcessing(w)
    PROVE  BudgetInv'
<1>1. PICK m \in Messages : m = worker[w].msg
  BY HoldsMessage DEF MarkProcessing
<1>2. worker[w].pc = "counted" /\ Step(w, "sending")
      /\ UNCHANGED <<attemptCount, accepted, reference, seen>>
  BY DEF MarkProcessing, outsideVars
<1>3. status'[m] = "PROCESSING" /\ \A n \in Messages : n # m => status'[n] = status[n]
  BY <1>1 DEF MarkProcessing, OutboxInv, TypeOK
<1>4. /\ worker'[w].pc = "sending" /\ worker'[w].msg = m /\ worker'[w].attempts = worker[w].attempts
      /\ \A v \in Workers : v # w => worker'[v] = worker[v]
  BY <1>1, <1>2, PcMoves
<1>5. RowBudget(m)' /\ CallBudget(worker[w])'
  BY <1>1, <1>2, <1>3, <1>4, BudgetKept
  DEF BudgetInv, RowBudget, CallBudget, Owed, Pickable, Answered
<1> QED BY <1>1, <1>2, <1>3, <1>4, <1>5, CallMoves

\* The provider takes the message: the row owes this send to the call's record.
LEMMA AcceptBudget ==
    ASSUME OutboxInv, BudgetInv, ClaimedAlone, NEW w \in Workers, NEW answered \in BOOLEAN,
           ProviderAccepts(w, answered)
    PROVE  BudgetInv'
<1> DEFINE pc == IF answered THEN "accepted" ELSE "failed"
<1>1. PICK m \in Messages : m = worker[w].msg
  BY HoldsMessage DEF ProviderAccepts
<1>2. worker[w].pc = "sending" /\ UNCHANGED <<status, attemptCount, reference, seen>>
      /\ accepted' = [accepted EXCEPT ![m] = @ + 1]
  BY <1>1 DEF ProviderAccepts, rowVars
<1>3. worker' = [worker EXCEPT ![w] = [worker[w] EXCEPT !.sid = accepted[m] + 1, !.pc = pc]]
  BY <1>1 DEF ProviderAccepts, OutboxInv, TypeOK
<1>4. pc \in {"accepted", "failed"} /\ worker[w] \in Worker
  BY DEF OutboxInv, TypeOK
<1> HIDE DEF pc
<1>5. /\ worker'[w].pc = pc /\ worker'[w].msg = m /\ worker'[w].attempts = worker[w].attempts
      /\ \A v \in Workers : v # w => worker'[v] = worker[v]
  BY <1>1, <1>3, <1>4 DEF Worker, OutboxInv, TypeOK
<1>6. accepted[m] \in Nat /\ attemptCount[m] \in Nat /\ accepted'[m] = accepted[m] + 1
      /\ \A n \in Messages : n # m => accepted'[n] = accepted[n]
  BY <1>2 DEF OutboxInv, TypeOK
<1>7. /\ accepted[m] <= attemptCount[m] /\ attemptCount[m] < Budget(m)
      /\ ~Pickable(m) /\ Answered(m) /\ status[m] # "NONE" /\ worker[w].attempts = attemptCount[m]
  BY <1>1, <1>2 DEF BudgetInv, CallBudget
<1>8. RowBudget(m)'
  <2>1. attemptCount[m] <= Budget(m)
    BY DEF BudgetInv, RowBudget
  <2> QED BY <1>2, <1>6, <1>7, <2>1, BudgetKept DEF RowBudget, Owed, Pickable, Answered
<1>9. CallBudget(worker[w])'
  BY <1>2, <1>4, <1>5, <1>7, BudgetKept DEF CallBudget, Pickable, Answered
<1> QED BY <1>1, <1>2, <1>5, <1>6, <1>8, <1>9, CallMoves

\* The record of an attempt pays for the send, if there was one.
LEMMA RecordBudget ==
    ASSUME OutboxInv, BudgetInv, ClaimedAlone, NEW w \in Workers, RecordSent(w) \/ RecordFailed(w)
    PROVE  BudgetInv'
<1>1. PICK m \in Messages : m = worker[w].msg
  BY HoldsMessage DEF RecordSent, RecordFailed
<1>2. worker[w].pc \in {"accepted", "failed"} /\ Leave(w) /\ UNCHANGED <<accepted, seen>>
  BY DEF RecordSent, RecordFailed, outsideVars
<1>3. /\ accepted[m] \in Nat /\ attemptCount[m] \in Nat /\ reference[m] \in Nat
      /\ Budget(m) \in Nat /\ MaxAttempts <= Budget(m) /\ MaxAttempts \in Nat
  BY BudgetType DEF BudgetInv, OutboxInv, TypeOK
<1>4. /\ attemptCount[m] < Budget(m) /\ accepted[m] <= attemptCount[m] + 1
      /\ worker[w].attempts = attemptCount[m] /\ Answered(m) /\ status[m] # "NONE"
  BY <1>1, <1>2, <1>3 DEF BudgetInv, RowBudget, CallBudget, Owed
<1>5. /\ attemptCount'[m] = attemptCount[m] + 1
      /\ \A n \in Messages : n # m =>
             UNCHANGED <<status[n], attemptCount[n], accepted[n], reference[n]>>
  BY <1>1, <1>2, <1>4 DEF RecordSent, RecordFailed, OutboxInv, TypeOK
<1>6. RowBudget(m)'
  <2>1. CASE RecordSent(w)
    <3>1. status'[m] = "SENT"
      BY <1>1, <2>1 DEF RecordSent, OutboxInv, TypeOK
    <3> QED BY <1>2, <1>3, <1>4, <1>5, <3>1, BudgetKept DEF RowBudget, Pickable
  <2>2. CASE RecordFailed(w)
    <3>1. /\ status'[m] = IF attemptCount[m] + 1 >= MaxAttempts THEN "DEAD_LETTER" ELSE "FAILED"
          /\ reference'[m] = reference[m]
      BY <1>1, <1>4, <2>2 DEF RecordFailed, OutboxInv, TypeOK
    <3>2. Answered(m)'
      BY <1>2, <1>4, <3>1 DEF Answered
    <3>3. Pickable(m)' => attemptCount[m] + 1 < MaxAttempts
      BY <1>3, <3>1 DEF Pickable
    <3>4. status'[m] # "NONE"
      BY <3>1
    <3> QED BY <1>2, <1>3, <1>4, <1>5, <3>2, <3>3, <3>4, BudgetKept DEF RowBudget
  <2> QED BY <2>1, <2>2
<1> QED BY <1>1, <1>2, <1>5, <1>6, IdleBudget, CallMoves

\* A report of failure makes a row retryable and raises its budget; a row that
\* owes a send, or that a call has marked, has had the one report that could.
LEMMA WebhookBudget ==
    ASSUME OutboxInv, BudgetInv, NEW m \in Messages, NEW k \in 1 .. SendBound,
           NEW said \in ProviderStatus,
           handleTwilioWebhook(m, k, said) \/ WebhookStops(m, k, said)
    PROVE  BudgetInv'
<1>1. /\ seen' = seen \cup {<<m, k, said>>} /\ <<m, k, said>> \notin seen
      /\ k \in Nat /\ k # 0 /\ UNCHANGED <<attemptCount, reference, accepted, worker>>
  BY LimitsAssumption DEF handleTwilioWebhook, WebhookStops, Reported, rowVars
<1>2. \/ status' = status
      \/ reference[m] = k /\ status' = [status EXCEPT ![m] = mapTwilioStatus(said)]
  BY DEF handleTwilioWebhook, WebhookStops, Matches, rowVars, OutboxInv, TypeOK
<1>3. /\ IsFiniteSet(seen')
      /\ Budget(m)' = IF said = "undelivered" THEN Budget(m) + 1 ELSE Budget(m)
      /\ \A n \in Messages : n # m => Budget(n)' = Budget(n)
  BY <1>1, BudgetGrows DEF BudgetInv
<1>4. \A n \in Messages : Budget(n) \in Nat /\ Budget(n)' \in Nat /\ Budget(n) <= Budget(n)'
  BY <1>3, BudgetType DEF BudgetInv
<1>5. \A n \in Messages : Answered(n) => Answered(n)'
  BY <1>1 DEF Answered
<1>6. \A n \in Messages : /\ attemptCount[n] \in Nat /\ accepted[n] \in Nat
                          /\ status[n] = "NONE" <=> status'[n] = "NONE"
  <2>1. mapTwilioStatus(said) # "NONE"
    BY DEF mapTwilioStatus, ProviderStatus
  <2>2. status[m] = "NONE" => reference[m] = 0
    BY DEF BudgetInv, RowBudget
  <2> QED BY <1>1, <1>2, <2>1, <2>2 DEF OutboxInv, TypeOK
\* Only a first report, that the row's own send failed, makes it retryable.
<1>7. ASSUME NEW n \in Messages, Pickable(n)', ~Pickable(n)
      PROVE  /\ n = m /\ said = "undelivered" /\ ~Answered(n) /\ Answered(n)'
             /\ Budget(n)' = Budget(n) + 1
  <2>1. n = m /\ reference[m] = k /\ status'[m] = mapTwilioStatus(said)
    BY <1>2, <1>7 DEF Pickable, OutboxInv, TypeOK
  <2>2. said = "undelivered"
    BY <1>7, <2>1 DEF mapTwilioStatus, ProviderStatus, Pickable
  <2> QED BY <1>1, <1>3, <2>1, <2>2 DEF Answered
<1>8. \A n \in Messages : RowBudget(n)'
  <2> SUFFICES ASSUME NEW n \in Messages PROVE RowBudget(n)'
    OBVIOUS
  <2>1. RowBudget(n)
    BY DEF BudgetInv
  <2>2. CASE Pickable(n)' => Pickable(n)
    BY <1>1, <1>4, <1>5, <1>6, <2>1, <2>2 DEF RowBudget, Owed
  <2>3. CASE Pickable(n)' /\ ~Pickable(n)
    <3>1. accepted[n] <= attemptCount[n] /\ attemptCount[n] <= Budget(n)
      BY <1>7, <2>1, <2>3 DEF RowBudget, Owed
    <3> QED BY <1>1, <1>4, <1>6, <1>7, <2>1, <2>3, <3>1 DEF RowBudget
  <2> QED BY <2>2, <2>3
<1>9. \A v \in Workers : CallBudget(worker[v])'
  <2> SUFFICES ASSUME NEW v \in Workers, worker[v].pc # "idle", NEW n \in Messages, n = worker[v].msg
               PROVE  CallBudget(worker[v])'
    BY <1>1, HoldsMessage DEF CallBudget
  <2>1. CallBudget(worker[v])
    BY DEF BudgetInv
  <2>2. attemptCount[n] < Budget(n)'
    BY <1>4, <1>6, <2>1 DEF CallBudget
  <2>3. Pickable(n)' => Pickable(n)
    BY <1>7, <2>1 DEF CallBudget
  <2> QED BY <1>1, <1>5, <1>6, <2>1, <2>2, <2>3 DEF CallBudget
<1> QED BY <1>3, <1>8, <1>9 DEF BudgetInv

\* A row is made, or suppressed before it was sent; nothing else here is of it.
LEMMA RowsBudget ==
    ASSUME OutboxInv, BudgetInv, NEW m \in Messages,
           enqueueUtility(m) \/ RevokeMessage(m)
    PROVE  BudgetInv'
<1>1. UNCHANGED <<attemptCount, reference, accepted, worker, seen>>
  BY DEF enqueueUtility, RevokeMessage, outsideVars
<1>2. /\ status'[m] \in {"PENDING", "SUPPRESSED"}
      /\ status'[m] = "PENDING" => status[m] = "NONE"
      /\ status[m] \in {"NONE", "PENDING", "FAILED"}
      /\ \A n \in Messages : n # m => status'[n] = status[n]
  BY DEF enqueueUtility, RevokeMessage, OutboxInv, TypeOK
<1>3. \A n \in Messages : RowBudget(n)'
  <2> SUFFICES ASSUME NEW n \in Messages PROVE RowBudget(n)'
    OBVIOUS
  <2>1. RowBudget(n) /\ Budget(n) \in Nat /\ MaxAttempts <= Budget(n) /\ MaxAttempts > 0
    BY BudgetType, LimitsAssumption DEF BudgetInv
  <2>2. CASE n # m
    BY <1>1, <1>2, <2>1, <2>2, RowUntouched
  <2>3. CASE n = m
    BY <1>1, <1>2, <2>1, <2>3, BudgetKept, LimitsAssumption DEF RowBudget, Owed, Pickable, Answered
  <2> QED BY <2>2, <2>3
<1>4. \A v \in Workers : CallBudget(worker[v])'
  <2> SUFFICES ASSUME NEW v \in Workers PROVE CallBudget(worker[v])'
    OBVIOUS
  <2>1. CallBudget(worker[v])
    BY DEF BudgetInv
  <2>2. CASE worker[v].pc # "idle" /\ worker[v].msg = m
    BY <1>1, <1>2, <2>1, <2>2, BudgetKept DEF CallBudget, Pickable, Answered
  <2>3. CASE worker[v].pc # "idle" => worker[v].msg # m
    BY <1>1, <1>2, <2>3, HoldsMessage, CallUntouched
  <2> QED BY <2>2, <2>3
<1> QED BY <1>1, <1>3, <1>4 DEF BudgetInv

LEMMA SameBudget ==
    ASSUME OutboxInv, BudgetInv,
           UNCHANGED <<status, attemptCount, reference, accepted, worker, seen>>
    PROVE  BudgetInv'
<1>1. \A n \in Messages : RowBudget(n)'
  BY RowUntouched DEF BudgetInv
<1>2. \A v \in Workers : CallBudget(worker[v])'
  BY CallUntouched
<1> QED BY <1>1, <1>2 DEF BudgetInv

LEMMA BudgetPreserved ==
    OutboxInv /\ BudgetInv /\ ClaimedAlone /\ ClaimedAlone' /\ [Next]_vars => BudgetInv'
<1> SUFFICES ASSUME OutboxInv, BudgetInv, ClaimedAlone, ClaimedAlone', [Next]_vars PROVE BudgetInv'
  OBVIOUS
<1>1. ASSUME NEW w \in Workers, WorkerStep(w) \/ Crash(w)
      PROVE  BudgetInv'
  <2>1. CASE assertDailyCap(w) \/ SendFails(w) \/ Crash(w)
    <3>1. worker[w].pc # "idle" \/ worker[w] # IdleWorker
      BY <2>1 DEF assertDailyCap, SendFails, Crash
    <3>2. UNCHANGED <<status, attemptCount, accepted, reference, seen>>
      BY <2>1 DEF assertDailyCap, SendFails, Crash, rowVars, outsideVars
    <3>3. CASE worker[w].pc = "idle"
      <4>1. Leave(w)
        BY <2>1, <3>3 DEF assertDailyCap, SendFails, Crash
      <4> QED BY <3>2, <3>3, <4>1, RowUntouched, CallUntouched, IdleBudget DEF BudgetInv
    <3> QED BY <2>1, <3>2, <3>3, StepBudget DEF assertDailyCap, SendFails, Crash
  <2> QED BY <1>1, <2>1, ConsentBudget, MarkBudget, AcceptBudget, RecordBudget DEF WorkerStep
<1>2. ASSUME NEW m \in Messages, ChangeConsent(m) \/ BackoffEnds(m)
      PROVE  BudgetInv'
  BY <1>2, SameBudget DEF ChangeConsent, BackoffEnds, rowVars, outsideVars
<1>3. ASSUME NEW m \in Invitations, LinkInvitation(m) \/ RevokeToken(m)
      PROVE  BudgetInv'
  BY <1>3, SameBudget DEF LinkInvitation, RevokeToken, rowVars, outsideVars
<1>4. CASE NewDay \/ UNCHANGED vars
  BY <1>4, SameBudget DEF NewDay, vars, rowVars, outsideVars
<1> QED
  BY <1>1, <1>2, <1>3, <1>4, ReadBudget, WebhookBudget, RowsBudget DEF Next

\* With each row claimed by one call at a time, sends and attempts are bounded by
\* maxAttempts and what the provider reports undelivered, whatever crashes and
\* however the callbacks are ordered.
THEOREM sendsBudgeted == Spec /\ []ClaimedAlone => []AttemptsBudgeted
<1>1. Init => BudgetInv
  <2> SUFFICES ASSUME Init PROVE BudgetInv
    OBVIOUS
  <2>1. IsFiniteSet(seen)
    BY FS_EmptySet DEF Init
  <2>2. \A m \in Messages : Budget(m) \in Nat /\ MaxAttempts <= Budget(m) /\ MaxAttempts > 0
    BY <2>1, BudgetType
  <2>3. \A w \in Workers : CallBudget(worker[w])
    BY DEF Init, IdleWorker, CallBudget
  <2>4. \A m \in Messages : RowBudget(m)
    BY <2>2 DEF Init, RowBudget, Pickable
  <2> QED BY <2>1, <2>3, <2>4 DEF BudgetInv
<1>2. BudgetInv /\ OutboxInv => AttemptsBudgeted
  <2> SUFFICES ASSUME BudgetInv, OutboxInv, NEW m \in Messages
               PROVE  attemptCount[m] <= Budget(m) /\ accepted[m] <= Budget(m)
    BY DEF AttemptsBudgeted
  <2>1. Budget(m) \in Nat /\ attemptCount[m] \in Nat /\ accepted[m] \in Nat
    BY BudgetType DEF BudgetInv, OutboxInv, TypeOK
  <2> QED BY <2>1 DEF BudgetInv, RowBudget, Owed
<1> QED BY <1>1, <1>2, BudgetPreserved, OutboxInvariance, PTL DEF Spec

-----------------------------------------------------------------------------
\* The daily cap is counted before a send and recorded after it, so it needs calls
\* that come one after the other; and a report of failure takes a send out of the
\* count that a late callback may put back.
CallsInTurn == \A v, w \in Workers : worker[v].pc # "idle" /\ worker[w].pc # "idle" => v = w
NoBounce == \A e \in seen : e[3] # "undelivered"

CapKept == IsFiniteSet(CountedToday) /\ Cardinality(CountedToday) <= DailyCap

\* A row sent today says so until tomorrow, and is in no call's hands; past its
\* check a call has room for one send.
CapInv ==
    /\ CapKept
    /\ \A m \in Messages : sentToday[m] => status[m] \in {"SENT", "DELIVERED"}
    /\ \A w \in Workers :
           /\ worker[w].pc # "idle" => ~sentToday[worker[w].msg]
           /\ worker[w].pc \in {"counted", "sending", "accepted", "failed"} =>
                  Cardinality(CountedToday) < DailyCap

\* The count stays, or falls, in every step but the record of a send.
LEMMA CapFewer ==
    ASSUME CapInv, CountedToday' \subseteq CountedToday
    PROVE  /\ CapKept'
           /\ Cardinality(CountedToday)' \in Nat /\ Cardinality(CountedToday) \in Nat
           /\ Cardinality(CountedToday)' <= Cardinality(CountedToday)
<1>1. IsFiniteSet(CountedToday) /\ Cardinality(CountedToday) <= DailyCap
  BY DEF CapInv, CapKept
<1>2. IsFiniteSet(CountedToday') /\ Cardinality(CountedToday') <= Cardinality(CountedToday)
  BY <1>1, FS_Subset
<1>3. Cardinality(CountedToday') \in Nat /\ Cardinality(CountedToday) \in Nat
  BY <1>1, <1>2, FS_CardinalityType
<1> QED BY <1>1, <1>2, <1>3, LimitsAssumption DEF CapKept

LEMMA CapWithinCall ==
    ASSUME OutboxInv, CapInv, CallsInTurn, NEW w \in Workers, WorkerStep(w) \/ Crash(w)
    PROVE  CapInv'
<1>0. /\ worker[w] \in Worker /\ \A v \in Workers : v # w => worker'[v] = worker[v]
      /\ worker[w].pc # "idle" \/ Crash(w)
  BY DEF WorkerStep, CheckConsent, assertDailyCap, MarkProcessing, ProviderAccepts, SendFails,
         RecordSent, RecordFailed, Crash, Step, Leave, OutboxInv, TypeOK
<1>1. \/ UNCHANGED <<status, sentToday>>
      \/ /\ worker[w].pc # "idle" /\ UNCHANGED sentToday
         /\ \A m \in Messages : m # worker[w].msg => status'[m] = status[m]
      \/ RecordSent(w)
  BY DEF WorkerStep, CheckConsent, assertDailyCap, MarkProcessing, ProviderAccepts, SendFails,
         RecordFailed, Crash, rowVars, OutboxInv, TypeOK
<1>2. \/ worker'[w].pc = "idle"
      \/ /\ worker[w].pc # "idle" /\ worker'[w].msg = worker[w].msg /\ ~RecordSent(w)
         /\ \/ worker[w].pc \in {"counted", "sending", "accepted", "failed"}
            \/ worker'[w].pc \notin {"counted", "sending", "accepted", "failed"}
            \/ assertDailyCap(w) /\ Cardinality(CountedToday) < DailyCap
  <2>1. ASSUME NEW pc \in {"permitted", "counted", "sending", "failed"}, Step(w, pc),
               worker[w].pc # "idle"
        PROVE  worker'[w].pc = pc /\ worker'[w].msg = worker[w].msg
    BY <2>1, PcMoves
  <2>2. ASSUME Leave(w) PROVE worker'[w].pc = "idle"
    BY <2>2 DEF Leave, IdleWorker, OutboxInv, TypeOK
  <2>3. ASSUME NEW answered \in BOOLEAN, ProviderAccepts(w, answered)
        PROVE  worker'[w].msg = worker[w].msg
    <3> DEFINE pc == IF answered THEN "accepted" ELSE "failed"
               held == [worker[w] EXCEPT !.sid = accepted[worker[w].msg] + 1, !.pc = pc]
    <3>1. worker' = [worker EXCEPT ![w] = held]
      BY <2>3 DEF ProviderAccepts, OutboxInv, TypeOK
    <3> HIDE DEF pc
    <3>2. held.msg = worker[w].msg
      BY <1>0 DEF Worker
    <3> QED BY <3>1, <3>2 DEF OutboxInv, TypeOK
  <2>4. CASE CheckConsent(w)
    BY <2>1, <2>2, <2>4 DEF CheckConsent, RecordSent
  <2>5. CASE assertDailyCap(w)
    BY <2>1, <2>2, <2>5 DEF assertDailyCap, RecordSent
  <2>6. CASE MarkProcessing(w)
    BY <2>1, <2>6 DEF MarkProcessing, RecordSent
  <2>7. CASE \E answered \in BOOLEAN : ProviderAccepts(w, answered)
    BY <2>3, <2>7 DEF ProviderAccepts, RecordSent
  <2>8. CASE SendFails(w)
    BY <2>1, <2>8 DEF SendFails, RecordSent
  <2>9. CASE RecordSent(w) \/ RecordFailed(w) \/ Crash(w)
    BY <2>2, <2>9 DEF RecordSent, RecordFailed, Crash
  <2> QED BY <2>4, <2>5, <2>6, <2>7, <2>8, <2>9 DEF WorkerStep
<1>3. worker[w].pc # "idle" => worker[w].msg \in Messages /\ ~sentToday[worker[w].msg]
  BY HoldsMessage DEF CapInv
\* The call writes a row that is not counted, and only to record it counts.
<1>4. CASE ~RecordSent(w)
  <2>1. UNCHANGED sentToday
    BY <1>1, <1>4
  <2>2. CountedToday' \subseteq CountedToday
    BY <1>1, <1>3, <1>4 DEF CountedToday
  <2>3. \A m \in Messages : sentToday'[m] => status'[m] \in {"SENT", "DELIVERED"}
    BY <1>1, <1>3, <1>4 DEF CapInv
  <2>4. \A v \in Workers :
            /\ worker'[v].pc # "idle" => ~sentToday'[worker'[v].msg]
            /\ worker'[v].pc \in {"counted", "sending", "accepted", "failed"} =>
                   Cardinality(CountedToday)' < DailyCap
    BY <1>0, <1>2, <2>1, <2>2, CapFewer, LimitsAssumption DEF CapInv
  <2> QED BY <2>2, <2>3, <2>4, CapFewer DEF CapInv
<1>5. CASE RecordSent(w)
  <2> DEFINE m == worker[w].msg
  <2>1. m \in Messages /\ worker[w].pc = "accepted" /\ worker'[w].pc = "idle"
    BY <1>2, <1>3, <1>5 DEF RecordSent
  <2>2. /\ status'[m] = "SENT" /\ sentToday'[m] = TRUE
        /\ \A n \in Messages : n # m => status'[n] = status[n] /\ sentToday'[n] = sentToday[n]
    BY <1>5, <2>1 DEF RecordSent, OutboxInv, TypeOK
  <2>3. CountedToday' = CountedToday \cup {m} /\ m \notin CountedToday
    BY <1>3, <2>1, <2>2 DEF CountedToday
  <2>4. IsFiniteSet(CountedToday) /\ Cardinality(CountedToday) < DailyCap
    BY <2>1 DEF CapInv, CapKept
  <2>5. IsFiniteSet(CountedToday') /\ Cardinality(CountedToday') = Cardinality(CountedToday) + 1
        /\ Cardinality(CountedToday) \in Nat
    BY <2>3, <2>4, FS_AddElement, FS_CardinalityType
  <2>6. CapKept'
    BY <2>4, <2>5, LimitsAssumption DEF CapKept
  <2>7. \A v \in Workers : worker'[v].pc = "idle"
    BY <1>0, <2>1 DEF CallsInTurn
  <2> QED BY <2>2, <2>6, <2>7 DEF CapInv
<1> QED BY <1>4, <1>5

LEMMA CapPreserved ==
    OutboxInv /\ CapInv /\ CallsInTurn /\ NoBounce' /\ [Next]_vars => CapInv'
<1> SUFFICES ASSUME OutboxInv, CapInv, CallsInTurn, NoBounce', [Next]_vars PROVE CapInv'
  OBVIOUS
<1>1. ASSUME UNCHANGED worker, \A m \in Messages : sentToday'[m] => sentToday[m],
             \A m \in Messages : status'[m] = status[m] \/ ~sentToday[m]
                                 \/ status'[m] \in {"SENT", "DELIVERED"}
      PROVE  CapInv'
  <2>1. CountedToday' \subseteq CountedToday
    BY <1>1 DEF CapInv, CountedToday
  <2> QED BY <1>1, <2>1, CapFewer, HoldsMessage, LimitsAssumption DEF CapInv
<1>2. ASSUME NEW w \in Workers, NEW m \in Messages, processOneRead(w, m) PROVE CapInv'
  <2> DEFINE c == [pc |-> "read", msg |-> m, attempts |-> attemptCount[m], sid |-> 0]
  <2>1. /\ UNCHANGED <<status, sentToday>> /\ Pickable(m)
        /\ worker' = [worker EXCEPT ![w] = c]
    BY <1>2 DEF processOneRead, rowVars
  <2>2. /\ worker'[w].pc = "read" /\ worker'[w].msg = m
        /\ \A v \in Workers : v # w => worker'[v] = worker[v]
    BY <2>1 DEF OutboxInv, TypeOK
  <2>3. ~sentToday[m] /\ CountedToday' = CountedToday
    BY <2>1 DEF Pickable, CapInv, CountedToday
  <2> QED BY <2>1, <2>2, <2>3 DEF CapInv, CapKept
<1>3. ASSUME NEW m \in Messages, NEW k \in 1 .. SendBound, NEW said \in ProviderStatus,
             handleTwilioWebhook(m, k, said) \/ WebhookStops(m, k, said)
      PROVE  CapInv'
  <2>1. said # "undelivered"
    <3>1. <<m, k, said>> \in seen' /\ <<m, k, said>>[3] = said
      BY <1>3 DEF handleTwilioWebhook, WebhookStops
    <3> QED BY <3>1 DEF NoBounce
  <2>2. mapTwilioStatus(said) \in {"SENT", "DELIVERED"}
    BY <2>1 DEF mapTwilioStatus, ProviderStatus
  <2> QED BY <1>1, <1>3, <2>2 DEF handleTwilioWebhook, WebhookStops, rowVars, OutboxInv, TypeOK
<1>4. ASSUME NEW m \in Messages, enqueueUtility(m) \/ ChangeConsent(m) \/ BackoffEnds(m)
      PROVE  CapInv'
  <2>1. UNCHANGED <<sentToday, worker>>
        /\ (UNCHANGED status \/ (status[m] = "NONE"
                                 /\ \A n \in Messages : n # m => status'[n] = status[n]))
    BY <1>4 DEF enqueueUtility, ChangeConsent, BackoffEnds, rowVars, outsideVars, OutboxInv, TypeOK
  <2> QED BY <1>1, <2>1 DEF CapInv
<1>5. ASSUME NEW m \in Invitations, LinkInvitation(m) \/ RevokeToken(m) \/ RevokeMessage(m)
      PROVE  CapInv'
  <2>1. UNCHANGED <<sentToday, worker>>
        /\ (UNCHANGED status \/ (status[m] \in {"PENDING", "FAILED"}
                                 /\ \A n \in Messages : n # m => status'[n] = status[n]))
    BY <1>5 DEF LinkInvitation, RevokeToken, RevokeMessage, rowVars, outsideVars, OutboxInv, TypeOK
  <2> QED BY <1>1, <2>1, MessagesAssumption DEF CapInv
<1>6. CASE NewDay \/ UNCHANGED vars
  BY <1>1, <1>6 DEF NewDay, vars, rowVars, outsideVars
<1> QED BY <1>2, <1>3, <1>4, <1>5, <1>6, CapWithinCall DEF Next

\* TWILIO_WHATSAPP_DAILY_SEND_CAP bounds the sends recorded in a day where calls
\* come one at a time and no send is reported undelivered.
THEOREM capKept == Spec /\ [](CallsInTurn /\ NoBounce) => []CapKept
<1>1. Init => CapInv
  <2> SUFFICES ASSUME Init PROVE CapInv
    OBVIOUS
  <2>1. CountedToday = {}
    BY DEF Init, CountedToday
  <2>2. CapKept
    BY <2>1, FS_EmptySet, LimitsAssumption DEF CapKept
  <2> QED BY <2>2 DEF Init, IdleWorker, CapInv
<1>2. CapInv => CapKept
  BY DEF CapInv
<1> QED BY <1>1, <1>2, CapPreserved, OutboxInvariance, PTL DEF Spec

-----------------------------------------------------------------------------
(***************************************************************************)
(* The owner's digest, AttentionDigest, a module that has variables of its *)
(* own and takes the outbox as the rows of two days.  One cron calls the   *)
(* scheduler, and a run is over before the next one starts.                *)
(***************************************************************************)
OneRun == \A a, b \in Runs : a = b

\* An item is pushed once more than runs left it unmarked only if it is marked,
\* or about to be; and a run that is about to push leaves out what is marked.
ItemsOnce ==
    \A i \in Items :
        /\ given[i] <= 1 + undone[i]
        /\ i \notin pushed /\ (\A r \in Runs : RunAt(r, "mark") => i \notin run[r].keys)
               => given[i] <= undone[i]
KeysUnpushed == \A r \in Runs : RunAt(r, "pushing") => run[r].keys \cap pushed = {}

\* The digest likewise, with the day's stamp for the mark.
DigestOnce ==
    /\ given[Digest] <= 1 + undone[Digest]
    /\ \/ checkedToday
       \/ \E r \in Runs : run[r].sent /\ run[r].day = "today"
       \/ given[Digest] <= undone[Digest]

\* A run on its way to a digest found the day unstamped; and one that saw
\* midnight is alone in the new day, in which nothing was sent yet.
OnItsWay(fields) == fields.due \/ fields.pc \in {"consent", "enqueue", "digest", "stamp"}
RunsDay ==
    \A r \in Runs :
        /\ run[r].sent => RunAt(r, "stamp")
        /\ run[r].day = "earlier" => ~checkedToday /\ given[Digest] = 0
        /\ run[r].day = "today" /\ OnItsWay(run[r]) => ~checkedToday

\* The consent a run found was a number's, and a settings call has the owner's.
KnownNumbers ==
    /\ \A r \in Runs : run[r].permitted => run[r].phone \in Phones
    /\ \A c \in Calls : call[c].pc # "idle" => call[c].phone \in Phones
TypesInv == DigestTypeOK /\ KnownNumbers

RunsInv == TypesInv /\ ItemsOnce /\ KeysUnpushed /\ DigestOnce /\ RunsDay

LEMMA noRun == NoRun \in Run
  BY DEF NoRun, Run, Days

LEMMA noCall == NoCall \in Call
  BY DEF NoCall, Call

\* Where a run goes once the urgent items are seen to: it keeps its day, and is on
\* its way to a digest only if it was.
LEMMA afterUrgent ==
    ASSUME NEW fields \in Run
    PROVE  LET next == AfterUrgent(fields)
           IN  /\ next \in Run /\ ~next.sent /\ ~next.permitted
               /\ next.pc \notin {"pushing", "mark"}
               /\ next.day = "earlier" => fields.day = "earlier"
               /\ OnItsWay(next) => fields.due /\ next.day = fields.day
<1>1. CASE ~fields.due
  BY <1>1, noRun DEF AfterUrgent, NoRun, OnItsWay
<1>2. CASE fields.due
  <2> DEFINE pc == CASE ~fields.tasks -> "stamp"
                     [] fields.tasks /\ fields.phone # NoPhone -> "consent"
                     [] OTHER -> "digest"
             next == [NoRun EXCEPT !.day = fields.day, !.phone = fields.phone, !.pc = pc]
  <2>1. AfterUrgent(fields) = next
    BY <1>2 DEF AfterUrgent
  <2>2. pc \in {"stamp", "consent", "digest"}
    OBVIOUS
  <2> HIDE DEF pc
  <2>3. next \in Run /\ ~next.sent /\ ~next.permitted /\ next.pc = pc /\ next.day = fields.day
    BY <2>2 DEF NoRun, Run, Days
  <2> QED BY <1>2, <2>1, <2>2, <2>3 DEF OnItsWay
<1> QED BY <1>1, <1>2

LEMMA digestInit == ASSUME DigestInit PROVE RunsInv
<1>1. TypesInv
  BY noRun, noCall, PhonesAssumption DEF DigestInit, TypesInv, KnownNumbers, DigestTypeOK, Row, NoRun,
     NoCall
<1>2. \A x \in Reminders : given[x] = 0 /\ undone[x] = 0
  BY DEF DigestInit
<1>3. ItemsOnce /\ KeysUnpushed /\ DigestOnce /\ RunsDay
  BY <1>2 DEF DigestInit, ItemsOnce, KeysUnpushed, DigestOnce, RunsDay, OnItsWay, RunAt,
     NoRun, Reminders
<1> QED BY <1>1, <1>3 DEF RunsInv

\* Of each kind of step, that the types are kept.
LEMMA runTypes ==
    ASSUME TypesInv, NEW r \in Runs,
           \/ \E inHours, inWindow \in BOOLEAN : RunRead(r, inHours, inWindow)
           \/ Proceed(r) \/ Stop(r)
    PROVE  TypesInv'
<1> USE DEF TypesInv, KnownNumbers
<1>0. run[r] \in Run /\ AfterUrgent(run[r]) \in Run /\ ~AfterUrgent(run[r]).permitted
  BY afterUrgent DEF DigestTypeOK
<1>1. CASE \E inHours, inWindow \in BOOLEAN : RunRead(r, inHours, inWindow)
  <2> PICK inHours \in BOOLEAN, inWindow \in BOOLEAN : RunRead(r, inHours, inWindow)
    BY <1>1
  <2> DEFINE isDue == digestDue(inWindow)
             next == [NoRun EXCEPT !.pc = "read", !.inHours = push /\ inHours, !.due = isDue,
                                   !.phone = IF isDue THEN digestPhone ELSE NoPhone]
  <2>1. isDue \in BOOLEAN /\ (push /\ inHours) \in BOOLEAN
    BY DEF digestDue, DigestTypeOK
  <2> HIDE DEF isDue
  <2>2. next \in Run /\ ~next.permitted
    BY <2>1 DEF NoRun, Run, Days, DigestTypeOK
  <2>3. run' = [run EXCEPT ![r] = next]
    BY DEF RunRead, Set, isDue
  <2> HIDE DEF next
  <2> QED BY <2>2, <2>3 DEF RunRead, RunOnly, preferences, receipts, counts,
     DigestTypeOK
<1>2. CASE \E routine \in BOOLEAN : Look(r, routine)
  <2> PICK routine \in BOOLEAN : Look(r, routine)
    BY <1>2
  <2> DEFINE urgent == Alerts \ itemsSeen
             some == routine \/ Listed # {}
             found == [run[r] EXCEPT !.tasks = some]
  <2>1. some \in BOOLEAN
    OBVIOUS
  <2>2. urgent \subseteq Items
    BY DEF Alerts, UrgentListed, Listed
  <2>3. run' = [run EXCEPT ![r] = IF run[r].inHours /\ urgent # {}
                                  THEN [found EXCEPT !.pc = "urgent", !.keys = urgent]
                                  ELSE AfterUrgent(found)]
    BY DEF Look, Set
  <2> HIDE DEF urgent, some
  <2>4. found \in Run /\ found.permitted = run[r].permitted /\ found.phone = run[r].phone
    BY <1>0, <2>1 DEF Run
  <2>5. LET next == [found EXCEPT !.pc = "urgent", !.keys = urgent]
        IN  next \in Run /\ next.permitted = run[r].permitted /\ next.phone = run[r].phone
    BY <2>2, <2>4 DEF Run
  <2>6. AfterUrgent(found) \in Run /\ ~AfterUrgent(found).permitted
    BY <2>4, afterUrgent
  <2> HIDE DEF found
  <2> QED BY <2>3, <2>5, <2>6 DEF Look, RunOnly, preferences, receipts, counts,
     DigestTypeOK
<1>3. CASE unpushed(r)
  <2>1. [run[r] EXCEPT !.pc = "pushing", !.keys = run[r].keys \ pushed] \in Run
    BY <1>0 DEF Run
  <2> QED BY <1>0, <1>3, <2>1 DEF unpushed, Set, RunOnly, preferences, receipts,
     counts, DigestTypeOK
<1>4. ASSUME NEW sent \in BOOLEAN, PushUrgent(r, sent) PROVE TypesInv'
  <2>1. AfterPush(r, sent) \in Run /\ (AfterPush(r, sent).permitted => run[r].permitted)
        /\ (sent => AfterPush(r, sent).phone = run[r].phone)
        /\ (~sent => ~AfterPush(r, sent).permitted)
    BY <1>0 DEF AfterPush, Run
  <2>2. given' \in [Reminders -> Nat]
    BY <1>4 DEF PushUrgent, Given, DigestTypeOK
  <2> QED BY <1>4, <2>1, <2>2 DEF PushUrgent, Set, preferences, receipts, DigestTypeOK
<1>5. ASSUME NEW sent \in BOOLEAN, PushDigest(r, sent) PROVE TypesInv'
  <2>1. [run[r] EXCEPT !.pc = "stamp", !.sent = sent] \in Run
    BY <1>0 DEF Run
  <2>2. given' \in [Reminders -> Nat]
    BY <1>5 DEF PushDigest, Given, DigestTypeOK
  <2> QED BY <1>5, <2>1, <2>2 DEF PushDigest, Set, preferences, receipts, DigestTypeOK
<1>6. CASE markPushed(r)
  <2>1. run[r].keys \subseteq Items
    BY <1>0 DEF Run
  <2> QED BY <1>0, <1>6, <2>1 DEF markPushed, Set, preferences, counts, DigestTypeOK
<1>7. CASE EnqueueRead(r)
  <2> DEFINE permitted == run[r].phone \in digestConsent
             next == [run[r] EXCEPT !.pc = "enqueue", !.permitted = permitted]
  <2>1. permitted \in BOOLEAN /\ (permitted => run[r].phone \in Phones)
    BY DEF DigestTypeOK
  <2>2. run' = [run EXCEPT ![r] = next]
    BY <1>7 DEF EnqueueRead, Set
  <2> HIDE DEF permitted
  <2>3. next \in Run /\ next.permitted = permitted /\ next.phone = run[r].phone
    BY <1>0, <2>1 DEF Run
  <2> HIDE DEF next
  <2> QED BY <1>7, <2>1, <2>2, <2>3 DEF EnqueueRead, RunOnly, preferences, receipts,
     counts, DigestTypeOK
<1>8. CASE enqueueOwnerDigest(r)
  <2> DEFINE value == IF run[r].permitted THEN run[r].phone ELSE "SUPPRESSED"
             d == run[r].day
             next == [NoRun EXCEPT !.day = d, !.pc = IF push THEN "digest" ELSE "stamp"]
  <2>1. row' = [row EXCEPT ![d] = IF @ = "NONE" THEN value ELSE @] /\ run' = [run EXCEPT ![r] = next]
    BY <1>8 DEF enqueueOwnerDigest, Set
  <2>2. d \in Days /\ value \in Row
    BY <1>0 DEF Run, Row
  <2>3. next \in Run /\ ~next.permitted
    BY <1>0 DEF NoRun, Run
  <2> HIDE DEF value, d, next
  <2>4. row' \in [Days -> Row]
    BY <2>1, <2>2 DEF DigestTypeOK
  <2> QED BY <1>8, <2>1, <2>3, <2>4 DEF enqueueOwnerDigest, preferences, receipts,
     counts, DigestTypeOK
<1>9. CASE markDigestChecked(r)
  BY <1>0, <1>9, noRun DEF markDigestChecked, Set, preferences, receipts, counts,
     DigestTypeOK, NoRun
<1>10. CASE Stop(r)
  <2>1. undone' \in [Reminders -> Nat]
    BY <1>10 DEF Stop, DigestTypeOK
  <2> QED BY <1>10, <2>1, noRun DEF Stop, Set, preferences, receipts, DigestTypeOK,
     NoRun
<1> QED BY <1>1, <1>2, <1>3, <1>4, <1>5, <1>6, <1>7, <1>8, <1>9, <1>10 DEF Proceed

LEMMA otherTypes ==
    ASSUME TypesInv,
           \/ \E d \in Days : processOne(d)
           \/ \E c \in Calls : SettingsStep(c)
           \/ \E p \in Phones : ChangePhone(p)
           \/ \E i \in Items : markSeen(i) \/ \E to \in Listable \cup {"out"} : ItemMoves(i, to)
           \/ Midnight
           \/ UNCHANGED digestVars
    PROVE  TypesInv'
<1> USE DEF TypesInv, KnownNumbers
<1>1. ASSUME NEW d \in Days, processOne(d) PROVE TypesInv'
  BY <1>1 DEF processOne, preferences, receipts, counts, DigestTypeOK, Row
<1>2. ASSUME NEW c \in Calls, SettingsStep(c) PROVE TypesInv'
  <2>0. call[c] \in Call
    BY DEF DigestTypeOK
  <2>1. CASE \E enable \in BOOLEAN : SettingsRead(c, enable)
    <3> PICK enable \in BOOLEAN : SettingsRead(c, enable)
      BY <2>1
    <3> DEFINE next == [pc |-> "read", enable |-> enable, current |-> digestPhone,
                        phone |-> ownerPhone]
    <3>1. next \in Call /\ next.phone \in Phones
      BY DEF DigestTypeOK, Call
    <3> QED BY <3>1 DEF SettingsRead, SetCall, OwnerOnly, preferences, receipts,
       counts, DigestTypeOK
  <2>2. \A pc \in {"revoke", "grant"} :
            LET next == [call[c] EXCEPT !.pc = pc]
            IN  next \in Call /\ next.phone = call[c].phone
    BY <2>0 DEF Call
  <2>3. NoCall.pc = "idle"
    BY DEF NoCall
  <2>4. CASE SettingsWrite(c)
    <3>1. call[c].phone \in Phones
      BY <2>4 DEF SettingsWrite, CallAt
    <3> QED
      BY <2>2, <2>3, <2>4, <3>1, noCall DEF SettingsWrite, SetCall, OwnerOnly,
         receipts, counts, DigestTypeOK
  <2>5. CASE revokePhoneConsent(c)
    <3>1. call[c].phone \in Phones
      BY <2>5 DEF revokePhoneConsent, CallAt
    <3> QED
      BY <2>2, <2>3, <2>5, <3>1, noCall
      DEF revokePhoneConsent, SetCall, OwnerOnly, preferences, receipts,
      counts, DigestTypeOK
  <2>6. CASE grantPhoneConsent(c)
    <3>1. call[c].phone \in Phones
      BY <2>6 DEF grantPhoneConsent, CallAt
    <3> QED
      BY <2>3, <2>6, <3>1, noCall
      DEF grantPhoneConsent, SetCall, OwnerOnly, preferences, receipts,
      counts, DigestTypeOK
  <2>7. CASE SettingsStop(c)
    BY <2>3, <2>7, noCall DEF SettingsStop, SetCall, OwnerOnly, preferences,
       receipts, counts, DigestTypeOK
  <2> QED BY <1>2, <2>1, <2>4, <2>5, <2>6, <2>7 DEF SettingsStep
<1>3. ASSUME NEW p \in Phones, ChangePhone(p) PROVE TypesInv'
  BY <1>3 DEF ChangePhone, OwnerOnly, preferences, receipts, counts, DigestTypeOK
<1>4. ASSUME NEW i \in Items, NEW to \in Listable \cup {"out"}, markSeen(i) \/ ItemMoves(i, to)
      PROVE  TypesInv'
  BY <1>4 DEF markSeen, ItemMoves, OwnerOnly, preferences, receipts, counts,
     DigestTypeOK
<1>5. CASE Midnight
  <2>1. \A r \in Runs : [run[r] EXCEPT !.day = "earlier"] \in Run
    BY DEF DigestTypeOK, Run, Days
  <2>2. run' \in [Runs -> Run]
        /\ \A r \in Runs : run'[r].permitted = run[r].permitted /\ run'[r].phone = run[r].phone
    <3>1. run' = [r \in Runs |-> IF run[r] = NoRun THEN NoRun
                                         ELSE [run[r] EXCEPT !.day = "earlier"]]
      BY <1>5 DEF Midnight
    <3>2. \A r \in Runs : LET next == [run[r] EXCEPT !.day = "earlier"]
                         IN  next.permitted = run[r].permitted /\ next.phone = run[r].phone
      BY DEF DigestTypeOK, Run
    <3> QED BY <2>1, <3>1, <3>2, noRun
  <2>3. row' \in [Days -> Row]
        /\ given' \in [Reminders -> Nat] /\ undone' \in [Reminders -> Nat]
    BY <1>5 DEF Midnight, DigestTypeOK, Days, Row, Reminders
  <2> QED BY <1>5, <2>2, <2>3 DEF Midnight, preferences, receipts, DigestTypeOK
<1>6. CASE UNCHANGED digestVars
  BY <1>6 DEF digestVars, preferences, receipts, counts, DigestTypeOK
<1> QED BY <1>1, <1>2, <1>3, <1>4, <1>5, <1>6

LEMMA typesKept == ASSUME TypesInv, [DigestNext]_digestVars PROVE TypesInv'
  BY runTypes, otherTypes DEF DigestNext

\* A scheduler run, while it is the only one.
LEMMA runStep ==
    ASSUME OneRun, RunsInv, TypesInv', NEW r \in Runs,
           \/ \E inHours, inWindow \in BOOLEAN : RunRead(r, inHours, inWindow)
           \/ Proceed(r) \/ Stop(r)
    PROVE  RunsInv'
<1> USE DEF RunsInv
<1>0. /\ \A s \in Runs : s = r
      /\ run[r] \in Run /\ run \in [Runs -> Run] /\ run[r].keys \subseteq Items
      /\ Items \subseteq Reminders /\ Digest \in Reminders /\ Digest \notin Items
      /\ \A x \in Reminders : given[x] \in Nat /\ undone[x] \in Nat
  BY ItemsAssumption DEF OneRun, TypesInv, DigestTypeOK, Run, Reminders, Digest
\* Only what the step makes of this run's record matters to the other parts.
<1> DEFINE old == run[r]
           new == run'[r]
           markedBy(i, fields) == fields.pc = "mark" /\ i \in fields.keys
<1>a. ASSUME run' = [run EXCEPT ![r] = new],
             \A i \in Items : /\ given'[i] <= 1 + undone'[i]
                              /\ i \notin pushed' /\ ~markedBy(i, new) => given'[i] <= undone'[i],
             new.pc = "pushing" => new.keys \cap pushed' = {},
             given'[Digest] <= 1 + undone'[Digest],
             \/ checkedToday' \/ (new.sent /\ new.day = "today")
             \/ given'[Digest] <= undone'[Digest],
             new.sent => new.pc = "stamp",
             new.day = "earlier" => ~checkedToday' /\ given'[Digest] = 0,
             new.day = "today" /\ OnItsWay(new) => ~checkedToday'
      PROVE  RunsInv'
  BY <1>0, <1>a DEF ItemsOnce, KeysUnpushed, DigestOnce, RunsDay, RunAt, OnItsWay
<1>b. /\ \A i \in Items : /\ given[i] <= 1 + undone[i]
                          /\ i \notin pushed /\ ~markedBy(i, old) => given[i] <= undone[i]
      /\ old.pc = "pushing" => old.keys \cap pushed = {}
      /\ given[Digest] <= 1 + undone[Digest]
      /\ checkedToday \/ (old.sent /\ old.day = "today") \/ given[Digest] <= undone[Digest]
      /\ old.sent => old.pc = "stamp"
      /\ old.day = "earlier" => ~checkedToday /\ given[Digest] = 0
      /\ old.day = "today" /\ OnItsWay(old) => ~checkedToday
  BY <1>0 DEF ItemsOnce, KeysUnpushed, DigestOnce, RunsDay, RunAt, OnItsWay
<1>n. NoRun.pc = "idle" /\ NoRun.day = "today" /\ ~NoRun.sent /\ ~NoRun.due
  BY DEF NoRun
\* A step that only takes the run on, and is not at the push or the mark.
<1>c. ASSUME run' = [run EXCEPT ![r] = new],
             UNCHANGED <<given, undone, pushed, checkedToday>>,
             old.pc # "mark", ~old.sent, ~new.sent, new.pc # "mark",
             new.pc = "pushing" => new.keys \cap pushed = {},
             new.day = "earlier" => old.day = "earlier",
             new.day = "today" /\ OnItsWay(new) => ~checkedToday
      PROVE  RunsInv'
  BY <1>a, <1>b, <1>c
<1>1. CASE \E inHours, inWindow \in BOOLEAN : RunRead(r, inHours, inWindow)
  <2> PICK inHours \in BOOLEAN, inWindow \in BOOLEAN : RunRead(r, inHours, inWindow)
    BY <1>1
  <2> DEFINE isDue == digestDue(inWindow)
             next == [NoRun EXCEPT !.pc = "read", !.inHours = push /\ inHours, !.due = isDue,
                                   !.phone = IF isDue THEN digestPhone ELSE NoPhone]
  <2>1. run' = [run EXCEPT ![r] = next] /\ old = NoRun
        /\ UNCHANGED <<given, undone, pushed, checkedToday>>
    BY DEF RunRead, Set, RunOnly, receipts, counts
  <2>2. isDue => ~checkedToday
    BY DEF digestDue
  <2>3. next.pc = "read" /\ ~next.sent /\ next.day = "today" /\ next.due = isDue
    BY DEF NoRun
  <2> HIDE DEF isDue, next
  <2>4. new = next
    BY <1>0, <2>1
  <2> QED BY <1>c, <1>n, <2>1, <2>2, <2>3, <2>4 DEF OnItsWay
<1>2. CASE \E routine \in BOOLEAN : Look(r, routine)
  <2> PICK routine \in BOOLEAN : Look(r, routine)
    BY <1>2
  <2> DEFINE urgent == Alerts \ itemsSeen
             some == routine \/ Listed # {}
             found == [run[r] EXCEPT !.tasks = some]
             next == [found EXCEPT !.pc = "urgent", !.keys = urgent]
  <2>1. /\ run' = [run EXCEPT ![r] = IF run[r].inHours /\ urgent # {} THEN next
                                     ELSE AfterUrgent(found)]
        /\ old.pc = "read" /\ UNCHANGED <<given, undone, pushed, checkedToday>>
    BY DEF Look, Set, RunAt, RunOnly, receipts, counts
  <2>2. some \in BOOLEAN
    OBVIOUS
  <2> HIDE DEF urgent, some
  <2>3. found \in Run /\ found.due = old.due /\ found.day = old.day /\ found.sent = old.sent
    BY <1>0, <2>2 DEF Run
  <2>4. next.pc = "urgent" /\ next.due = old.due /\ next.day = old.day /\ next.sent = old.sent
    BY <1>0, <2>3 DEF Run
  <2> HIDE DEF found, next
  <2>5. ~AfterUrgent(found).sent /\ AfterUrgent(found).pc \notin {"pushing", "mark"}
        /\ (AfterUrgent(found).day = "earlier" => old.day = "earlier")
        /\ (OnItsWay(AfterUrgent(found)) => old.due /\ AfterUrgent(found).day = old.day)
    BY <2>3, afterUrgent
  <2>6. new = next \/ new = AfterUrgent(found)
    BY <1>0, <2>1
  <2>7. ~old.sent
    BY <1>b, <2>1
  <2> QED BY <1>b, <1>c, <2>1, <2>4, <2>5, <2>6, <2>7 DEF OnItsWay
\* Where the run goes when the urgent items are done with.
<1>d. LET next == AfterUrgent(run[r])
      IN  /\ ~next.sent /\ next.pc \notin {"pushing", "mark"}
          /\ next.day = "earlier" => old.day = "earlier"
          /\ OnItsWay(next) => old.due /\ next.day = old.day
  BY <1>0, afterUrgent
<1>3. CASE unpushed(r)
  <2> DEFINE next == [run[r] EXCEPT !.pc = "pushing", !.keys = run[r].keys \ pushed]
  <2>1. next.pc = "pushing" /\ next.keys = run[r].keys \ pushed /\ next.day = old.day
        /\ next.due = old.due /\ next.sent = old.sent
    BY <1>0 DEF Run
  <2>2. /\ run' = [run EXCEPT ![r] =
                      IF run[r].keys \ pushed = {} THEN AfterUrgent(run[r]) ELSE next]
        /\ old.pc = "urgent" /\ UNCHANGED <<given, undone, pushed, checkedToday>>
    BY <1>3 DEF unpushed, Set, RunAt, RunOnly, receipts, counts
  <2> HIDE DEF next
  <2>3. new = next \/ new = AfterUrgent(run[r])
    BY <1>0, <2>2
  <2> QED BY <1>b, <1>c, <1>d, <2>1, <2>2, <2>3 DEF OnItsWay
<1>4. ASSUME NEW sent \in BOOLEAN, PushUrgent(r, sent) PROVE RunsInv'
  <2>1. /\ run' = [run EXCEPT ![r] = AfterPush(r, sent)]
        /\ given' = [x \in Reminders |-> IF x \in (IF sent THEN old.keys ELSE {})
                                         THEN given[x] + 1 ELSE given[x]]
        /\ old.pc = "pushing" /\ UNCHANGED <<undone, pushed, checkedToday>>
    BY <1>4 DEF PushUrgent, Given, Set, RunAt, receipts
  <2>2. new = AfterPush(r, sent)
    BY <1>0, <2>1
  <2>3. given'[Digest] = given[Digest] /\ \A i \in Items :
            given'[i] = IF sent /\ i \in old.keys THEN given[i] + 1 ELSE given[i]
    BY <1>0, <2>1
  <2>4. CASE sent
    <3>1. new.pc = "mark" /\ new.keys = old.keys /\ new.day = old.day /\ new.due = old.due
          /\ new.sent = old.sent
      BY <1>0, <2>2, <2>4 DEF AfterPush, Run
    <3>2. ASSUME NEW i \in Items
          PROVE  /\ given'[i] <= 1 + undone'[i]
                 /\ i \notin pushed' /\ ~markedBy(i, new) => given'[i] <= undone'[i]
      <4>1. given[i] \in Nat /\ undone[i] \in Nat /\ undone'[i] = undone[i]
        BY <1>0, <2>1
      <4>2. CASE i \in old.keys
        <5>1. i \notin pushed /\ ~markedBy(i, old)
          BY <1>b, <2>1, <4>2
        <5>2. given[i] <= undone[i] /\ given'[i] = given[i] + 1 /\ markedBy(i, new)
          BY <1>b, <2>3, <2>4, <3>1, <4>2, <5>1
        <5> QED BY <4>1, <5>2
      <4>3. CASE i \notin old.keys
        <5>1. given'[i] = given[i] /\ ~markedBy(i, old)
          BY <2>3, <4>3
        <5> QED BY <1>b, <2>1, <4>1, <5>1
      <4> QED BY <4>2, <4>3
    <3>3. \A i \in Items :
              /\ given'[i] <= 1 + undone'[i]
              /\ i \notin pushed' /\ ~markedBy(i, new) => given'[i] <= undone'[i]
      BY <3>2
    <3> QED BY <1>a, <1>b, <2>1, <2>2, <2>3, <3>1, <3>3 DEF OnItsWay
  <2>5. CASE ~sent
    <3>1. new = AfterUrgent(run[r])
      BY <2>2, <2>5 DEF AfterPush
    <3>2. \A i \in Items : given'[i] = given[i]
      BY <2>3, <2>5
    <3> QED BY <1>a, <1>b, <1>d, <2>1, <2>2, <2>3, <2>5, <3>1, <3>2 DEF OnItsWay
  <2> QED BY <2>4, <2>5
<1>5. ASSUME NEW sent \in BOOLEAN, PushDigest(r, sent) PROVE RunsInv'
  <2> DEFINE next == [run[r] EXCEPT !.pc = "stamp", !.sent = sent]
  <2>1. /\ run' = [run EXCEPT ![r] = next]
        /\ given' = [x \in Reminders |->
                         IF x \in (IF sent /\ old.day = "today" THEN {Digest} ELSE {})
                         THEN given[x] + 1 ELSE given[x]]
        /\ old.pc = "digest" /\ UNCHANGED <<undone, pushed, checkedToday>>
    BY <1>5 DEF PushDigest, Given, Set, RunAt, receipts
  <2>2. next.pc = "stamp" /\ next.day = old.day /\ next.sent = sent
    BY <1>0 DEF Run
  <2> HIDE DEF next
  <2>3. new = next
    BY <1>0, <2>1
  <2>4. (\A i \in Items : given'[i] = given[i])
        /\ given'[Digest] = given[Digest] + IF sent /\ old.day = "today" THEN 1 ELSE 0
    BY <1>0, <2>1
  <2>5. old.day \in {"today", "earlier"}
    BY <1>0 DEF Run, Days
  <2>6. ~checkedToday /\ given[Digest] <= undone[Digest]
    BY <1>b, <2>1, <2>5 DEF OnItsWay
  <2> QED BY <1>0, <1>a, <1>b, <2>1, <2>2, <2>3, <2>4, <2>5, <2>6 DEF OnItsWay
<1>6. CASE markPushed(r)
  <2>1. /\ run' = [run EXCEPT ![r] = AfterUrgent(run[r])] /\ pushed' = pushed \cup old.keys
        /\ old.pc = "mark" /\ UNCHANGED <<given, undone, checkedToday>>
    BY <1>6 DEF markPushed, Set, RunAt, counts
  <2>2. new = AfterUrgent(run[r])
    BY <1>0, <2>1
  <2> QED BY <1>a, <1>b, <1>d, <2>1, <2>2 DEF OnItsWay
<1>7. CASE EnqueueRead(r)
  <2> DEFINE permitted == run[r].phone \in digestConsent
             next == [run[r] EXCEPT !.pc = "enqueue", !.permitted = permitted]
  <2>1. /\ run' = [run EXCEPT ![r] = next]
        /\ old.pc = "consent" /\ UNCHANGED <<given, undone, pushed, checkedToday>>
    BY <1>7 DEF EnqueueRead, Set, RunAt, RunOnly, receipts, counts
  <2> HIDE DEF permitted
  <2>2. next.pc = "enqueue" /\ next.day = old.day /\ next.sent = old.sent
    BY <1>0 DEF Run
  <2> HIDE DEF next
  <2>3. new = next
    BY <1>0, <2>1
  <2> QED BY <1>b, <1>c, <2>1, <2>2, <2>3 DEF OnItsWay
<1>8. CASE enqueueOwnerDigest(r)
  <2> DEFINE d == run[r].day
             next == [NoRun EXCEPT !.day = d, !.pc = IF push THEN "digest" ELSE "stamp"]
  <2>1. /\ run' = [run EXCEPT ![r] = next]
        /\ old.pc = "enqueue" /\ UNCHANGED <<given, undone, pushed, checkedToday>>
    BY <1>8 DEF enqueueOwnerDigest, Set, RunAt, receipts, counts
  <2>2. next.pc \in {"digest", "stamp"} /\ next.day = old.day /\ ~next.sent
    BY DEF NoRun
  <2> HIDE DEF next
  <2>3. new = next
    BY <1>0, <2>1
  <2> QED BY <1>b, <1>c, <2>1, <2>2, <2>3 DEF OnItsWay
<1>9. CASE markDigestChecked(r)
  <2>1. /\ run' = [run EXCEPT ![r] = NoRun] /\ checkedToday' = (old.day = "today")
        /\ old.pc = "stamp" /\ UNCHANGED <<given, undone, pushed>>
    BY <1>9 DEF markDigestChecked, Set, RunAt, receipts, counts
  <2>2. new = NoRun
    BY <1>0, <2>1
  <2>3. old.day \in {"today", "earlier"}
    BY <1>0 DEF Run, Days
  <2> QED BY <1>0, <1>a, <1>b, <1>n, <2>1, <2>2, <2>3 DEF OnItsWay
<1>10. CASE Stop(r)
  <2>1. /\ run' = [run EXCEPT ![r] = NoRun]
        /\ undone' = [x \in Reminders |->
                          IF x \in LeftUnmarked(r) THEN undone[x] + 1 ELSE undone[x]]
        /\ UNCHANGED <<given, pushed, checkedToday>>
    BY <1>10 DEF Stop, Set, receipts
  <2>2. new = NoRun
    BY <1>0, <2>1
  <2>3. \A i \in Items : undone'[i] = IF markedBy(i, old) THEN undone[i] + 1 ELSE undone[i]
    BY <1>0, <2>1 DEF LeftUnmarked, RunAt
  <2>4. undone'[Digest] = undone[Digest] + IF old.sent /\ old.day = "today" THEN 1 ELSE 0
    BY <1>0, <1>b, <2>1 DEF LeftUnmarked, RunAt
  <2> QED BY <1>0, <1>a, <1>b, <1>n, <2>1, <2>2, <2>3, <2>4 DEF OnItsWay
<1> QED BY <1>1, <1>2, <1>3, <1>4, <1>5, <1>6, <1>7, <1>8, <1>9, <1>10 DEF Proceed

\* Midnight, and what the owner and the outbox do.
LEMMA otherSteps ==
    ASSUME RunsInv, TypesInv',
           \/ \E d \in Days : processOne(d)
           \/ \E c \in Calls : SettingsStep(c)
           \/ \E p \in Phones : ChangePhone(p)
           \/ \E i \in Items : markSeen(i) \/ \E to \in Listable \cup {"out"} : ItemMoves(i, to)
           \/ Midnight
           \/ UNCHANGED digestVars
    PROVE  RunsInv'
<1> USE DEF RunsInv
<1>1. ASSUME UNCHANGED <<run, given, undone, pushed, checkedToday>> PROVE RunsInv'
  BY <1>1 DEF ItemsOnce, KeysUnpushed, DigestOnce, RunsDay, RunAt
<1>2. CASE Midnight
  <2>1. /\ run' = [r \in Runs |-> IF run[r] = NoRun THEN NoRun
                                         ELSE [run[r] EXCEPT !.day = "earlier"]]
        /\ ~checkedToday' /\ pushed' = pushed
        /\ given' = [given EXCEPT ![Digest] = 0] /\ undone' = [undone EXCEPT ![Digest] = 0]
    BY <1>2 DEF Midnight, receipts
  <2>2. /\ given'[Digest] = 0 /\ undone'[Digest] = 0
        /\ \A i \in Items : given'[i] = given[i] /\ undone'[i] = undone[i]
    BY <2>1, ItemsAssumption DEF TypesInv, DigestTypeOK, Reminders, Digest
  <2>3. \A r \in Runs :
            run'[r].pc = run[r].pc /\ run'[r].keys = run[r].keys /\ run'[r].sent = run[r].sent
    BY <2>1 DEF TypesInv, DigestTypeOK, Run
  <2> QED BY <2>1, <2>2, <2>3 DEF ItemsOnce, KeysUnpushed, DigestOnce, RunsDay, RunAt
<1> QED
  BY <1>1, <1>2 DEF processOne, SettingsStep, SettingsRead, SettingsWrite,
     revokePhoneConsent,
     grantPhoneConsent, SettingsStop, OwnerOnly, ChangePhone, markSeen,
     ItemMoves, digestVars, receipts, counts

LEMMA runsInvKept == ASSUME OneRun, RunsInv, [DigestNext]_digestVars PROVE RunsInv'
<1>1. TypesInv'
  BY typesKept DEF RunsInv
<1> QED BY <1>1, runStep, otherSteps DEF DigestNext

\* TypeOK: for any number of items, numbers, scheduler runs and settings calls.
THEOREM digestTypes == DigestSpec => []DigestTypeOK
<1>1. DigestInit => TypesInv
  BY digestInit DEF RunsInv
<1>2. TypesInv /\ [DigestNext]_digestVars => TypesInv'
  BY typesKept
<1>3. TypesInv => DigestTypeOK
  BY DEF TypesInv
<1> QED BY <1>1, <1>2, <1>3, PTL DEF DigestSpec

\* RemindedOnce: a device takes each reminder once, and once more for each run that
\* stopped between a push and its mark, however many items there are.
THEOREM remindedOnce == ASSUME OneRun PROVE DigestSpec => []RemindedOnce
<1>1. DigestInit => RunsInv
  BY digestInit
<1>2. RunsInv /\ [DigestNext]_digestVars => RunsInv'
  BY runsInvKept
<1>3. RunsInv => RemindedOnce
  BY DEF RunsInv, ItemsOnce, DigestOnce, RemindedOnce, Reminders
<1> QED BY <1>1, <1>2, <1>3, PTL DEF DigestSpec

-----------------------------------------------------------------------------
(* One settings call at a time, that is not stopped: what it does to the   *)
(* consents.                                                               *)
OneCall == (\A a, b \in Calls : a = b) /\ ~CallsStop

CallFollowed(s) ==
    /\ s.pc = "read" => digestConsent \subseteq {digestPhone} /\ s.current = digestPhone
    /\ s.pc = "revoke" => /\ digestConsent \subseteq {s.current}
                          /\ digestPhone = IF s.enable THEN s.phone ELSE NoPhone
    /\ s.pc = "grant" => digestConsent \subseteq {s.phone} /\ digestPhone = s.phone

\* Between calls only the number chosen for the digest has a consent.
ConsentFollows ==
    /\ \A c \in Calls : CallFollowed(call[c])
    /\ (\A c \in Calls : call[c] = NoCall) => digestConsent \subseteq {digestPhone}

LEMMA consentFollowsKept ==
    ASSUME OneCall, TypesInv, ConsentFollows, [DigestNext]_digestVars
    PROVE  ConsentFollows'
<1>n. NoCall.pc = "idle"
  BY DEF NoCall
<1>1. ASSUME UNCHANGED <<call, digestConsent, digestPhone>> PROVE ConsentFollows'
  BY <1>1 DEF ConsentFollows, CallFollowed
<1>2. ASSUME NEW c \in Calls, SettingsStep(c) PROVE ConsentFollows'
  <2> DEFINE s == call[c]
  <2>0. /\ \A b \in Calls : b = c
        /\ call \in [Calls -> Call] /\ s \in Call /\ NoPhone \notin digestConsent
    BY PhonesAssumption DEF OneCall, TypesInv, DigestTypeOK
  <2>a. CallFollowed(s) /\ (s = NoCall => digestConsent \subseteq {digestPhone})
    BY <2>0 DEF ConsentFollows
  \* It is this call's record and the two columns that matter.
  <2>b. ASSUME NEW new, call' = [call EXCEPT ![c] = new],
               \/ new.pc = "read" /\ digestConsent' \subseteq {digestPhone'}
                  /\ new.current = digestPhone'
               \/ new.pc = "revoke" /\ digestConsent' \subseteq {new.current}
                  /\ digestPhone' = (IF new.enable THEN new.phone ELSE NoPhone)
               \/ new.pc = "grant" /\ digestConsent' \subseteq {new.phone} /\ digestPhone' = new.phone
               \/ new.pc = "idle" /\ digestConsent' \subseteq {digestPhone'}
        PROVE  ConsentFollows'
    <3>1. call'[c] = new /\ \A b \in Calls : call'[b] = new
      BY <2>0, <2>b
    <3> QED BY <1>n, <2>b, <3>1 DEF ConsentFollows, CallFollowed
  <2>1. ASSUME NEW enable \in BOOLEAN, SettingsRead(c, enable) PROVE ConsentFollows'
    <3> DEFINE new == [pc |-> "read", enable |-> enable, current |-> digestPhone,
                       phone |-> ownerPhone]
    <3>1. call' = [call EXCEPT ![c] = new]
          /\ digestConsent' = digestConsent /\ digestPhone' = digestPhone
          /\ digestConsent \subseteq {digestPhone}
      BY <2>1, <2>a DEF SettingsRead, SetCall, preferences
    <3>2. new.pc = "read" /\ new.current = digestPhone
      OBVIOUS
    <3> HIDE DEF new
    <3> QED BY <2>b, <3>1, <3>2
  <2>2. CASE SettingsWrite(c)
    <3> DEFINE at(pc) == [s EXCEPT !.pc = pc]
    <3>1. \A pc \in {"revoke", "grant"} : at(pc).pc = pc /\ at(pc).current = s.current
              /\ at(pc).phone = s.phone /\ at(pc).enable = s.enable
      BY <2>0 DEF Call
    <3>2. digestConsent' = digestConsent
          /\ digestConsent \subseteq {digestPhone} /\ s.current = digestPhone
          /\ digestPhone' = IF s.enable THEN s.phone ELSE NoPhone
      BY <2>2, <2>a DEF SettingsWrite, CallAt, CallFollowed
    <3> HIDE DEF at
    <3>3. CASE Revokes(s)
      <4>1. call' = [call EXCEPT ![c] = at("revoke")]
        BY <2>2, <3>3 DEF SettingsWrite, SetCall, at
      <4> QED BY <2>b, <3>1, <3>2, <4>1
    <3>4. CASE ~Revokes(s) /\ s.enable
      <4>1. call' = [call EXCEPT ![c] = at("grant")]
        BY <2>2, <3>4 DEF SettingsWrite, SetCall, at
      <4>2. digestConsent \subseteq {s.phone}
        BY <2>0, <3>2, <3>4 DEF Revokes
      <4> QED BY <2>b, <3>1, <3>2, <3>4, <4>1, <4>2
    <3>5. CASE ~Revokes(s) /\ ~s.enable
      <4>1. call' = [call EXCEPT ![c] = NoCall]
        BY <2>2, <3>5 DEF SettingsWrite, SetCall
      <4>2. digestConsent = {}
        BY <2>0, <3>2, <3>5 DEF Revokes
      <4> QED BY <1>n, <2>b, <3>2, <4>1, <4>2
    <3> QED BY <3>3, <3>4, <3>5
  <2>3. CASE revokePhoneConsent(c)
    <3> DEFINE new == IF s.enable THEN [s EXCEPT !.pc = "grant"] ELSE NoCall
    <3>1. call' = [call EXCEPT ![c] = new] /\ digestConsent' = {} /\ digestPhone' = digestPhone
          /\ digestPhone = IF s.enable THEN s.phone ELSE NoPhone
      BY <2>3, <2>a DEF revokePhoneConsent, CallAt, SetCall, CallFollowed, preferences
    <3>2. IF s.enable THEN new.pc = "grant" /\ new.phone = s.phone ELSE new.pc = "idle"
      BY <1>n, <2>0 DEF Call
    <3> HIDE DEF new
    <3> QED BY <2>b, <3>1, <3>2
  <2>4. CASE grantPhoneConsent(c)
    <3>1. call' = [call EXCEPT ![c] = NoCall] /\ digestPhone' = digestPhone
          /\ digestConsent' \subseteq {digestPhone}
      BY <2>4, <2>a DEF grantPhoneConsent, CallAt, SetCall, CallFollowed, preferences
    <3> QED BY <1>n, <2>b, <3>1
  <2> QED BY <1>2, <2>1, <2>2, <2>3, <2>4 DEF SettingsStep, SettingsStop, OneCall
<1>3. ASSUME NEW r \in Runs,
             \/ \E inHours, inWindow \in BOOLEAN : RunRead(r, inHours, inWindow)
             \/ Proceed(r) \/ Stop(r)
      PROVE  UNCHANGED <<call, digestConsent, digestPhone>>
  BY <1>3 DEF RunRead, Proceed, Look, unpushed, PushUrgent, PushDigest,
     markPushed, EnqueueRead,
     enqueueOwnerDigest, markDigestChecked, Stop, RunOnly, preferences
<1> QED
  BY <1>1, <1>2, <1>3 DEF DigestNext, processOne, ChangePhone, markSeen, ItemMoves,
     Midnight, OwnerOnly,
     preferences, digestVars

LEMMA consentFollows == ASSUME OneCall PROVE DigestSpec => [](TypesInv /\ ConsentFollows)
<1>1. DigestInit => TypesInv /\ ConsentFollows
  <2> SUFFICES ASSUME DigestInit PROVE TypesInv /\ ConsentFollows
    OBVIOUS
  <2>1. TypesInv
    BY digestInit DEF RunsInv
  <2>2. digestConsent = {} /\ \A c \in Calls : call[c].pc = "idle"
    BY DEF DigestInit, NoCall
  <2> QED BY <2>1, <2>2 DEF ConsentFollows, CallFollowed
<1>2. TypesInv /\ ConsentFollows /\ [DigestNext]_digestVars => (TypesInv /\ ConsentFollows)'
  BY typesKept, consentFollowsKept
<1> QED BY <1>1, <1>2, PTL DEF DigestSpec

\* DisablingRevokes holds of a call that is not stopped (MCConsentRevoked stops one).
THEOREM disablingRevokes == ASSUME OneCall PROVE DigestSpec => []DisablingRevokes
<1>1. TypesInv /\ ConsentFollows => DisablingRevokes
  BY PhonesAssumption DEF ConsentFollows, DisablingRevokes, on, TypesInv, DigestTypeOK
<1> QED BY <1>1, consentFollows, PTL

\* A row that waits becomes SENT only by processOne, which found the consent.
LEMMA sentIsPermitted ==
    ASSUME TypesInv, [DigestNext]_digestVars, NEW d \in Days,
           row[d] \in Phones, row' = [row EXCEPT ![d] = "SENT"]
    PROVE  row[d] \in digestConsent /\ UNCHANGED <<call, digestPhone>>
<1>0. /\ row \in [Days -> Row] /\ Days = {"today", "earlier"}
      /\ row'[d] = "SENT" /\ row[d] \notin {"NONE", "SENT", "SUPPRESSED"}
      /\ \A e \in Days : e # d => row'[e] = row[e]
  BY PhonesAssumption DEF TypesInv, DigestTypeOK, Days
<1>1. row' # row
  BY <1>0
<1>2. ASSUME NEW e \in Days, processOne(e)
      PROVE  row[d] \in digestConsent /\ UNCHANGED <<call, digestPhone>>
  BY <1>0, <1>2 DEF processOne, Permitted, preferences
<1>3. ASSUME NEW r \in Runs, enqueueOwnerDigest(r) PROVE FALSE
  <2> DEFINE value == IF run[r].permitted THEN run[r].phone ELSE "SUPPRESSED"
             e == run[r].day
  <2>1. row' = [row EXCEPT ![e] = IF @ = "NONE" THEN value ELSE @]
    BY <1>3 DEF enqueueOwnerDigest
  <2> HIDE DEF value, e
  <2> QED BY <1>0, <2>1
<1>4. CASE Midnight
  <2>1. row'["today"] = "NONE" /\ row'["earlier"] = row["today"]
    BY <1>4 DEF Midnight
  <2> QED BY <1>0, <2>1
<1>5. ASSUME NEW r \in Runs,
             \/ \E inHours, inWindow \in BOOLEAN : RunRead(r, inHours, inWindow)
             \/ Proceed(r) /\ ~enqueueOwnerDigest(r)
             \/ Stop(r)
      PROVE  FALSE
  BY <1>1, <1>5 DEF RunRead, Proceed, Look, unpushed, PushUrgent, PushDigest,
     markPushed, EnqueueRead, markDigestChecked, Stop, RunOnly
<1> QED
  BY <1>1, <1>2, <1>3, <1>4, <1>5 DEF DigestNext, SettingsStep, SettingsRead, SettingsWrite,
     revokePhoneConsent, grantPhoneConsent, SettingsStop, ChangePhone, markSeen,
     ItemMoves, OwnerOnly, digestVars

\* SentToChosenNumber: a digest goes out only to the number chosen for it, whatever
\* the runs had read before, for one settings call at a time that is not stopped.
THEOREM sentToChosenNumber == ASSUME OneCall PROVE DigestSpec => SentToChosenNumber
<1> DEFINE Chosen ==
      \A d \in Days : row[d] \in Phones /\ row' = [row EXCEPT ![d] = "SENT"] =>
           \/ row[d] = digestPhone
           \/ \E c \in Calls : call[c] # NoCall
<1>1. TypesInv /\ ConsentFollows /\ [DigestNext]_digestVars => [Chosen]_digestVars
  BY sentIsPermitted DEF ConsentFollows
<1> QED BY <1>1, consentFollows, PTL DEF DigestSpec, SentToChosenNumber
=============================================================================
