--------------------------- MODULE AttentionDigest ---------------------------
(***************************************************************************)
(* The reminders of one business's owner: urgent items pushed to a device, *)
(* and one digest a day by WhatsApp and push.  A cron calls the scheduler  *)
(* run every few minutes; the run reads the preferences, then what needs   *)
(* attention, sends, and only then marks what it sent.  It may stop        *)
(* between any two steps, by a crash or by an error its catch logs.        *)
(*                                                                         *)
(* Meanwhile the owner changes the settings (the preferences first, the    *)
(* consent of the number in statements of their own) and the number.  The  *)
(* outbox is MessageOutbox; here it only looks at the consent again.       *)
(* This owner does not pause the digest, and push is on or off for good.   *)
(* Its names are not MessageOutbox's, so that one module can extend both.  *)
(***************************************************************************)
EXTENDS Naturals, FiniteSets

CONSTANTS
    Items,          \* issues, requests and proofs: what may become urgent
    KindOf, CreatedAt,       \* which of them an item is, and when it was made
    TakeOf, AlertCap,        \* take: of each kind's query, and of the alerts
    Businesses, RunTake,     \* businesses whose preferences match, take: of a run
    Phones, NoPhone,
    Runs, Calls,    \* scheduler runs and settings calls that may be in flight
    StopBound,      \* bound: runs that stop after sending a thing, before its mark
    CallsStop       \* a settings call may stop half way

ASSUME PhonesAssumption == NoPhone \notin Phones /\ Phones \cap {"NONE", "SENT", "SUPPRESSED"} = {}
ASSUME ItemsAssumption == "digest" \notin Items
ASSUME CapsAssumption ==
    /\ KindOf \in [Items -> {"issue", "request", "proof"}]
    /\ CreatedAt \in [Items -> Nat]
    /\ \A i, j \in Items : CreatedAt[i] = CreatedAt[j] => i = j
    /\ TakeOf \in [{"issue", "request", "proof"} -> Nat \ {0}] /\ AlertCap \in Nat \ {0}
    /\ Businesses \in Nat \ {0} /\ RunTake \in Nat \ {0}
ASSUME StopsAssumption == StopBound \in Nat /\ CallsStop \in BOOLEAN

VARIABLES
    digestPhone, push,       \* BusinessPreferences (no number: the digest is off;
                             \* pushNotificationsEnabled is set once and for all)
    checkedToday,            \* lastDailyDigestAt is of this day
    ownerPhone,              \* User.phone
    digestConsent,           \* numbers with an unrevoked OWNER_DIGEST consent
    row,                     \* the outbox rows of today's and the day before's key
    item, itemsSeen, pushed, \* the items, their receipts' seenAt and pushedAt
    run, call,               \* what is in flight
    given, undone            \* (observation) pushes some device took; runs that stopped
                             \* between such a push and its mark

preferences == <<digestPhone, push>>
receipts == <<itemsSeen, pushed>>
counts == <<given, undone>>
digestVars == <<preferences, checkedToday, ownerPhone, digestConsent, row, item, receipts,
          run, call, counts>>

Days == {"today", "earlier"}
Digest == "digest"
Reminders == Items \cup {Digest}
Listable == {"urgent", "open"}    \* the statuses that the queries of attention.get match
on == digestPhone # NoPhone

\* A row that waits is its number; then it is sent or suppressed.
Row == Phones \cup {"NONE", "SENT", "SUPPRESSED"}

\* What a run keeps of what it read, until it has used it.
Run == [pc : {"idle", "read", "urgent", "pushing", "mark", "consent", "enqueue", "digest", "stamp"},
        day : Days, phone : Phones \cup {NoPhone}, inHours : BOOLEAN, due : BOOLEAN,
        keys : SUBSET Items, tasks : BOOLEAN, permitted : BOOLEAN, sent : BOOLEAN]
NoRun == [pc |-> "idle", day |-> "today", phone |-> NoPhone, inHours |-> FALSE, due |-> FALSE,
          keys |-> {}, tasks |-> FALSE, permitted |-> FALSE, sent |-> FALSE]

Call == [pc : {"idle", "read", "revoke", "grant"}, enable : BOOLEAN,
         current : Phones \cup {NoPhone}, phone : Phones \cup {NoPhone}]
NoCall == [pc |-> "idle", enable |-> FALSE, current |-> NoPhone, phone |-> NoPhone]

DigestTypeOK ==
    /\ digestPhone \in Phones \cup {NoPhone} /\ push \in BOOLEAN /\ checkedToday \in BOOLEAN
    /\ ownerPhone \in Phones /\ digestConsent \subseteq Phones /\ row \in [Days -> Row]
    /\ item \in [Items -> Listable \cup {"none", "out"}]
    /\ itemsSeen \subseteq Items /\ pushed \subseteq Items
    /\ run \in [Runs -> Run] /\ call \in [Calls -> Call]
    /\ given \in [Reminders -> Nat] /\ undone \in [Reminders -> Nat]

DigestInit ==
    /\ digestPhone = NoPhone /\ push \in BOOLEAN /\ checkedToday = FALSE
    /\ ownerPhone \in Phones /\ digestConsent = {} /\ row = [d \in Days |-> "NONE"]
    /\ item = [i \in Items |-> "none"] /\ itemsSeen = {} /\ pushed = {}
    /\ run = [r \in Runs |-> NoRun] /\ call = [c \in Calls |-> NoCall]
    /\ given = [x \in Reminders |-> 0] /\ undone = [x \in Reminders |-> 0]

-----------------------------------------------------------------------------
(* The scheduler run.                                                      *)

RunAt(r, pc) == run[r].pc = pc
Set(r, fields) == run' = [run EXCEPT ![r] = fields]
RunOnly == UNCHANGED <<preferences, checkedToday, ownerPhone, digestConsent, row, item,
                       receipts, call, counts>>

\* digestDue, of the preferences and the time read at the start of the run.
DueAllDay(inWindow) == inWindow                \* mutant: the day's stamp not looked at
digestDue(inWindow) == inWindow /\ ~checkedToday

\* withinOwnerPushWindow, and the three hours after the owner's time on a day chosen.
RunRead(r, inHours, inWindow) ==
    /\ run[r] = NoRun
    /\ on \/ push
    /\ LET due == digestDue(inWindow)
       IN  Set(r, [NoRun EXCEPT !.pc = "read", !.inHours = push /\ inHours, !.due = due,
                                !.phone = IF due THEN digestPhone ELSE NoPhone])
    /\ RunOnly

\* Where a run goes once the urgent items are seen to.
AfterUrgent(fields) ==
    IF ~fields.due THEN NoRun
    ELSE [NoRun EXCEPT !.day = fields.day, !.phone = fields.phone,
                       !.pc = CASE ~fields.tasks -> "stamp"
                                [] fields.tasks /\ fields.phone # NoPhone -> "consent"
                                [] OTHER -> "digest"]

\* attention.get asks for the oldest few of each kind, read and pushed ones among
\* them, and its alerts are the oldest few of those, urgent ones first.
Older(i, S) == {j \in S : CreatedAt[j] < CreatedAt[i]}
Open(kind) == {i \in Items : KindOf[i] = kind /\ item[i] \in Listable}
Listed == {i \in Items : /\ i \in Open(KindOf[i])
                        /\ Cardinality(Older(i, Open(KindOf[i]))) < TakeOf[KindOf[i]]}
UrgentListed == {i \in Listed : item[i] = "urgent"}
Alerts == {i \in UrgentListed : Cardinality(Older(i, UrgentListed)) < AlertCap}

\* Tasks of another kind (stock, deliveries, follow-ups) come and go; they never
\* take an urgent item's place.
Look(r, routine) ==
    LET urgent == Alerts \ itemsSeen
        found == [run[r] EXCEPT !.tasks = routine \/ Listed # {}]
    IN  /\ RunAt(r, "read")
        /\ Set(r, IF run[r].inHours /\ urgent # {}
                  THEN [found EXCEPT !.pc = "urgent", !.keys = urgent]
                  ELSE AfterUrgent(found))
        /\ RunOnly

unpushed(r) ==
    LET left == run[r].keys \ pushed
    IN  /\ RunAt(r, "urgent")
        /\ Set(r, IF left = {} THEN AfterUrgent(run[r])
                  ELSE [run[r] EXCEPT !.pc = "pushing", !.keys = left])
        /\ RunOnly

\* sendToOwner: some device took the push, or none did (or it threw, and the
\* catch around the urgent items goes on).
Given(X) == given' = [x \in Reminders |-> IF x \in X THEN given[x] + 1 ELSE given[x]]

MarkedAnyway(r, sent) == [run[r] EXCEPT !.pc = "mark"]   \* mutant: pushed.sent not tested
AfterPush(r, sent) == IF sent THEN [run[r] EXCEPT !.pc = "mark"] ELSE AfterUrgent(run[r])

PushUrgent(r, sent) ==
    /\ RunAt(r, "pushing")
    /\ Given(IF sent THEN run[r].keys ELSE {})
    /\ Set(r, AfterPush(r, sent))
    /\ UNCHANGED <<preferences, checkedToday, ownerPhone, digestConsent, row, item, receipts,
                   call, undone>>

markPushed(r) ==
    /\ RunAt(r, "mark")
    /\ pushed' = pushed \cup run[r].keys
    /\ Set(r, AfterUrgent(run[r]))
    /\ UNCHANGED <<preferences, checkedToday, ownerPhone, digestConsent, row, item, itemsSeen,
                   call, counts>>

\* enqueueOwnerDigest: the consent is read, then the row upserted by its key.
EnqueueRead(r) ==
    /\ RunAt(r, "consent")
    /\ Set(r, [run[r] EXCEPT !.pc = "enqueue", !.permitted = run[r].phone \in digestConsent])
    /\ RunOnly

enqueueOwnerDigest(r) ==
    LET d == run[r].day
        status == IF run[r].permitted THEN run[r].phone ELSE "SUPPRESSED"
    IN  /\ RunAt(r, "enqueue")
        /\ row' = [row EXCEPT ![d] = IF @ = "NONE" THEN status ELSE @]
        /\ Set(r, [NoRun EXCEPT !.day = d, !.pc = IF push THEN "digest" ELSE "stamp"])
        /\ UNCHANGED <<preferences, checkedToday, ownerPhone, digestConsent, item, receipts,
                       call, counts>>

PushDigest(r, sent) ==
    /\ RunAt(r, "digest")
    /\ Given(IF sent /\ run[r].day = "today" THEN {Digest} ELSE {})
    /\ Set(r, [run[r] EXCEPT !.pc = "stamp", !.sent = sent])
    /\ UNCHANGED <<preferences, checkedToday, ownerPhone, digestConsent, row, item, receipts,
                   call, undone>>

\* The stamp is the time the run began.
markDigestChecked(r) ==
    /\ RunAt(r, "stamp")
    /\ checkedToday' = (run[r].day = "today")
    /\ Set(r, NoRun)
    /\ UNCHANGED <<preferences, ownerPhone, digestConsent, row, item, receipts, call, counts>>

\* A run that stops, and what it sent and never marked.
LeftUnmarked(r) ==
    IF RunAt(r, "mark") THEN run[r].keys
    ELSE IF run[r].sent /\ run[r].day = "today" THEN {Digest} ELSE {}

Stop(r) ==
    /\ run[r] # NoRun
    /\ \A x \in LeftUnmarked(r) : undone[x] < StopBound
    /\ undone' = [x \in Reminders |->
                     IF x \in LeftUnmarked(r) THEN undone[x] + 1 ELSE undone[x]]
    /\ Set(r, NoRun)
    /\ UNCHANGED <<preferences, checkedToday, ownerPhone, digestConsent, row, item, receipts,
                   call, given>>

\* processOne, up to the moment it finds the number's consent or not.
SentUnchecked(d) == TRUE                       \* mutant: consent at enqueue is enough
Permitted(d) == row[d] \in digestConsent

processOne(d) ==
    /\ row[d] \in Phones
    /\ row' = [row EXCEPT ![d] = IF Permitted(d) THEN "SENT" ELSE "SUPPRESSED"]
    /\ UNCHANGED <<preferences, checkedToday, ownerPhone, digestConsent, item, receipts,
                   run, call, counts>>

-----------------------------------------------------------------------------
(* The owner.                                                              *)

OwnerOnly == UNCHANGED <<checkedToday, row, run, counts>>
CallAt(c, pc) == call[c].pc = pc
SetCall(c, fields) == call' = [call EXCEPT ![c] = fields]

\* updatePreferences, the digest's part: what it reads ...
SettingsRead(c, enable) ==
    /\ call[c] = NoCall
    /\ SetCall(c, [pc |-> "read", enable |-> enable, current |-> digestPhone, phone |-> ownerPhone])
    /\ OwnerOnly /\ UNCHANGED <<preferences, ownerPhone, digestConsent, item, receipts>>

\* ... the row it writes ...
RevokesOnlyWhenOff(s) == ~s.enable /\ s.current # NoPhone    \* mutant: a changed number keeps its consent
Revokes(s) == s.current # NoPhone /\ (s.enable => s.current # s.phone)

SettingsWrite(c) ==
    /\ CallAt(c, "read")
    /\ digestPhone' = IF call[c].enable THEN call[c].phone ELSE NoPhone
    /\ SetCall(c, IF Revokes(call[c]) THEN [call[c] EXCEPT !.pc = "revoke"]
                  ELSE IF call[c].enable THEN [call[c] EXCEPT !.pc = "grant"] ELSE NoCall)
    /\ OwnerOnly /\ UNCHANGED <<push, ownerPhone, digestConsent, item, receipts>>

\* ... and the consents, in statements of their own.
revokePhoneConsent(c) ==
    /\ CallAt(c, "revoke")
    /\ digestConsent' = digestConsent \ {call[c].current}
    /\ SetCall(c, IF call[c].enable THEN [call[c] EXCEPT !.pc = "grant"] ELSE NoCall)
    /\ OwnerOnly /\ UNCHANGED <<preferences, ownerPhone, item, receipts>>

grantPhoneConsent(c) ==
    /\ CallAt(c, "grant")
    /\ digestConsent' = digestConsent \cup {call[c].phone}
    /\ SetCall(c, NoCall)
    /\ OwnerOnly /\ UNCHANGED <<preferences, ownerPhone, item, receipts>>

SettingsStop(c) ==
    /\ CallsStop /\ call[c] # NoCall
    /\ SetCall(c, NoCall)
    /\ OwnerOnly /\ UNCHANGED <<preferences, ownerPhone, digestConsent, item, receipts>>

\* The owner's number (updateContacts), and what is seen.
ChangePhone(p) ==
    /\ ownerPhone' = p
    /\ OwnerOnly /\ UNCHANGED <<preferences, digestConsent, item, receipts, call>>

markSeen(i) ==
    /\ item[i] \in Listable
    /\ itemsSeen' = itemsSeen \cup {i}
    /\ OwnerOnly /\ UNCHANGED <<preferences, ownerPhone, digestConsent, item, pushed, call>>

\* An issue or a proof is urgent from the time it is made until it is dealt with.
\* A request is less so once the owner has read it, is again at twelve hours or
\* when its customer answers, and may come back after it was out, as old as before.
Made(i) == item[i] = "none" /\ \A j \in Older(i, Items) : item[j] # "none"

ItemMoves(i, to) ==
    /\ item[i] # to
    /\ \/ Made(i) /\ to = "urgent"
       \/ item[i] = "urgent" /\ to = "out"
       \/ item[i] # "none" /\ KindOf[i] = "request"
    /\ item' = [item EXCEPT ![i] = to]
    /\ OwnerOnly /\ UNCHANGED <<preferences, ownerPhone, digestConsent, receipts, call>>

-----------------------------------------------------------------------------
(* Midnight.  A run is over before a second one.                           *)
Midnight ==
    /\ \A r \in Runs : run[r].day = "today"
    /\ run' = [r \in Runs |-> IF run[r] = NoRun THEN NoRun ELSE [run[r] EXCEPT !.day = "earlier"]]
    /\ checkedToday' = FALSE
    /\ row' = [today |-> "NONE", earlier |-> row["today"]]
    /\ given' = [given EXCEPT ![Digest] = 0] /\ undone' = [undone EXCEPT ![Digest] = 0]
    /\ UNCHANGED <<preferences, ownerPhone, digestConsent, item, receipts, call>>

Proceed(r) ==
    \/ \E routine \in BOOLEAN : Look(r, routine)
    \/ unpushed(r)
    \/ \E sent \in BOOLEAN : PushUrgent(r, sent) \/ PushDigest(r, sent)
    \/ markPushed(r) \/ EnqueueRead(r) \/ enqueueOwnerDigest(r) \/ markDigestChecked(r)

SettingsStep(c) ==
    \/ \E enable \in BOOLEAN : SettingsRead(c, enable)
    \/ SettingsWrite(c) \/ revokePhoneConsent(c) \/ grantPhoneConsent(c) \/ SettingsStop(c)

DigestNext ==
    \/ \E r \in Runs :
           \/ \E inHours, inWindow \in BOOLEAN : RunRead(r, inHours, inWindow)
           \/ Proceed(r) \/ Stop(r)
    \/ \E d \in Days : processOne(d)
    \/ \E c \in Calls : SettingsStep(c)
    \/ \E p \in Phones : ChangePhone(p)
    \/ \E i \in Items : markSeen(i) \/ \E to \in Listable \cup {"out"} : ItemMoves(i, to)
    \/ Midnight

DigestSpec == DigestInit /\ [][DigestNext]_digestVars

\* The cron comes round in the hours of each window again and again, a run goes
\* on, a device takes a push now and then, days pass, and stops come to an end.
\* A run takes RunTake of the businesses in no order, so it is sure to come to
\* this one only where that is all of them.
AllTaken == Businesses <= RunTake
StopsEnd == <>[][~\E r \in Runs : Stop(r)]_digestVars
DigestFairness ==
    /\ WF_digestVars(Midnight)
    /\ \A r \in Runs :
           /\ SF_digestVars(AllTaken /\ \E inWindow \in BOOLEAN : RunRead(r, TRUE, inWindow))
           /\ SF_digestVars(AllTaken /\ \E inHours \in BOOLEAN : RunRead(r, inHours, TRUE))
           /\ WF_digestVars(Proceed(r)) /\ SF_digestVars(PushUrgent(r, TRUE))
    /\ StopsEnd
DigestFairSpec == DigestSpec /\ DigestFairness

-----------------------------------------------------------------------------
\* docs/RAILWAY_REMINDERS.md: the stamp "prevent[s] duplicate daily digests", and
\* pushedAt repeated pushes.  With one run at a time a device takes each reminder
\* once, and once more for each run that stopped between the push and its mark.
RemindedOnce == \A x \in Reminders : given[x] <= 1 + undone[x]

\* A digest goes out only while the owner wants it, to the number chosen for it,
\* although preferences and consent are separate writes, runs act on preferences
\* read earlier, and rows wait.  For one settings call at a time that is not
\* stopped; while it is under way either answer will do.
SentToChosenNumber ==
    [][\A d \in Days : row[d] \in Phones /\ row' = [row EXCEPT ![d] = "SENT"] =>
           \/ row[d] = digestPhone
           \/ \E c \in Calls : call[c] # NoCall]_digestVars

\* docs/RAILWAY_REMINDERS.md: disabling the digest "revokes the owner-digest
\* consent record".  True unless a settings call stops between its two writes.
DisablingRevokes == (\A c \in Calls : call[c] = NoCall) /\ ~on => digestConsent = {}

\* What a run that comes to this business finds: not an item past the caps, which
\* waits until older ones are dealt with.
Wanted(x) ==
    IF x = Digest THEN on /\ \E i \in Items : item[i] \in Listable
    ELSE push /\ x \in Alerts \ itemsSeen
Out(x) == IF x = Digest THEN row["today"] # "NONE" ELSE given[x] > 0

\* Whatever stays wanted goes out: an urgent item that the caps leave in is pushed
\* in the hours for it, also when it had to wait for older ones, and a day's digest
\* gets its row, although runs stop half way and start again.  For a service with
\* no more businesses than a run takes.
EveryReminderGoesOut == AllTaken => \A x \in Reminders : Wanted(x) ~> (Out(x) \/ ~Wanted(x))
=============================================================================
