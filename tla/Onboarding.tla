----------------------------- MODULE Onboarding ------------------------------
(***************************************************************************)
(* How a shop comes to exist: the codes that prove an e-mail address and a *)
(* WhatsApp number (AuthService), the founding invitations that admit a    *)
(* founder (FoundingCircleService, PlatformAdminService), and register,    *)
(* whose transaction spends one proof of each kind and redeems the         *)
(* invitation, or does nothing.                                            *)
(*                                                                         *)
(* A code is the challenge row with its secret; the two tables are one     *)
(* here, told apart by the address the code was sent to.  Drafts kept on   *)
(* an invitation, its delivery (MessageOutbox) and the session a new owner *)
(* gets are left out, and grants do not run out.                           *)
(***************************************************************************)
EXTENDS Naturals, FiniteSets

CONSTANTS
    Emails, Phones,
    Codes, Invitations,          \* ids of the rows (a bound)
    Senders, Callers, Admins,    \* handlers: code requests, the others, the platform's
    MaxAttempts,                 \* 5: codes tried against one challenge
    AccessRequired,              \* FOUNDING_ACCESS_REQUIRED
    None

Addresses == Emails \cup Phones
Handlers == Senders \cup Callers \cup Admins

ASSUME AddressesAssumption == Emails \cap Phones = {} /\ None \notin Addresses
ASSUME InvitationsAssumption == None \notin Invitations /\ AccessRequired \in BOOLEAN
ASSUME HandlersAssumption ==
    /\ Senders \cap Callers = {} /\ Senders \cap Admins = {} /\ Callers \cap Admins = {}
ASSUME AttemptsAssumption == MaxAttempts \in Nat \ {0}

VARIABLES
    code,         \* OnboardingEmailChallenge and OwnerOtpChallenge rows
    invitation,   \* OnboardingInvitation rows
    granted,      \* invitations whose code was shown: somebody holds the grant
    account,      \* User rows by e-mail, with what they were founded on
    op            \* the calls in flight

vars == <<code, invitation, granted, account, op>>

\* live: expiresAt is in the future; used: consumedAt, or a userId
Code == [to : Addresses \cup {None}, live : BOOLEAN, verified : BOOLEAN,
         used : BOOLEAN, tries : Nat]
Unsent == [to |-> None, live |-> FALSE, verified |-> FALSE, used |-> FALSE, tries |-> 0]

InvitationStatus == {"ISSUED", "REDEEMED", "EXPIRED", "REVOKED"}
Unissued == [status |-> "NONE", phone |-> None, live |-> FALSE, uses |-> 0]
Invitation == [status : InvitationStatus, phone : Phones, live : BOOLEAN, uses : Nat]

Account == [phone : Phones, mail : Codes, text : Codes, invitation : Invitations \cup {None}]
NoAccount == [phone |-> None]

Idle == [pc |-> "idle"]
Op == {Idle}
      \cup [pc : {"supersede", "create"}, to : Addresses]
      \cup [pc : {"deliver", "attempt", "compare"}, c : Codes]
      \cup [pc : {"register"}, email : Emails, phone : Phones]
      \cup [pc : {"expire"}, i : Invitations]
      \cup [pc : {"revoke"}, i : Invitations, replace : BOOLEAN]
      \cup [pc : {"recheck", "invite"}, phone : Phones]

TypeOK ==
    /\ code \in [Codes -> Code]
    /\ invitation \in [Invitations -> Invitation \cup {Unissued}]
    /\ granted \subseteq Invitations
    /\ account \in [Emails -> Account \cup {NoAccount}]
    /\ op \in [Handlers -> Op]
    /\ \A h \in Handlers :
           op[h].pc \in {"expire", "revoke"} => invitation[op[h].i] # Unissued

Init ==
    /\ code = [c \in Codes |-> Unsent]
    /\ invitation = [i \in Invitations |-> Unissued]
    /\ granted = {}
    /\ account = [e \in Emails |-> NoAccount]
    /\ op = [h \in Handlers |-> Idle]

Begin(h, o) == op[h] = Idle /\ op' = [op EXCEPT ![h] = o]
Continue(h, o) == op' = [op EXCEPT ![h] = o]
Finish(h) == op' = [op EXCEPT ![h] = Idle]

PhoneTaken(p) == \E e \in Emails : account[e].phone = p

-----------------------------------------------------------------------------
\* startOnboardingEmail, startOnboardingWhatsapp: an address that has no account;
\* its earlier codes are ended, then the new row is made.
StartRead(h, to) ==
    /\ \E c \in Codes : code[c] = Unsent            \* a row is left (bound)
    /\ IF to \in Emails THEN account[to] = NoAccount ELSE ~PhoneTaken(to)
    /\ Begin(h, [pc |-> "supersede", to |-> to])
    /\ UNCHANGED <<code, invitation, granted, account>>

\* A new e-mail code ends a verified one too; a new WhatsApp code does not.
OutdatedUnverified(c, to) ==                 \* mutant: the verified e-mail proof kept
    code[c].to = to /\ ~code[c].used /\ ~code[c].verified

Outdated(c, to) ==
    /\ code[c].to = to /\ ~code[c].used
    /\ to \in Phones => ~code[c].verified

Supersede(h) ==
    /\ op[h].pc = "supersede"
    /\ code' = [c \in Codes |->
                   IF Outdated(c, op[h].to) THEN [code[c] EXCEPT !.live = FALSE] ELSE code[c]]
    /\ Continue(h, [pc |-> "create", to |-> op[h].to])
    /\ UNCHANGED <<invitation, granted, account>>

Create(h, c) ==
    /\ op[h].pc = "create"
    /\ code[c] = Unsent
    /\ code' = [code EXCEPT ![c] = [Unsent EXCEPT !.to = op[h].to, !.live = TRUE]]
    /\ IF op[h].to \in Emails THEN Continue(h, [pc |-> "deliver", c |-> c]) ELSE Finish(h)
    /\ UNCHANGED <<invitation, granted, account>>

\* the mail could not be sent: the code is ended, unless it was verified meanwhile
DeliveryFailed(h) ==
    LET c == op[h].c
    IN  /\ op[h].pc = "deliver"
        /\ code' = [code EXCEPT ![c].live = @ /\ (code[c].verified \/ code[c].used)]
        /\ Finish(h)
        /\ UNCHANGED <<invitation, granted, account>>

\* 10 minutes for a code, 30 for a proof
Lapse(c) ==
    /\ code[c].live /\ ~code[c].used
    /\ code' = [code EXCEPT ![c].live = FALSE]
    /\ UNCHANGED <<invitation, granted, account, op>>

-----------------------------------------------------------------------------
\* verifyOnboardingEmail, verifyOnboardingWhatsapp: read, count the attempt,
\* compare, then verify; both writes repeat what was read.
Open(c) == code[c].live /\ ~code[c].verified /\ ~code[c].used

VerifyRead(h, c) ==
    /\ Open(c) /\ code[c].tries < MaxAttempts
    /\ Begin(h, [pc |-> "attempt", c |-> c])
    /\ UNCHANGED <<code, invitation, granted, account>>

AttemptAnyway(c) == Open(c)                  \* mutant: the attempts not compared again
Attemptable(c) == Open(c) /\ code[c].tries < MaxAttempts

VerifyAttempt(h) ==
    LET c == op[h].c
    IN  /\ op[h].pc = "attempt"
        /\ Attemptable(c)
        /\ code' = [code EXCEPT ![c].tries = @ + 1]
        /\ Continue(h, [pc |-> "compare", c |-> c])
        /\ UNCHANGED <<invitation, granted, account>>

VerifiableLate(c) == ~code[c].verified /\ ~code[c].used   \* mutant: expiry not compared again
Verifiable(c) == Open(c)

\* the right code: the proof has a term of its own
VerifyWrite(h) ==
    LET c == op[h].c
    IN  /\ op[h].pc = "compare"
        /\ Verifiable(c)
        /\ code' = [code EXCEPT ![c].verified = TRUE, ![c].live = TRUE]
        /\ Finish(h)
        /\ UNCHANGED <<invitation, granted, account>>

-----------------------------------------------------------------------------
\* validateAccess: a grant for a usable invitation; one that has run out is
\* marked, by id.
Usable(i) == invitation[i].status = "ISSUED" /\ invitation[i].live /\ invitation[i].uses < 1

validateAccess(i) ==
    /\ Usable(i)
    /\ granted' = granted \cup {i}
    /\ UNCHANGED <<code, invitation, account, op>>

ExpireRead(h, i) ==
    /\ invitation[i].status = "ISSUED" /\ ~invitation[i].live
    /\ Begin(h, [pc |-> "expire", i |-> i])
    /\ UNCHANGED <<code, invitation, granted, account>>

ExpireWrite(h) ==
    /\ op[h].pc = "expire"
    /\ invitation' = [invitation EXCEPT ![op[h].i].status = "EXPIRED"]
    /\ Finish(h)
    /\ UNCHANGED <<code, granted, account>>

InvitationLapses(i) ==
    /\ invitation[i].status = "ISSUED" /\ invitation[i].live
    /\ invitation' = [invitation EXCEPT ![i].live = FALSE]
    /\ UNCHANGED <<code, granted, account, op>>

-----------------------------------------------------------------------------
\* register: e-mail and phone free, read before the transaction; in it each proof
\* and the invitation is claimed by a conditional write, and e-mail and phone are
\* unique, so all of it happens or none.
RegisterRead(h, e, p) ==
    /\ account[e] = NoAccount /\ ~PhoneTaken(p)
    /\ Begin(h, [pc |-> "register", email |-> e, phone |-> p])
    /\ UNCHANGED <<code, invitation, granted, account>>

Grants == IF AccessRequired THEN granted ELSE granted \cup {None}

ProofUnverified(c, to) ==                    \* mutant: verifiedAt not looked at
    code[c].to = to /\ code[c].live /\ ~code[c].used

Proof(c, to) ==
    code[c].to = to /\ code[c].verified /\ code[c].live /\ ~code[c].used

Redeemable(i, p) == i = None \/ (Usable(i) /\ invitation[i].phone = p)

redeemInTransaction(i) ==
    invitation' = IF i = None THEN invitation
                  ELSE [invitation EXCEPT ![i].status = "REDEEMED", ![i].uses = @ + 1]

register(h, mail, text, i) ==
    LET e == op[h].email  p == op[h].phone
    IN  /\ op[h].pc = "register"
        /\ account[e] = NoAccount /\ ~PhoneTaken(p)
        /\ Proof(mail, e) /\ Proof(text, p)
        /\ i \in Grants /\ Redeemable(i, p)
        /\ code' = [code EXCEPT ![mail].used = TRUE, ![text].used = TRUE]
        /\ account' = [account EXCEPT ![e] =
                          [phone |-> p, mail |-> mail, text |-> text, invitation |-> i]]
        /\ redeemInTransaction(i)
        /\ Finish(h)
        /\ UNCHANGED granted

-----------------------------------------------------------------------------
\* PlatformAdminService.  createInvitation looks for an active invitation of the
\* number, then creates; revokeInvitation reads the status, then writes by id;
\* replaceInvitation revokes what is still issued, then creates.
AnyInvitable(p) == TRUE                      \* mutant: the active invitation not looked for
Invitable(p) ==
    ~ \E i \in Invitations : invitation[i].status = "ISSUED" /\ invitation[i].live
                             /\ invitation[i].phone = p

InviteRead(h, p) ==
    /\ \E i \in Invitations : invitation[i] = Unissued      \* a row is left (bound)
    /\ Invitable(p)
    /\ Begin(h, [pc |-> "invite", phone |-> p])
    /\ UNCHANGED <<code, invitation, granted, account>>

InviteReplaced(h) ==
    /\ op[h].pc = "recheck"
    /\ Invitable(op[h].phone)
    /\ Continue(h, [pc |-> "invite", phone |-> op[h].phone])
    /\ UNCHANGED <<code, invitation, granted, account>>

InviteWrite(h, i) ==
    /\ op[h].pc = "invite"
    /\ invitation[i] = Unissued
    /\ invitation' = [invitation EXCEPT ![i] =
                         [status |-> "ISSUED", phone |-> op[h].phone, live |-> TRUE, uses |-> 0]]
    /\ Finish(h)
    /\ UNCHANGED <<code, granted, account>>

RevokeRead(h, i, replace) ==
    /\ invitation[i].status = "ISSUED"
    /\ Begin(h, [pc |-> "revoke", i |-> i, replace |-> replace])
    /\ UNCHANGED <<code, invitation, granted, account>>

RevokeWrite(h) ==
    LET i == op[h].i
    IN  /\ op[h].pc = "revoke"
        /\ invitation' = [invitation EXCEPT ![i].status = "REVOKED"]
        /\ IF op[h].replace
           THEN Continue(h, [pc |-> "recheck", phone |-> invitation[i].phone])
           ELSE Finish(h)
        /\ UNCHANGED <<code, granted, account>>

ReplaceableMissing(i) ==                     \* mutant: a missing row not refused
    invitation[i].status \notin {"ISSUED", "REDEEMED"}
Replaceable(i) == invitation[i].status \in {"EXPIRED", "REVOKED"}

ReplaceEnded(h, i) ==
    /\ Replaceable(i)
    /\ Begin(h, [pc |-> "recheck", phone |-> invitation[i].phone])
    /\ UNCHANGED <<code, invitation, granted, account>>

-----------------------------------------------------------------------------
\* A call ends here: the mail was sent, the code was wrong, a condition no longer
\* holds, or the process stopped.  The two writes of an e-mail start are one
\* transaction, which a stop between them would undo.
Stop(h) ==
    /\ op[h] # Idle
    /\ ~(op[h].pc = "create" /\ op[h].to \in Emails)
    /\ Finish(h)
    /\ UNCHANGED <<code, invitation, granted, account>>

SenderStep(h) ==
    \/ \E to \in Addresses : StartRead(h, to)
    \/ Supersede(h) \/ DeliveryFailed(h)
    \/ \E c \in Codes : Create(h, c)

CallerStep(h) ==
    \/ \E c \in Codes : VerifyRead(h, c)
    \/ VerifyAttempt(h) \/ VerifyWrite(h)
    \/ \E i \in Invitations : ExpireRead(h, i)
    \/ ExpireWrite(h)
    \/ \E e \in Emails, p \in Phones : RegisterRead(h, e, p)
    \/ \E mail, text \in Codes, i \in Invitations \cup {None} : register(h, mail, text, i)

AdminStep(h) ==
    \/ \E p \in Phones : InviteRead(h, p)
    \/ InviteReplaced(h) \/ RevokeWrite(h)
    \/ \E i \in Invitations :
           \/ InviteWrite(h, i) \/ ReplaceEnded(h, i)
           \/ \E replace \in BOOLEAN : RevokeRead(h, i, replace)

Next ==
    \/ \E h \in Senders : SenderStep(h)
    \/ \E h \in Callers : CallerStep(h)
    \/ \E h \in Admins : AdminStep(h)
    \/ \E h \in Handlers : Stop(h)
    \/ \E c \in Codes : Lapse(c)
    \/ \E i \in Invitations : validateAccess(i) \/ InvitationLapses(i)

Spec == Init /\ [][Next]_vars

-----------------------------------------------------------------------------
Accounts == {e \in Emails : account[e] # NoAccount}

\* What a shop was founded on is its own: a verified code of its e-mail, one of
\* its number and, where an invitation is required, the one sent to that number;
\* each is spent, and no two shops share any of them.
FoundedOnProof ==
    /\ \A e \in Accounts :
           LET a == account[e]
           IN  /\ code[a.mail].to = e /\ code[a.mail].verified /\ code[a.mail].used
               /\ code[a.text].to = a.phone /\ code[a.text].verified /\ code[a.text].used
               /\ a.invitation = None => ~AccessRequired
               /\ a.invitation # None => /\ invitation[a.invitation].uses = 1
                                         /\ invitation[a.invitation].phone = a.phone
    /\ \A e, f \in Accounts :
           \/ account[e].phone = account[f].phone
           \/ account[e].invitation = account[f].invitation /\ account[e].invitation # None
           => e = f

\* A code is tried MaxAttempts times at most, by however many calls at once.
AttemptsBounded == \A c \in Codes : code[c].tries <= MaxAttempts

\* A code that ran out or was superseded is never good again, even when a call
\* that read it before then has the right code.
EndedStays == [][\A c \in Codes : code[c].to # None /\ ~code[c].live => ~code'[c].live]_vars

\* With one code request at a time, an e-mail address has one code that can still
\* be used.
OneLiveCode ==
    \A c, d \in Codes :
        /\ code[c].to \in Emails /\ code[c].to = code[d].to
        /\ code[c].live /\ ~code[c].used /\ code[d].live /\ ~code[d].used
        => c = d

\* What makes it inductive: between the two writes of a start no code is live.
CreateClear ==
    \A h \in Senders : op[h].pc = "create" /\ op[h].to \in Emails =>
        \A c \in Codes : code[c].to = op[h].to /\ code[c].live => code[c].used

\* With one administrator at a time, a number has one invitation it can still use.
OneActiveInvitation ==
    \A i, j \in Invitations :
        /\ invitation[i].status = "ISSUED" /\ invitation[i].live
        /\ invitation[j].status = "ISSUED" /\ invitation[j].live
        /\ invitation[i].phone = invitation[j].phone
        => i = j

\* What makes it inductive: what createInvitation looked for is still not there.
InviteClear == \A h \in Admins : op[h].pc = "invite" => Invitable(op[h].phone)
=============================================================================
