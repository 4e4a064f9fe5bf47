------------------------------ MODULE Sessions ------------------------------
(***************************************************************************)
(* The sessions of one account, an owner's (AuthService) or a customer's   *)
(* (CustomerAuthService): codes that are sent, tried and claimed, sessions *)
(* opened by a code or a password, refreshed, logged out and ended by a    *)
(* password change or reset.                                               *)
(*                                                                         *)
(* An attempt and a claim are conditional updates, the refresh is a read   *)
(* and then a transaction whose first write is conditional; the session a  *)
(* code or a password earns is created in a call of its own.  The reads    *)
(* whose conditions a conditional update repeats are folded into it.       *)
(***************************************************************************)
EXTENDS Naturals, FiniteSets

CONSTANTS
    Rows,            \* session rows
    Challenges,      \* OTP challenge rows
    Handlers,        \* HTTP calls in flight
    Password,        \* what opens a session without a code
    MaxAttempts      \* 5 in the code

ASSUME NamesAssumption == Password \notin Challenges
ASSUME BoundsAssumption == MaxAttempts \in Nat \ {0}

VARIABLES
    session,         \* OwnerSession / CustomerAccountSession rows
    challenge,       \* OwnerOtpChallenge (LOGIN) / CustomerOtpChallenge rows
    op               \* the calls in flight

vars == <<session, challenge, op>>

\* root: the first session of the chain of refreshes; by: what opened that one.
Session == [state : {"none", "live", "expired", "revoked"}, root : Rows,
            by : Challenges \cup {Password}]
Challenge == [state : {"none", "open", "expired", "verified"}, attempts : 0 .. MaxAttempts]

Idle == [pc |-> "idle"]
Op == {Idle}
      \cup [pc : {"code"}, code : Challenges]
      \cup [pc : {"open"}, by : Challenges \cup {Password}]
      \cup [pc : {"rotate"}, row : Rows]

TypeOK ==
    /\ session \in [Rows -> Session]
    /\ challenge \in [Challenges -> Challenge]
    /\ op \in [Handlers -> Op]

Init ==
    /\ session = [s \in Rows |-> [state |-> "none", root |-> s, by |-> Password]]
    /\ challenge = [c \in Challenges |-> [state |-> "none", attempts |-> 0]]
    /\ op = [h \in Handlers |-> Idle]

Exists(s) == session[s].state # "none"
Unrevoked(s) == session[s].state \in {"live", "expired"}     \* revokedAt: null

Begin(h, call) == op[h] = Idle /\ op' = [op EXCEPT ![h] = call]
Go(h, call) == op' = [op EXCEPT ![h] = call]

-----------------------------------------------------------------------------
(* Codes: start(Whatsapp) and verify(Whatsapp)                             *)

Open(c) == challenge[c].state = "open"

\* A new code expires those still open.
start(c) ==
    /\ challenge[c].state = "none"
    /\ challenge' = [d \in Challenges |->
           IF d = c THEN [state |-> "open", attempts |-> 0]
           ELSE [challenge[d] EXCEPT !.state = IF Open(d) THEN "expired" ELSE @]]
    /\ UNCHANGED <<session, op>>

AttemptAnyway(c) == Open(c)                    \* mutant: attempts not compared
Attemptable(c) == Open(c) /\ challenge[c].attempts < MaxAttempts

VerifyAttempt(h, c) ==
    /\ Attemptable(c)
    /\ challenge' = [challenge EXCEPT ![c].attempts = @ + 1]
    /\ Begin(h, [pc |-> "code", code |-> c])
    /\ UNCHANGED session

\* The provider approved the code.
ClaimAnyway(c) == TRUE                         \* mutant: verifiedAt not looked at again
Claimable(c) == Open(c)

VerifyClaim(h) ==
    /\ op[h].pc = "code"
    /\ Claimable(op[h].code)
    /\ challenge' = [challenge EXCEPT ![op[h].code].state = "verified"]
    /\ Go(h, [pc |-> "open", by |-> op[h].code])
    /\ UNCHANGED session

\* The password matched the hash that was read.
login(h) ==
    /\ Begin(h, [pc |-> "open", by |-> Password])
    /\ UNCHANGED <<session, challenge>>

createSession(h, s) ==
    /\ op[h].pc = "open"
    /\ ~Exists(s)
    /\ session' = [session EXCEPT ![s] = [state |-> "live", root |-> s, by |-> op[h].by]]
    /\ Go(h, Idle)
    /\ UNCHANGED challenge

-----------------------------------------------------------------------------
(* Refresh, logout, password change and reset                              *)

RotateRead(h, s) ==
    /\ session[s].state = "live"
    /\ Begin(h, [pc |-> "rotate", row |-> s])
    /\ UNCHANGED <<session, challenge>>

RefreshAnyway(s) == TRUE                       \* mutant: the count not compared
Refreshable(s) == Unrevoked(s)

KeptBeside(row) == row                         \* mutant: the old row stays as it is
Replaced(row) == [row EXCEPT !.state = "revoked"]

RotateWrite(h, t) ==
    LET s == op[h].row
    IN  /\ op[h].pc = "rotate"
        /\ Refreshable(s) /\ ~Exists(t)
        /\ session' = [session EXCEPT ![s] = Replaced(@),
                           ![t] = [state |-> "live", root |-> session[s].root, by |-> session[s].by]]
        /\ Go(h, Idle)
        /\ UNCHANGED challenge

Revoke(S) == session' = [s \in Rows |->
    IF s \in S /\ Unrevoked(s) THEN [session[s] EXCEPT !.state = "revoked"] ELSE session[s]]

\* The guard's read of the session may be old by now.
logout(s) == Exists(s) /\ Revoke({s}) /\ UNCHANGED <<challenge, op>>
changePassword(s) == Exists(s) /\ Revoke(Rows \ {s}) /\ UNCHANGED <<challenge, op>>
resetPassword == Revoke(Rows) /\ UNCHANGED <<challenge, op>>

-----------------------------------------------------------------------------
(* Time, and calls that fail or stop                                       *)

SessionExpires(s) ==
    /\ session[s].state = "live"
    /\ session' = [session EXCEPT ![s].state = "expired"]
    /\ UNCHANGED <<challenge, op>>

CodeExpires(c) ==
    /\ Open(c)
    /\ challenge' = [challenge EXCEPT ![c].state = "expired"]
    /\ UNCHANGED <<session, op>>

\* A wrong code, a count of zero, no active business, or the process stops.
Stop(h) ==
    /\ op[h] # Idle
    /\ Go(h, Idle)
    /\ UNCHANGED <<session, challenge>>

Call(h) ==
    \/ \E c \in Challenges : VerifyAttempt(h, c)
    \/ VerifyClaim(h)
    \/ login(h)
    \/ \E s \in Rows : createSession(h, s) \/ RotateRead(h, s) \/ RotateWrite(h, s)
    \/ Stop(h)

Next ==
    \/ \E h \in Handlers : Call(h)
    \/ \E c \in Challenges : start(c) \/ CodeExpires(c)
    \/ \E s \in Rows : logout(s) \/ changePassword(s) \/ SessionExpires(s)
    \/ resetPassword

Spec == Init /\ [][Next]_vars

-----------------------------------------------------------------------------
\* README.md, "rotating opaque cookie sessions": however many calls refresh one
\* session at once, a login has at most one session that is not revoked.
OneSessionPerLogin ==
    \A s, t \in Rows : Unrevoked(s) /\ Unrevoked(t) /\ session[s].root = session[t].root => s = t

\* A code opens one session, however many calls try it at once.
CodeOpensOnce ==
    \A s, t \in Rows : /\ Exists(s) /\ Exists(t)
                       /\ session[s].by = session[t].by /\ session[s].by # Password
                       => session[s].root = session[t].root

\* What a logout, a password change or a reset ended stays ended: a refresh that
\* read the session before does not bring its login back.
Ended(r) == Exists(r) /\ \A s \in Rows : session[s].root = r => ~Unrevoked(s)
EndedStays == [][\A r \in Rows : Ended(r) => Ended(r)']_vars
=============================================================================
