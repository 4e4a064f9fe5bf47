--------------------------- MODULE SessionsProofs ---------------------------
(***************************************************************************)
(* Proofs about Sessions for any rows, codes, calls and number of          *)
(* attempts.  Every row's chain begins at its root (Rooted); a code that   *)
(* was claimed is owed to one call or has opened its session, never both   *)
(* (ClaimHeld, Earned), so it opens one.  Most steps only revoke or expire *)
(* rows (Weaker) and are proved together.                                  *)
(***************************************************************************)
EXTENDS Sessions, TLAPS

\* A call about to create the session of a code.
Owed(h) == op[h].pc = "open" /\ op[h].by # Password
Spent(c) == challenge[c].state = "verified"

Rooted == \A s \in Rows : Exists(s) =>
    LET r == session[s].root
    IN  Exists(r) /\ session[r].root = r /\ session[r].by = session[s].by
ClaimHeld == \A h \in Handlers : Owed(h) =>
    /\ Spent(op[h].by)
    /\ \A g \in Handlers : Owed(g) /\ op[g].by = op[h].by => g = h
    /\ \A s \in Rows : Exists(s) => session[s].by # op[h].by
Earned == \A s \in Rows : Exists(s) /\ session[s].by # Password => Spent(session[s].by)

SessionInv == TypeOK /\ Rooted /\ ClaimHeld /\ Earned /\ OneSessionPerLogin /\ CodeOpensOnce

LEMMA InitSessions == Init => SessionInv
<1> SUFFICES ASSUME Init PROVE SessionInv
    OBVIOUS
<1>1. \A s \in Rows : [state |-> "none", root |-> s, by |-> Password] \in Session
    BY DEF Session
<1>2. [state |-> "none", attempts |-> 0] \in Challenge
    BY BoundsAssumption DEF Challenge
<1>3. TypeOK
    BY <1>1, <1>2 DEF Init, TypeOK, Op
<1>4. \A s \in Rows : ~Exists(s) /\ ~Unrevoked(s)
    BY DEF Init, Exists, Unrevoked
<1>5. \A h \in Handlers : op[h].pc = "idle"
    BY DEF Init, Idle
<1> QED BY <1>3, <1>4, <1>5
       DEF SessionInv, Rooted, ClaimHeld, Earned, OneSessionPerLogin, CodeOpensOnce, Owed

\* What a call in flight has kept.
LEMMA CallTypes ==
    ASSUME TypeOK, NEW h \in Handlers
    PROVE  /\ op[h].pc = "code" => op[h].code \in Challenges
           /\ op[h].pc = "open" => op[h].by \in Challenges \cup {Password}
           /\ op[h].pc = "rotate" => op[h].row \in Rows
BY DEF TypeOK, Op, Idle

LEMMA CallSet ==
    ASSUME TypeOK, NEW h \in Handlers, NEW call \in Op, Go(h, call)
    PROVE  /\ op' \in [Handlers -> Op] /\ op'[h] = call
           /\ \A g \in Handlers : g # h => op'[g] = op[g]
BY DEF TypeOK, Go

\* Steps that open nothing: rows keep who they are and are never unrevoked, a
\* code that was spent stays so, and no call is owed a session by a code anew.
Weaker ==
    /\ TypeOK'
    /\ \A s \in Rows : /\ Exists(s)' <=> Exists(s)
                       /\ session'[s].root = session[s].root /\ session'[s].by = session[s].by
                       /\ Unrevoked(s)' => Unrevoked(s)
    /\ \A c \in Challenges : Spent(c) => Spent(c)'
    /\ \A h \in Handlers : Owed(h)' => op'[h] = op[h]

LEMMA WeakerKeeps == SessionInv /\ Weaker => SessionInv'
<1> SUFFICES ASSUME SessionInv, Weaker PROVE SessionInv'
    OBVIOUS
<1>1. \A s \in Rows : session[s].root \in Rows /\ session[s].by \in Challenges \cup {Password}
    BY DEF SessionInv, TypeOK, Session
<1>2. Rooted'
    BY <1>1 DEF SessionInv, Weaker, Rooted
<1>3. Earned'
    BY <1>1 DEF SessionInv, Weaker, Earned
<1>4. OneSessionPerLogin'
    BY DEF SessionInv, Weaker, OneSessionPerLogin
<1>5. CodeOpensOnce'
    BY DEF SessionInv, Weaker, CodeOpensOnce
<1>6. ClaimHeld'
  <2> SUFFICES ASSUME NEW h \in Handlers, Owed(h)'
               PROVE  /\ Spent(op[h].by)'
                      /\ \A g \in Handlers : Owed(g)' /\ op'[g].by = op'[h].by => g = h
                      /\ \A s \in Rows : Exists(s)' => session'[s].by # op'[h].by
      BY DEF ClaimHeld
  <2>1. op'[h] = op[h] /\ Owed(h) /\ op[h].by \in Challenges
      BY CallTypes DEF Weaker, Owed, SessionInv
  <2>2. \A g \in Handlers : Owed(g)' => op'[g] = op[g] /\ Owed(g)
      BY DEF Weaker, Owed
  <2> QED BY <2>1, <2>2 DEF SessionInv, ClaimHeld, Weaker
<1> QED BY <1>2, <1>3, <1>4, <1>5, <1>6 DEF SessionInv, Weaker

\* The steps on codes, and the starts and ends of calls, as such steps.
LEMMA SameSessions ==
    ASSUME SessionInv, TypeOK', session' = session,
           \A c \in Challenges : Spent(c) => Spent(c)',
           \A h \in Handlers : Owed(h)' => op'[h] = op[h]
    PROVE  SessionInv'
<1>1. Weaker
    BY DEF Weaker, Exists, Unrevoked
<1> QED BY <1>1, WeakerKeeps

LEMMA CallsMove ==
    ASSUME SessionInv, NEW h \in Handlers, NEW call \in Op, Go(h, call),
           UNCHANGED session, challenge' \in [Challenges -> Challenge],
           \A c \in Challenges : Spent(c) => Spent(c)',
           call.pc = "open" => call.by = Password
    PROVE  SessionInv'
<1>1. /\ op' \in [Handlers -> Op] /\ op'[h] = call
      /\ \A g \in Handlers : g # h => op'[g] = op[g]
    BY CallSet DEF SessionInv
<1>2. TypeOK'
    BY <1>1 DEF TypeOK, SessionInv
<1>3. \A g \in Handlers : Owed(g)' => op'[g] = op[g]
    BY <1>1 DEF Owed
<1> QED BY <1>2, <1>3, SameSessions

\* Codes move on: their type, and a spent code stays spent.
LEMMA CodesMove ==
    ASSUME SessionInv, UNCHANGED <<session, op>>, challenge' \in [Challenges -> Challenge],
           \A c \in Challenges : Spent(c) => Spent(c)'
    PROVE  SessionInv'
<1>1. TypeOK' /\ \A h \in Handlers : Owed(h)' => op'[h] = op[h]
    BY DEF TypeOK, SessionInv, Owed
<1> QED BY <1>1, SameSessions

\* Revoking rows, whichever they are.
LEMMA RevokeKeeps ==
    ASSUME SessionInv, NEW S, Revoke(S), UNCHANGED <<challenge, op>>
    PROVE  /\ SessionInv'
           /\ \A s \in Rows : /\ Exists(s)' <=> Exists(s)
                              /\ session'[s].root = session[s].root
                              /\ Unrevoked(s)' => Unrevoked(s)
<1>1. session \in [Rows -> Session]
    BY DEF SessionInv, TypeOK
<1>2. ASSUME NEW s \in Rows
      PROVE  /\ session'[s] \in Session /\ (Exists(s)' <=> Exists(s))
             /\ session'[s].root = session[s].root /\ session'[s].by = session[s].by
             /\ Unrevoked(s)' => Unrevoked(s)
  <2> DEFINE ended == [session[s] EXCEPT !.state = "revoked"]
  <2>1. session[s] \in Session
      BY <1>1
  <2>2. /\ ended \in Session /\ ended.state = "revoked"
        /\ ended.root = session[s].root /\ ended.by = session[s].by
      BY <2>1 DEF Session
  <2>3. session'[s] = IF s \in S /\ Unrevoked(s) THEN ended ELSE session[s]
      BY DEF Revoke
  <2> HIDE DEF ended
  <2> QED BY <2>1, <2>2, <2>3 DEF Exists, Unrevoked
<1>3. session' \in [Rows -> Session]
  <2>1. session' = [s \in Rows |-> session'[s]]
      BY DEF Revoke
  <2> QED BY <1>2, <2>1
<1>4. TypeOK'
    BY <1>3 DEF TypeOK, SessionInv
<1>5. Weaker
    BY <1>2, <1>4 DEF Weaker, Spent, Owed
<1> QED BY <1>2, <1>5, WeakerKeeps

-----------------------------------------------------------------------------
LEMMA ClaimKeeps ==
    ASSUME SessionInv, NEW h \in Handlers, VerifyClaim(h)
    PROVE  SessionInv'
<1>1. PICK c \in Challenges : c = op[h].code /\ c # Password
    BY CallTypes, NamesAssumption DEF VerifyClaim, SessionInv
<1> DEFINE call == [pc |-> "open", by |-> c]
<1>2. call \in Op /\ call.pc = "open" /\ call.by = c /\ Go(h, call)
    BY <1>1 DEF Op, VerifyClaim
<1>3. /\ challenge' = [challenge EXCEPT ![c].state = "verified"] /\ session' = session
      /\ challenge[c].state # "verified"
    BY <1>1 DEF VerifyClaim, Claimable, Open
<1> HIDE DEF call
<1>4. /\ op' \in [Handlers -> Op] /\ op'[h] = call
      /\ \A g \in Handlers : g # h => op'[g] = op[g]
    BY <1>2, CallSet DEF SessionInv
<1>5. challenge' \in [Challenges -> Challenge]
    BY <1>1, <1>3 DEF SessionInv, TypeOK, Challenge
<1>6. Spent(c)' /\ ~Spent(c) /\ \A d \in Challenges : Spent(d) => Spent(d)'
  <2>1. challenge \in [Challenges -> Challenge]
      BY DEF SessionInv, TypeOK
  <2>2. challenge'[c].state = "verified" /\ \A d \in Challenges : d # c => challenge'[d] = challenge[d]
      BY <1>1, <1>3, <2>1 DEF Challenge
  <2> QED BY <1>3, <2>2 DEF Spent
<1>7. TypeOK'
    BY <1>3, <1>4, <1>5 DEF TypeOK, SessionInv
<1>8. Rooted' /\ OneSessionPerLogin' /\ CodeOpensOnce'
    BY <1>3 DEF SessionInv, Rooted, OneSessionPerLogin, CodeOpensOnce, Exists, Unrevoked
<1>9. Earned'
  <2>1. \A s \in Rows : session[s].by \in Challenges \cup {Password}
      BY DEF SessionInv, TypeOK, Session
  <2> QED BY <1>3, <1>6, <2>1 DEF SessionInv, Earned, Exists
<1>10. ClaimHeld'
  <2> SUFFICES ASSUME NEW x \in Handlers, Owed(x)'
               PROVE  /\ Spent(op[x].by)'
                      /\ \A g \in Handlers : Owed(g)' /\ op'[g].by = op'[x].by => g = x
                      /\ \A s \in Rows : Exists(s)' => session'[s].by # op'[x].by
      BY DEF ClaimHeld
  <2>1. \A g \in Handlers : g # h /\ Owed(g)' =>
            Owed(g) /\ op'[g] = op[g] /\ op[g].by # c /\ op[g].by \in Challenges
    <3> SUFFICES ASSUME NEW g \in Handlers, g # h, Owed(g)'
                 PROVE  Owed(g) /\ op'[g] = op[g] /\ op[g].by # c /\ op[g].by \in Challenges
        OBVIOUS
    <3>1. Owed(g) /\ op'[g] = op[g]
        BY <1>4 DEF Owed
    <3>2. op[g].by \in Challenges
        BY <3>1, CallTypes DEF Owed, SessionInv
    <3>3. Spent(op[g].by)
        BY <3>1 DEF SessionInv, ClaimHeld
    <3> QED BY <1>6, <3>1, <3>2, <3>3
  <2>2. \A s \in Rows : Exists(s) => session[s].by # c
      BY <1>1, <1>6 DEF SessionInv, Earned
  <2>3. op'[h].by = c
      BY <1>2, <1>4
  <2>4. CASE x = h
      BY <1>3, <1>6, <2>1, <2>2, <2>3, <2>4 DEF Exists, Spent
  <2>5. CASE x # h
      BY <1>3, <1>6, <2>1, <2>3, <2>5 DEF SessionInv, ClaimHeld, Exists, Spent
  <2> QED BY <2>4, <2>5
<1> QED BY <1>7, <1>8, <1>9, <1>10 DEF SessionInv

LEMMA CreateKeeps ==
    ASSUME SessionInv, NEW h \in Handlers, NEW s \in Rows, createSession(h, s)
    PROVE  /\ SessionInv'
           /\ \A t \in Rows : Exists(t) => session'[t] = session[t] /\ session[t].root # s
           /\ session'[s].root = s /\ \A t \in Rows : t # s => session'[t] = session[t]
<1> DEFINE new == [state |-> "live", root |-> s, by |-> op[h].by]
<1>1. op[h].pc = "open" /\ op[h].by \in Challenges \cup {Password} /\ ~Exists(s)
    BY CallTypes DEF createSession, SessionInv
<1>2. new \in Session /\ new.state = "live" /\ new.root = s /\ new.by = op[h].by
    BY <1>1 DEF Session
<1>3. /\ session' = [session EXCEPT ![s] = new] /\ session \in [Rows -> Session]
      /\ challenge' = challenge /\ Go(h, Idle) /\ Idle \in Op
    BY DEF createSession, SessionInv, TypeOK, Op
<1> HIDE DEF new
<1>4. /\ session' \in [Rows -> Session] /\ session'[s] = new
      /\ \A t \in Rows : t # s => session'[t] = session[t]
    BY <1>2, <1>3
<1>5. /\ op' \in [Handlers -> Op] /\ op'[h] = Idle
      /\ \A g \in Handlers : g # h => op'[g] = op[g]
    BY <1>3, CallSet DEF SessionInv
<1>6. \A t \in Rows : Exists(t) => session[t].root # s
    BY <1>1 DEF SessionInv, Rooted
<1>7. TypeOK'
    BY <1>3, <1>4, <1>5 DEF TypeOK, SessionInv
<1>8. Rooted'
  <2>1. \A t \in Rows : t # s /\ Exists(t)' => Exists(t) /\ session[t].root \in Rows /\ session[t].root # s
      BY <1>3, <1>4, <1>6 DEF Exists, Session
  <2>2. \A t \in Rows : Exists(t) => /\ Exists(session[t].root)
                                     /\ session[session[t].root].root = session[t].root
                                     /\ session[session[t].root].by = session[t].by
      BY DEF SessionInv, Rooted
  <2>3. ASSUME NEW t \in Rows, t # s, Exists(t)', NEW r, r = session'[t].root
        PROVE  Exists(r)' /\ session'[r].root = r /\ session'[r].by = session'[t].by
      BY <1>4, <2>1, <2>2, <2>3 DEF Exists
  <2>4. Exists(s)' /\ session'[s].root = s
      BY <1>2, <1>4 DEF Exists
  <2> QED BY <2>3, <2>4 DEF Rooted
<1>9. OneSessionPerLogin'
  <2>1. \A t \in Rows : Unrevoked(t) => Exists(t)
      BY DEF Unrevoked, Exists
  <2> QED BY <1>2, <1>4, <1>6, <2>1 DEF SessionInv, OneSessionPerLogin, Unrevoked
<1>10. Earned' /\ CodeOpensOnce' /\ ClaimHeld'
  <2>1. op[h].by # Password => /\ Spent(op[h].by)
                               /\ \A t \in Rows : Exists(t) => session[t].by # op[h].by
                               /\ \A g \in Handlers : Owed(g) /\ op[g].by = op[h].by => g = h
      BY <1>1 DEF SessionInv, ClaimHeld, Owed
  <2>2. Earned'
      BY <1>2, <1>3, <1>4, <2>1 DEF SessionInv, Earned, Exists, Spent
  <2>3. CodeOpensOnce'
      BY <1>2, <1>4, <2>1 DEF SessionInv, CodeOpensOnce, Exists
  <2>4. \A g \in Handlers : Owed(g)' => g # h /\ Owed(g) /\ op'[g] = op[g]
      BY <1>5 DEF Owed, Idle
  <2>5. \A g \in Handlers : Owed(g)' => op[g].by # op[h].by
      BY <1>1, <2>1, <2>4 DEF Owed
  <2>6. ClaimHeld'
      BY <1>2, <1>3, <1>4, <2>4, <2>5 DEF SessionInv, ClaimHeld, Exists, Spent
  <2> QED BY <2>2, <2>3, <2>6
<1>11. SessionInv'
    BY <1>7, <1>8, <1>9, <1>10 DEF SessionInv
<1>12. \A t \in Rows : Exists(t) => session'[t] = session[t]
    BY <1>1, <1>4
<1> QED BY <1>2, <1>4, <1>6, <1>11, <1>12

\* A refresh hands the chain on: the new row takes the place of the old one.
LEMMA RotateKeeps ==
    ASSUME SessionInv, NEW h \in Handlers, NEW t \in Rows, RotateWrite(h, t)
    PROVE  /\ SessionInv'
           /\ \E s \in Rows : /\ Unrevoked(s) /\ session'[t].root = session[s].root
                              /\ \A r \in Rows : r # t => session'[r].root = session[r].root
                              /\ \A r \in Rows : r # t => (Exists(r)' <=> Exists(r))
                              /\ \A r \in Rows : r # t /\ Unrevoked(r)' => Unrevoked(r)
                              /\ ~Exists(t) /\ Exists(t)'
<1> DEFINE s == op[h].row
           old == [session[s] EXCEPT !.state = "revoked"]
           new == [state |-> "live", root |-> session[s].root, by |-> session[s].by]
<1>1. s \in Rows /\ Unrevoked(s) /\ ~Exists(t) /\ s # t
    BY CallTypes DEF RotateWrite, Refreshable, SessionInv, Exists, Unrevoked
<1>2. /\ session \in [Rows -> Session] /\ session[s] \in Session
      /\ challenge' = challenge /\ Go(h, Idle) /\ Idle \in Op
    BY <1>1 DEF RotateWrite, SessionInv, TypeOK, Op
<1>3. /\ new \in Session /\ new.state = "live" /\ new.root = session[s].root /\ new.by = session[s].by
      /\ old \in Session /\ old.state = "revoked"
      /\ old.root = session[s].root /\ old.by = session[s].by
    BY <1>2 DEF Session
<1>4. session' = [[session EXCEPT ![s] = old] EXCEPT ![t] = new]
    BY <1>1, <1>2 DEF RotateWrite, Replaced
<1> HIDE DEF s, old, new
<1>5. /\ session' \in [Rows -> Session] /\ session'[t] = new /\ session'[s] = old
      /\ \A r \in Rows : r # s /\ r # t => session'[r] = session[r]
    BY <1>1, <1>2, <1>3, <1>4
<1>6. /\ op' \in [Handlers -> Op] /\ op'[h] = Idle
      /\ \A g \in Handlers : g # h => op'[g] = op[g]
    BY <1>2, CallSet DEF SessionInv
<1>7. TypeOK'
    BY <1>2, <1>5, <1>6 DEF TypeOK, SessionInv
<1>8. /\ \A r \in Rows : r # t => /\ session'[r].root = session[r].root
                                  /\ session'[r].by = session[r].by
                                  /\ Exists(r)' <=> Exists(r)
      /\ \A r \in Rows : r # t /\ Unrevoked(r)' => Unrevoked(r) /\ r # s
      /\ Exists(t)' /\ Exists(s)
    BY <1>1, <1>3, <1>5 DEF Exists, Unrevoked
<1>9. session[s].root \in Rows /\ session[s].root # t
    BY <1>1, <1>2, <1>8 DEF SessionInv, Rooted, Session
<1>10. Rooted'
  <2>1. \A r \in Rows : Exists(r) => session[r].root # t
      BY <1>1 DEF SessionInv, Rooted
  <2>2. \A r \in Rows : session[r].root \in Rows
      BY <1>2 DEF Session
  <2>3. \A r \in Rows : Exists(r) => /\ Exists(session[r].root)
                                     /\ session[session[r].root].root = session[r].root
                                     /\ session[session[r].root].by = session[r].by
      BY DEF SessionInv, Rooted
  <2>4. ASSUME NEW r \in Rows, r # t, Exists(r)', NEW p, p = session'[r].root
        PROVE  Exists(p)' /\ session'[p].root = p /\ session'[p].by = session'[r].by
      BY <1>8, <2>1, <2>2, <2>3, <2>4
  <2>5. ASSUME NEW p, p = session'[t].root
        PROVE  Exists(p)' /\ session'[p].root = p /\ session'[p].by = session'[t].by
    <3>1. p = session[s].root /\ p \in Rows /\ p # t /\ session'[t].by = session[s].by
        BY <1>3, <1>5, <1>9, <2>5
    <3>2. Exists(p) /\ session[p].root = p /\ session[p].by = session[s].by
        BY <1>1, <1>8, <2>3, <3>1
    <3> QED BY <1>8, <3>1, <3>2
  <2> QED BY <2>4, <2>5 DEF Rooted
<1>11. OneSessionPerLogin'
  <2>1. ASSUME NEW r \in Rows, r # t, Unrevoked(r)' PROVE session'[r].root # session'[t].root
      BY <1>1, <1>3, <1>5, <1>8, <2>1 DEF SessionInv, OneSessionPerLogin
  <2> QED BY <1>8, <2>1 DEF SessionInv, OneSessionPerLogin
<1>12. Earned' /\ CodeOpensOnce'
    BY <1>1, <1>2, <1>3, <1>5, <1>8 DEF SessionInv, Earned, CodeOpensOnce, Spent
<1>13. ClaimHeld'
  <2> SUFFICES ASSUME NEW x \in Handlers, Owed(x)'
               PROVE  /\ Spent(op[x].by)'
                      /\ \A g \in Handlers : Owed(g)' /\ op'[g].by = op'[x].by => g = x
                      /\ \A r \in Rows : Exists(r)' => session'[r].by # op'[x].by
      BY DEF ClaimHeld
  <2>1. \A g \in Handlers : Owed(g)' => Owed(g) /\ op'[g] = op[g]
      BY <1>6 DEF Owed, Idle
  <2>2. /\ Spent(op[x].by) /\ \A g \in Handlers : Owed(g) /\ op[g].by = op[x].by => g = x
        /\ \A r \in Rows : Exists(r) => session[r].by # op[x].by
      BY <2>1 DEF SessionInv, ClaimHeld
  <2>3. session'[t].by = session[s].by /\ session[s].by # op[x].by
      BY <1>1, <1>3, <1>5, <1>8, <2>2
  <2> QED BY <1>2, <1>8, <2>1, <2>2, <2>3 DEF Spent
<1>14. Unrevoked(s) /\ session'[t].root = session[s].root
    BY <1>1, <1>3, <1>5
<1> QED BY <1>1, <1>7, <1>8, <1>10, <1>11, <1>12, <1>13, <1>14 DEF SessionInv

-----------------------------------------------------------------------------
\* One step at a time: the invariant is kept, and no ended chain gets an
\* unrevoked row.
LEMMA SessionsKept ==
    ASSUME SessionInv, [Next]_vars
    PROVE  SessionInv' /\ \A r \in Rows : Ended(r) => Ended(r)'
<1>1. ASSUME NEW c \in Challenges, start(c) PROVE SessionInv'
  <2>1. challenge' \in [Challenges -> Challenge]
    <3>1. \A d \in Challenges : challenge[d] \in Challenge
        BY DEF SessionInv, TypeOK
    <3>2. \A d \in Challenges : challenge'[d] \in Challenge
        BY <1>1, <3>1, BoundsAssumption DEF start, Challenge
    <3>3. challenge' = [d \in Challenges |-> challenge'[d]]
        BY <1>1 DEF start
    <3> QED BY <3>2, <3>3
  <2>2. \A d \in Challenges : Spent(d) => Spent(d)'
    <3> SUFFICES ASSUME NEW d \in Challenges, Spent(d) PROVE challenge'[d].state = "verified"
        BY DEF Spent
    <3>1. d # c /\ challenge[d].state = "verified" /\ challenge[d] \in Challenge
        BY <1>1 DEF start, Spent, SessionInv, TypeOK
    <3>2. challenge'[d] = [challenge[d] EXCEPT !.state = "verified"]
        BY <1>1, <3>1 DEF start, Open
    <3> QED BY <3>1, <3>2 DEF Challenge
  <2> QED BY <1>1, <2>1, <2>2, CodesMove DEF start
<1>2. ASSUME NEW h \in Handlers, NEW c \in Challenges, VerifyAttempt(h, c) PROVE SessionInv'
  <2>1. /\ challenge \in [Challenges -> Challenge] /\ challenge[c] \in Challenge
        /\ challenge[c].state = "open" /\ challenge[c].attempts < MaxAttempts
      BY <1>2 DEF VerifyAttempt, Attemptable, Open, SessionInv, TypeOK
  <2> DEFINE tried == [challenge[c] EXCEPT !.attempts = challenge[c].attempts + 1]
  <2>2. tried \in Challenge /\ tried.state = "open"
      BY <2>1, BoundsAssumption DEF Challenge
  <2>3. challenge' = [challenge EXCEPT ![c] = tried]
      BY <1>2, <2>1 DEF VerifyAttempt
  <2> HIDE DEF tried
  <2>4. challenge' \in [Challenges -> Challenge] /\ \A d \in Challenges : Spent(d) => Spent(d)'
      BY <2>1, <2>2, <2>3 DEF Spent
  <2> DEFINE call == [pc |-> "code", code |-> c]
  <2>5. call \in Op /\ call.pc = "code" /\ Go(h, call) /\ UNCHANGED session
      BY <1>2 DEF Op, VerifyAttempt, Begin, Go
  <2> HIDE DEF call
  <2>6. call.pc = "open" => call.by = Password
      BY <2>5
  <2> QED BY <2>4, <2>5, <2>6, CallsMove
<1>3. ASSUME NEW h \in Handlers, VerifyClaim(h) PROVE SessionInv'
    BY <1>3, ClaimKeeps
<1>4. ASSUME NEW h \in Handlers, login(h) PROVE SessionInv'
  <2> DEFINE call == [pc |-> "open", by |-> Password]
  <2>1. call \in Op /\ call.by = Password /\ Go(h, call) /\ UNCHANGED <<session, challenge>>
      BY <1>4 DEF Op, login, Begin, Go
  <2> HIDE DEF call
  <2>2. challenge' \in [Challenges -> Challenge] /\ \A d \in Challenges : Spent(d) => Spent(d)'
      BY <2>1 DEF SessionInv, TypeOK, Spent
  <2> QED BY <2>1, <2>2, CallsMove
<1>5. ASSUME NEW h \in Handlers, NEW s \in Rows, RotateRead(h, s) PROVE SessionInv'
  <2> DEFINE call == [pc |-> "rotate", row |-> s]
  <2>1. call \in Op /\ call.pc = "rotate" /\ Go(h, call) /\ UNCHANGED <<session, challenge>>
      BY <1>5 DEF Op, RotateRead, Begin, Go
  <2> HIDE DEF call
  <2>2. challenge' \in [Challenges -> Challenge] /\ \A d \in Challenges : Spent(d) => Spent(d)'
      BY <2>1 DEF SessionInv, TypeOK, Spent
  <2>3. call.pc = "open" => call.by = Password
      BY <2>1
  <2> QED BY <2>1, <2>2, <2>3, CallsMove
<1>6. ASSUME NEW h \in Handlers, Stop(h) PROVE SessionInv'
  <2>1. Idle \in Op /\ Idle.pc = "idle" /\ Go(h, Idle) /\ UNCHANGED <<session, challenge>>
      BY <1>6 DEF Op, Idle, Stop
  <2>2. challenge' \in [Challenges -> Challenge] /\ \A d \in Challenges : Spent(d) => Spent(d)'
      BY <2>1 DEF SessionInv, TypeOK, Spent
  <2>3. Idle.pc = "open" => Idle.by = Password
      BY <2>1
  <2> QED BY <2>1, <2>2, <2>3, CallsMove
<1>7. ASSUME NEW c \in Challenges, CodeExpires(c) PROVE SessionInv'
  <2>1. challenge \in [Challenges -> Challenge] /\ challenge[c].state = "open"
      BY <1>7 DEF CodeExpires, Open, SessionInv, TypeOK
  <2>2. challenge' \in [Challenges -> Challenge]
      BY <1>7, <2>1 DEF CodeExpires, Challenge
  <2>3. \A d \in Challenges : Spent(d) => Spent(d)'
    <3>1. \A d \in Challenges : d # c => challenge'[d] = challenge[d]
        BY <1>7, <2>1 DEF CodeExpires
    <3> QED BY <2>1, <3>1 DEF Spent
  <2> QED BY <1>7, <2>2, <2>3, CodesMove DEF CodeExpires
\* Where no row is made, an ended chain stays ended.
<1>8. ASSUME \A s \in Rows : /\ Exists(s)' <=> Exists(s)
                             /\ session'[s].root = session[s].root
                             /\ Unrevoked(s)' => Unrevoked(s)
      PROVE  \A r \in Rows : Ended(r) => Ended(r)'
    BY <1>8 DEF Ended
<1>9. ASSUME UNCHANGED session PROVE \A r \in Rows : Ended(r) => Ended(r)'
    BY <1>9 DEF Ended, Exists, Unrevoked
<1>10. ASSUME NEW s \in Rows, logout(s) \/ changePassword(s)
       PROVE  SessionInv' /\ \A r \in Rows : Ended(r) => Ended(r)'
  <2>1. PICK S : Revoke(S) /\ UNCHANGED <<challenge, op>>
      BY <1>10 DEF logout, changePassword
  <2>2. /\ SessionInv'
        /\ \A t \in Rows : /\ Exists(t)' <=> Exists(t)
                           /\ session'[t].root = session[t].root
                           /\ Unrevoked(t)' => Unrevoked(t)
      BY <2>1, RevokeKeeps
  <2> QED BY <1>8, <2>2
<1>11. ASSUME resetPassword PROVE SessionInv' /\ \A r \in Rows : Ended(r) => Ended(r)'
  <2>1. Revoke(Rows) /\ UNCHANGED <<challenge, op>>
      BY <1>11 DEF resetPassword
  <2>2. /\ SessionInv'
        /\ \A t \in Rows : /\ Exists(t)' <=> Exists(t)
                           /\ session'[t].root = session[t].root
                           /\ Unrevoked(t)' => Unrevoked(t)
      BY <2>1, RevokeKeeps
  <2> QED BY <1>8, <2>2
<1>12. ASSUME NEW s \in Rows, SessionExpires(s)
       PROVE  SessionInv' /\ \A r \in Rows : Ended(r) => Ended(r)'
  <2>1. session \in [Rows -> Session] /\ session[s] \in Session /\ session[s].state = "live"
      BY <1>12 DEF SessionExpires, SessionInv, TypeOK
  <2> DEFINE old == [session[s] EXCEPT !.state = "expired"]
  <2>2. /\ old \in Session /\ old.state = "expired"
        /\ old.root = session[s].root /\ old.by = session[s].by
      BY <2>1 DEF Session
  <2>3. session' = [session EXCEPT ![s] = old]
      BY <1>12, <2>1 DEF SessionExpires
  <2> HIDE DEF old
  <2>4. /\ session' \in [Rows -> Session] /\ session'[s] = old
        /\ \A t \in Rows : t # s => session'[t] = session[t]
      BY <2>1, <2>2, <2>3
  <2>5. \A t \in Rows : /\ Exists(t)' <=> Exists(t)
                        /\ session'[t].root = session[t].root /\ session'[t].by = session[t].by
                        /\ Unrevoked(t)' => Unrevoked(t)
      BY <2>1, <2>2, <2>4 DEF Exists, Unrevoked
  <2>6. TypeOK' /\ UNCHANGED <<challenge, op>>
      BY <1>12, <2>4 DEF SessionExpires, TypeOK, SessionInv
  <2>7. Weaker
      BY <2>5, <2>6 DEF Weaker, Spent, Owed
  <2> QED BY <1>8, <2>5, <2>7, WeakerKeeps
<1>13. ASSUME NEW h \in Handlers, NEW s \in Rows, createSession(h, s)
       PROVE  SessionInv' /\ \A r \in Rows : Ended(r) => Ended(r)'
  <2>1. /\ SessionInv'
        /\ \A t \in Rows : Exists(t) => session'[t] = session[t] /\ session[t].root # s
        /\ session'[s].root = s /\ \A t \in Rows : t # s => session'[t] = session[t]
      BY <1>13, CreateKeeps
  <2>2. ~Exists(s)
      BY <1>13 DEF createSession
  <2> QED BY <2>1, <2>2 DEF Ended, Exists, Unrevoked
<1>14. ASSUME NEW h \in Handlers, NEW t \in Rows, RotateWrite(h, t)
       PROVE  SessionInv' /\ \A r \in Rows : Ended(r) => Ended(r)'
  <2>1. SessionInv'
      BY <1>14, RotateKeeps
  <2>2. PICK s \in Rows : /\ Unrevoked(s) /\ session'[t].root = session[s].root
                          /\ \A r \in Rows : r # t => session'[r].root = session[r].root
                          /\ \A r \in Rows : r # t => (Exists(r)' <=> Exists(r))
                          /\ \A r \in Rows : r # t /\ Unrevoked(r)' => Unrevoked(r)
                          /\ ~Exists(t) /\ Exists(t)'
      BY <1>14, RotateKeeps
  <2> QED BY <2>1, <2>2 DEF Ended
<1>15. CASE UNCHANGED vars
  <2>1. TypeOK' /\ UNCHANGED <<session, challenge, op>>
      BY <1>15 DEF vars, SessionInv, TypeOK
  <2>2. SessionInv'
      BY <2>1, SameSessions DEF Spent
  <2> QED BY <1>9, <2>1, <2>2
<1>16. ASSUME NEW h \in Handlers, Call(h) PROVE SessionInv' /\ \A r \in Rows : Ended(r) => Ended(r)'
  <2>1. CASE UNCHANGED session
    <3>1. \A r \in Rows : Ended(r) => Ended(r)'
        BY <1>9, <2>1
    <3> QED BY <1>2, <1>3, <1>4, <1>5, <1>6, <1>13, <1>14, <1>16, <3>1 DEF Call
  <2>2. CASE ~UNCHANGED session
      BY <1>13, <1>14, <1>16, <2>2
         DEF Call, VerifyAttempt, VerifyClaim, login, RotateRead, Stop
  <2> QED BY <2>1, <2>2
<1>17. ASSUME NEW c \in Challenges, start(c) \/ CodeExpires(c)
       PROVE  SessionInv' /\ \A r \in Rows : Ended(r) => Ended(r)'
  <2>1. UNCHANGED session
      BY <1>17 DEF start, CodeExpires
  <2> QED BY <1>1, <1>7, <1>9, <1>17, <2>1
<1> QED BY <1>10, <1>11, <1>12, <1>15, <1>16, <1>17 DEF Next

LEMMA SessionsAlways == Spec => []SessionInv
<1>1. SessionInv /\ [Next]_vars => SessionInv'
    BY SessionsKept
<1> QED BY <1>1, InitSessions, PTL DEF Spec

\* Every variable keeps its type: no code is tried more than MaxAttempts times.
THEOREM types == Spec => []TypeOK
BY SessionsAlways, PTL DEF SessionInv

\* However many calls refresh a session at once, one row of its chain at most is
\* not revoked: the conditional first write lets one of them through.
THEOREM oneSessionPerLogin == Spec => []OneSessionPerLogin
BY SessionsAlways, PTL DEF SessionInv

\* However many calls claim a code, it opens one session.
THEOREM codeOpensOnce == Spec => []CodeOpensOnce
BY SessionsAlways, PTL DEF SessionInv

\* What was logged out, or ended by a password change or reset, stays ended.
THEOREM endedStays == Spec => EndedStays
<1>1. SessionInv /\ [Next]_vars => \A r \in Rows : Ended(r) => Ended(r)'
    BY SessionsKept
<1>2. (\A r \in Rows : Ended(r) => Ended(r)') => [\A r \in Rows : Ended(r) => Ended(r)']_vars
    OBVIOUS
<1> QED BY <1>1, <1>2, SessionsAlways, PTL DEF Spec, EndedStays
=============================================================================
