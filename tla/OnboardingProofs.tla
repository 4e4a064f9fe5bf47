-------------------------- MODULE OnboardingProofs ---------------------------
(***************************************************************************)
(* Proofs about Onboarding for any number of addresses, rows and handlers. *)
(* TypeOK is inductive.  The rest lean on two lemmas: no step takes back   *)
(* what a code's row says of a proof (CodeKept), nor what a redeemed       *)
(* invitation says of its number (UseKept).                                *)
(***************************************************************************)
EXTENDS Onboarding, TLAPS

\* A call keeps the shape of its fields from its read to its write.
LEMMA OpFields ==
    ASSUME TypeOK, NEW h \in Handlers
    PROVE  /\ op[h].pc \in {"supersede", "create"} => op[h].to \in Addresses
           /\ op[h].pc \in {"deliver", "attempt", "compare"} => op[h].c \in Codes
           /\ op[h].pc = "register" => op[h].email \in Emails /\ op[h].phone \in Phones
           /\ op[h].pc \in {"expire", "revoke"} => op[h].i \in Invitations
           /\ op[h].pc = "revoke" => op[h].replace \in BOOLEAN
           /\ op[h].pc \in {"recheck", "invite"} => op[h].phone \in Phones
<1>1. op[h] \in Op
    BY DEF TypeOK
<1> QED BY <1>1 DEF Op, Idle

\* What each kind of call looks like when it starts or goes on.
LEMMA OpShapes ==
    /\ Idle \in Op
    /\ \A to \in Addresses : [pc |-> "supersede", to |-> to] \in Op /\ [pc |-> "create", to |-> to] \in Op
    /\ \A c \in Codes : /\ [pc |-> "deliver", c |-> c] \in Op
                        /\ [pc |-> "attempt", c |-> c] \in Op
                        /\ [pc |-> "compare", c |-> c] \in Op
    /\ \A e \in Emails, p \in Phones : [pc |-> "register", email |-> e, phone |-> p] \in Op
    /\ \A i \in Invitations : [pc |-> "expire", i |-> i] \in Op
    /\ \A i \in Invitations, r \in BOOLEAN : [pc |-> "revoke", i |-> i, replace |-> r] \in Op
    /\ \A p \in Phones : [pc |-> "recheck", phone |-> p] \in Op /\ [pc |-> "invite", phone |-> p] \in Op
BY DEF Op

\* TypeOK without its last conjunct, and that conjunct.
Rows == /\ code \in [Codes -> Code]
        /\ invitation \in [Invitations -> Invitation \cup {Unissued}]
        /\ granted \subseteq Invitations
        /\ account \in [Emails -> Account \cup {NoAccount}]
OpsIssued == \A h \in Handlers :
                 op[h].pc \in {"expire", "revoke"} => invitation[op[h].i] # Unissued

LEMMA TypeParts == TypeOK <=> Rows /\ op \in [Handlers -> Op] /\ OpsIssued
BY DEF TypeOK, Rows, OpsIssued

\* A call that moves on moves alone.
LEMMA OpMoves ==
    ASSUME TypeOK, NEW h \in Handlers, NEW o \in Op, op' = [op EXCEPT ![h] = o],
           \A i \in Invitations : invitation[i] # Unissued => invitation'[i] # Unissued,
           o.pc \in {"expire", "revoke"} => invitation'[o.i] # Unissued
    PROVE  op' \in [Handlers -> Op] /\ OpsIssued'
<1>1. op \in [Handlers -> Op]
    BY DEF TypeOK
<1>2. op' \in [Handlers -> Op] /\ op'[h] = o /\ \A g \in Handlers : g # h => op'[g] = op[g]
    BY <1>1
<1>3. ASSUME NEW g \in Handlers, op'[g].pc \in {"expire", "revoke"} PROVE invitation'[op'[g].i] # Unissued
  <2>1. CASE g = h
      BY <1>2, <1>3, <2>1
  <2>2. CASE g # h
    <3>1. op'[g] = op[g]
        BY <1>2, <2>2
    <3>2. op[g].pc \in {"expire", "revoke"} /\ op[g].i \in Invitations
        BY <1>3, <3>1, OpFields
    <3>3. invitation[op[g].i] # Unissued
        BY <3>2 DEF TypeOK
    <3> QED BY <3>1, <3>2, <3>3
  <2> QED BY <2>1, <2>2
<1> QED BY <1>2, <1>3 DEF OpsIssued

LEMMA InitTypes == Init => TypeOK
<1> SUFFICES ASSUME Init PROVE TypeOK
    OBVIOUS
<1>1. Unsent \in Code /\ Idle \in Op
    BY OpShapes DEF Unsent, Code
<1>2. \A h \in Handlers : op[h].pc = "idle"
    BY DEF Init, Idle
<1> QED BY <1>1, <1>2 DEF Init, TypeOK

LEMMA TypesKept == TypeOK /\ [Next]_vars => TypeOK'
<1> SUFFICES ASSUME TypeOK, [Next]_vars PROVE TypeOK'
    OBVIOUS
<1>0. Rows /\ op \in [Handlers -> Op] /\ OpsIssued
    BY TypeParts
<1>1. CASE UNCHANGED vars
    BY <1>1 DEF vars, TypeOK
<1>2. ASSUME NEW h \in Senders, SenderStep(h) PROVE TypeOK'
  <2>0. h \in Handlers
      BY DEF Handlers
  <2>1. ASSUME NEW to \in Addresses, StartRead(h, to) PROVE TypeOK'
    <3>1. Rows' /\ UNCHANGED invitation
        BY <1>0, <2>1 DEF StartRead, Rows
    <3>2. op' = [op EXCEPT ![h] = [pc |-> "supersede", to |-> to]]
        BY <2>1 DEF StartRead, Begin
    <3>3. op' \in [Handlers -> Op] /\ OpsIssued'
        BY <2>0, <3>1, <3>2, OpMoves, OpShapes
    <3> QED BY <3>1, <3>3 DEF TypeOK, Rows, OpsIssued
  <2>2. ASSUME Supersede(h) PROVE TypeOK'
    <3>1. \A c \in Codes : code[c] \in Code /\ [code[c] EXCEPT !.live = FALSE] \in Code
        BY <1>0 DEF Rows, Code
    <3>2. Rows' /\ UNCHANGED invitation
        BY <1>0, <2>2, <3>1 DEF Supersede, Rows
    <3>3. op[h].to \in Addresses /\ op' = [op EXCEPT ![h] = [pc |-> "create", to |-> op[h].to]]
        BY <2>0, <2>2, OpFields DEF Supersede, Continue
    <3>4. op' \in [Handlers -> Op] /\ OpsIssued'
        BY <2>0, <3>2, <3>3, OpMoves, OpShapes
    <3> QED BY <3>2, <3>4 DEF TypeOK, Rows, OpsIssued
  <2>3. ASSUME DeliveryFailed(h) PROVE TypeOK'
    <3>1. op[h].c \in Codes /\ op' = [op EXCEPT ![h] = Idle]
        BY <2>0, <2>3, OpFields DEF DeliveryFailed, Finish
    <3>2. Rows' /\ UNCHANGED invitation
        BY <1>0, <2>3, <3>1 DEF DeliveryFailed, Rows, Code
    <3>3. op' \in [Handlers -> Op] /\ OpsIssued'
        BY <2>0, <3>1, <3>2, OpMoves, OpShapes DEF Idle
    <3> QED BY <3>2, <3>3 DEF TypeOK, Rows, OpsIssued
  <2>4. ASSUME NEW c \in Codes, Create(h, c) PROVE TypeOK'
    <3>1. op[h].to \in Addresses
        BY <2>0, <2>4, OpFields DEF Create
    <3> DEFINE new == [Unsent EXCEPT !.to = op[h].to, !.live = TRUE]
    <3>2. new \in Code
        BY <3>1 DEF Unsent, Code
    <3>3. code' = [code EXCEPT ![c] = new]
        BY <2>4 DEF Create
    <3> HIDE DEF new
    <3>4. Rows' /\ UNCHANGED invitation
        BY <1>0, <2>4, <3>2, <3>3 DEF Create, Rows
    <3> DEFINE o == IF op[h].to \in Emails THEN [pc |-> "deliver", c |-> c] ELSE Idle
    <3>5. o \in Op /\ o.pc \notin {"expire", "revoke"}
        BY OpShapes DEF Idle
    <3>6. op' = [op EXCEPT ![h] = o]
        BY <2>4 DEF Create, Continue, Finish
    <3> HIDE DEF o
    <3>7. op' \in [Handlers -> Op] /\ OpsIssued'
        BY <2>0, <3>4, <3>5, <3>6, OpMoves
    <3> QED BY <3>4, <3>7 DEF TypeOK, Rows, OpsIssued
  <2> QED BY <1>2, <2>1, <2>2, <2>3, <2>4 DEF SenderStep
<1>3. ASSUME NEW h \in Callers, CallerStep(h) PROVE TypeOK'
  <2>0. h \in Handlers
      BY DEF Handlers
  <2>1. ASSUME NEW c \in Codes, VerifyRead(h, c) PROVE TypeOK'
    <3>1. Rows' /\ UNCHANGED invitation
        BY <1>0, <2>1 DEF VerifyRead, Rows
    <3>2. op' = [op EXCEPT ![h] = [pc |-> "attempt", c |-> c]]
        BY <2>1 DEF VerifyRead, Begin
    <3>3. op' \in [Handlers -> Op] /\ OpsIssued'
        BY <2>0, <3>1, <3>2, OpMoves, OpShapes
    <3> QED BY <3>1, <3>3 DEF TypeOK, Rows, OpsIssued
  <2>2. ASSUME VerifyAttempt(h) PROVE TypeOK'
    <3>1. op[h].c \in Codes /\ op' = [op EXCEPT ![h] = [pc |-> "compare", c |-> op[h].c]]
        BY <2>0, <2>2, OpFields DEF VerifyAttempt, Continue
    <3>2. Rows' /\ UNCHANGED invitation
        BY <1>0, <2>2, <3>1 DEF VerifyAttempt, Rows, Code
    <3>3. op' \in [Handlers -> Op] /\ OpsIssued'
        BY <2>0, <3>1, <3>2, OpMoves, OpShapes
    <3> QED BY <3>2, <3>3 DEF TypeOK, Rows, OpsIssued
  <2>3. ASSUME VerifyWrite(h) PROVE TypeOK'
    <3>1. op[h].c \in Codes /\ op' = [op EXCEPT ![h] = Idle]
        BY <2>0, <2>3, OpFields DEF VerifyWrite, Finish
    <3>2. Rows' /\ UNCHANGED invitation
        BY <1>0, <2>3, <3>1 DEF VerifyWrite, Rows, Code
    <3>3. op' \in [Handlers -> Op] /\ OpsIssued'
        BY <2>0, <3>1, <3>2, OpMoves, OpShapes DEF Idle
    <3> QED BY <3>2, <3>3 DEF TypeOK, Rows, OpsIssued
  <2>4. ASSUME NEW i \in Invitations, ExpireRead(h, i) PROVE TypeOK'
    <3>1. Rows' /\ UNCHANGED invitation /\ invitation[i] # Unissued
        BY <1>0, <2>4 DEF ExpireRead, Rows, Unissued
    <3>2. op' = [op EXCEPT ![h] = [pc |-> "expire", i |-> i]]
        BY <2>4 DEF ExpireRead, Begin
    <3>3. op' \in [Handlers -> Op] /\ OpsIssued'
        BY <2>0, <3>1, <3>2, OpMoves, OpShapes
    <3> QED BY <3>1, <3>3 DEF TypeOK, Rows, OpsIssued
  <2>5. ASSUME ExpireWrite(h) PROVE TypeOK'
    <3>1. op[h].i \in Invitations /\ invitation[op[h].i] # Unissued /\ op' = [op EXCEPT ![h] = Idle]
        BY <1>0, <2>0, <2>5, OpFields DEF ExpireWrite, Finish, OpsIssued
    <3>2. Rows' /\ \A i \in Invitations : invitation[i] # Unissued => invitation'[i] # Unissued
        BY <1>0, <2>5, <3>1 DEF ExpireWrite, Rows, Invitation, InvitationStatus, Unissued
    <3>3. op' \in [Handlers -> Op] /\ OpsIssued'
        BY <2>0, <3>1, <3>2, OpMoves, OpShapes DEF Idle
    <3> QED BY <3>2, <3>3 DEF TypeOK, Rows, OpsIssued
  <2>6. ASSUME NEW e \in Emails, NEW p \in Phones, RegisterRead(h, e, p) PROVE TypeOK'
    <3>1. Rows' /\ UNCHANGED invitation
        BY <1>0, <2>6 DEF RegisterRead, Rows
    <3>2. op' = [op EXCEPT ![h] = [pc |-> "register", email |-> e, phone |-> p]]
        BY <2>6 DEF RegisterRead, Begin
    <3>3. op' \in [Handlers -> Op] /\ OpsIssued'
        BY <2>0, <3>1, <3>2, OpMoves, OpShapes
    <3> QED BY <3>1, <3>3 DEF TypeOK, Rows, OpsIssued
  <2>7. ASSUME NEW mail \in Codes, NEW text \in Codes, NEW i \in Invitations \cup {None},
               register(h, mail, text, i)
        PROVE  TypeOK'
    <3>1. op[h].email \in Emails /\ op[h].phone \in Phones /\ op' = [op EXCEPT ![h] = Idle]
        BY <2>0, <2>7, OpFields DEF register, Finish
    <3>2. code' \in [Codes -> Code]
      <4> DEFINE half == [code EXCEPT ![mail].used = TRUE]
      <4>1. half \in [Codes -> Code]
          BY <1>0 DEF Rows, Code
      <4>2. code' = [half EXCEPT ![text].used = TRUE]
          BY <2>7 DEF register
      <4> HIDE DEF half
      <4> QED BY <4>1, <4>2 DEF Code
    <3>3. account' \in [Emails -> Account \cup {NoAccount}]
      <4> DEFINE new == [phone |-> op[h].phone, mail |-> mail, text |-> text, invitation |-> i]
      <4>1. new \in Account
          BY <3>1 DEF Account
      <4>2. account' = [account EXCEPT ![op[h].email] = new]
          BY <2>7 DEF register
      <4> HIDE DEF new
      <4> QED BY <1>0, <4>1, <4>2 DEF Rows
    <3>4. /\ invitation' \in [Invitations -> Invitation \cup {Unissued}]
          /\ \A j \in Invitations : invitation[j] # Unissued => invitation'[j] # Unissued
      <4>1. CASE i = None
          BY <1>0, <2>7, <4>1 DEF register, redeemInTransaction, Rows
      <4>2. CASE i # None
        <5>1. i \in Invitations /\ invitation[i].status = "ISSUED"
            BY <2>7, <4>2 DEF register, Redeemable, Usable
        <5>2. invitation[i] \in Invitation
            BY <1>0, <5>1 DEF Rows, Unissued
        <5>3. invitation' = [invitation EXCEPT ![i].status = "REDEEMED", ![i].uses = @ + 1]
            BY <2>7, <4>2 DEF register, redeemInTransaction
        <5> DEFINE new == [status |-> "REDEEMED", phone |-> invitation[i].phone,
                           live |-> invitation[i].live, uses |-> invitation[i].uses + 1]
        <5>4. new \in Invitation /\ new # Unissued
            BY <5>2 DEF Invitation, InvitationStatus, Unissued
        <5>5. invitation' = [invitation EXCEPT ![i] = new]
            BY <1>0, <5>1, <5>2, <5>3 DEF Rows, Invitation
        <5> HIDE DEF new
        <5> QED BY <1>0, <5>1, <5>4, <5>5 DEF Rows
      <4> QED BY <4>1, <4>2
    <3>5. Rows'
        BY <1>0, <2>7, <3>2, <3>3, <3>4 DEF register, Rows
    <3>6. op' \in [Handlers -> Op] /\ OpsIssued'
        BY <2>0, <3>1, <3>4, OpMoves, OpShapes DEF Idle
    <3> QED BY <3>5, <3>6 DEF TypeOK, Rows, OpsIssued
  <2> QED BY <1>3, <2>1, <2>2, <2>3, <2>4, <2>5, <2>6, <2>7 DEF CallerStep
<1>4. ASSUME NEW h \in Admins, AdminStep(h) PROVE TypeOK'
  <2>0. h \in Handlers
      BY DEF Handlers
  <2>1. ASSUME NEW p \in Phones, InviteRead(h, p) PROVE TypeOK'
    <3>1. Rows' /\ UNCHANGED invitation
        BY <1>0, <2>1 DEF InviteRead, Rows
    <3>2. op' = [op EXCEPT ![h] = [pc |-> "invite", phone |-> p]]
        BY <2>1 DEF InviteRead, Begin
    <3>3. op' \in [Handlers -> Op] /\ OpsIssued'
        BY <2>0, <3>1, <3>2, OpMoves, OpShapes
    <3> QED BY <3>1, <3>3 DEF TypeOK, Rows, OpsIssued
  <2>2. ASSUME InviteReplaced(h) PROVE TypeOK'
    <3>1. Rows' /\ UNCHANGED invitation
        BY <1>0, <2>2 DEF InviteReplaced, Rows
    <3>2. op[h].phone \in Phones /\ op' = [op EXCEPT ![h] = [pc |-> "invite", phone |-> op[h].phone]]
        BY <2>0, <2>2, OpFields DEF InviteReplaced, Continue
    <3>3. op' \in [Handlers -> Op] /\ OpsIssued'
        BY <2>0, <3>1, <3>2, OpMoves, OpShapes
    <3> QED BY <3>1, <3>3 DEF TypeOK, Rows, OpsIssued
  <2>3. ASSUME RevokeWrite(h) PROVE TypeOK'
    <3>1. op[h].i \in Invitations /\ invitation[op[h].i] # Unissued /\ op[h].pc = "revoke"
        BY <1>0, <2>0, <2>3, OpFields DEF RevokeWrite, OpsIssued
    <3>2. Rows' /\ \A i \in Invitations : invitation[i] # Unissued => invitation'[i] # Unissued
        BY <1>0, <2>3, <3>1 DEF RevokeWrite, Rows, Invitation, InvitationStatus, Unissued
    <3>3. invitation[op[h].i].phone \in Phones
        BY <1>0, <3>1 DEF Rows, Invitation
    <3> DEFINE o == IF op[h].replace THEN [pc |-> "recheck", phone |-> invitation[op[h].i].phone] ELSE Idle
    <3>4. o \in Op /\ o.pc \notin {"expire", "revoke"}
        BY <3>3, OpShapes DEF Idle
    <3>5. op' = [op EXCEPT ![h] = o]
        BY <2>3 DEF RevokeWrite, Continue, Finish
    <3> HIDE DEF o
    <3>6. op' \in [Handlers -> Op] /\ OpsIssued'
        BY <2>0, <3>2, <3>4, <3>5, OpMoves
    <3> QED BY <3>2, <3>6 DEF TypeOK, Rows, OpsIssued
  <2>4. ASSUME NEW i \in Invitations, InviteWrite(h, i) PROVE TypeOK'
    <3>1. op[h].phone \in Phones /\ op' = [op EXCEPT ![h] = Idle]
        BY <2>0, <2>4, OpFields DEF InviteWrite, Finish
    <3> DEFINE new == [status |-> "ISSUED", phone |-> op[h].phone, live |-> TRUE, uses |-> 0]
    <3>2. new \in Invitation /\ new # Unissued
        BY <3>1 DEF Invitation, InvitationStatus, Unissued
    <3>3. invitation' = [invitation EXCEPT ![i] = new]
        BY <2>4 DEF InviteWrite
    <3> HIDE DEF new
    <3>4. Rows' /\ \A j \in Invitations : invitation[j] # Unissued => invitation'[j] # Unissued
        BY <1>0, <2>4, <3>2, <3>3 DEF InviteWrite, Rows
    <3>5. op' \in [Handlers -> Op] /\ OpsIssued'
        BY <2>0, <3>1, <3>4, OpMoves, OpShapes DEF Idle
    <3> QED BY <3>4, <3>5 DEF TypeOK, Rows, OpsIssued
  <2>5. ASSUME NEW i \in Invitations, ReplaceEnded(h, i) PROVE TypeOK'
    <3>1. Rows' /\ UNCHANGED invitation
        BY <1>0, <2>5 DEF ReplaceEnded, Rows
    <3>2. invitation[i].phone \in Phones
        BY <1>0, <2>5 DEF ReplaceEnded, Replaceable, Rows, Invitation, Unissued
    <3>3. op' = [op EXCEPT ![h] = [pc |-> "recheck", phone |-> invitation[i].phone]]
        BY <2>5 DEF ReplaceEnded, Begin
    <3>4. op' \in [Handlers -> Op] /\ OpsIssued'
        BY <2>0, <3>1, <3>2, <3>3, OpMoves, OpShapes
    <3> QED BY <3>1, <3>4 DEF TypeOK, Rows, OpsIssued
  <2>6. ASSUME NEW i \in Invitations, NEW r \in BOOLEAN, RevokeRead(h, i, r) PROVE TypeOK'
    <3>1. Rows' /\ UNCHANGED invitation /\ invitation[i] # Unissued
        BY <1>0, <2>6 DEF RevokeRead, Rows, Unissued
    <3>2. op' = [op EXCEPT ![h] = [pc |-> "revoke", i |-> i, replace |-> r]]
        BY <2>6 DEF RevokeRead, Begin
    <3>3. op' \in [Handlers -> Op] /\ OpsIssued'
        BY <2>0, <3>1, <3>2, OpMoves, OpShapes
    <3> QED BY <3>1, <3>3 DEF TypeOK, Rows, OpsIssued
  <2> QED BY <1>4, <2>1, <2>2, <2>3, <2>4, <2>5, <2>6 DEF AdminStep
<1>5. ASSUME NEW h \in Handlers, Stop(h) PROVE TypeOK'
  <2>1. Rows' /\ UNCHANGED invitation /\ op' = [op EXCEPT ![h] = Idle]
      BY <1>0, <1>5 DEF Stop, Rows, Finish
  <2>2. op' \in [Handlers -> Op] /\ OpsIssued'
      BY <2>1, OpMoves, OpShapes DEF Idle
  <2> QED BY <2>1, <2>2 DEF TypeOK, Rows, OpsIssued
<1>6. ASSUME NEW c \in Codes, Lapse(c) PROVE TypeOK'
  <2>1. code' \in [Codes -> Code]
      BY <1>0, <1>6 DEF Lapse, Rows, Code
  <2> QED BY <1>6, <2>1 DEF Lapse, TypeOK
<1>7. ASSUME NEW i \in Invitations, validateAccess(i) PROVE TypeOK'
    BY <1>7 DEF validateAccess, TypeOK
<1>8. ASSUME NEW i \in Invitations, InvitationLapses(i) PROVE TypeOK'
  <2>1. /\ invitation' \in [Invitations -> Invitation \cup {Unissued}]
        /\ \A j \in Invitations : invitation[j] # Unissued => invitation'[j] # Unissued
    <3>1. invitation[i] \in Invitation
        BY <1>0, <1>8 DEF InvitationLapses, Rows, Unissued
    <3> DEFINE new == [invitation[i] EXCEPT !.live = FALSE]
    <3>2. new \in Invitation /\ new # Unissued
        BY <1>8, <3>1 DEF InvitationLapses, Invitation, Unissued
    <3>3. invitation' = [invitation EXCEPT ![i] = new]
        BY <1>0, <1>8 DEF InvitationLapses, Rows
    <3> HIDE DEF new
    <3> QED BY <1>0, <3>2, <3>3 DEF Rows
  <2>2. OpsIssued'
    <3> SUFFICES ASSUME NEW h \in Handlers, op[h].pc \in {"expire", "revoke"}
                 PROVE  invitation'[op[h].i] # Unissued
        BY <1>8 DEF InvitationLapses, OpsIssued
    <3>1. op[h].i \in Invitations /\ invitation[op[h].i] # Unissued
        BY <1>0, OpFields DEF OpsIssued
    <3> QED BY <2>1, <3>1
  <2> QED BY <1>8, <2>1, <2>2 DEF InvitationLapses, TypeOK, OpsIssued
<1> QED BY <1>1, <1>2, <1>3, <1>4, <1>5, <1>6, <1>7, <1>8 DEF Next

\* The rows and the calls in flight keep their types, and a call that will write
\* an invitation by id has one that exists.
THEOREM types == Spec => []TypeOK
BY InitTypes, TypesKept, PTL DEF Spec

-----------------------------------------------------------------------------
\* What no step takes back from a code that was sent, and what it may count.
CodeKeeps(c) ==
    /\ code[c].to # None => /\ code'[c].to = code[c].to
                            /\ code[c].verified => code'[c].verified
                            /\ code[c].used => code'[c].used
                            /\ ~code[c].live => ~code'[c].live
    /\ code'[c].tries <= MaxAttempts \/ code'[c].tries = code[c].tries

LEMMA CodeKept ==
    ASSUME TypeOK, [Next]_vars, NEW c \in Codes
    PROVE  CodeKeeps(c)
<1>0. code \in [Codes -> Code] /\ code[c] \in Code
    BY DEF TypeOK
<1>1. CASE UNCHANGED code
    BY <1>1 DEF CodeKeeps
<1>2. ASSUME NEW h \in Senders, Supersede(h) PROVE CodeKeeps(c)
  <2>1. code'[c] = code[c] \/ code'[c] = [code[c] EXCEPT !.live = FALSE]
      BY <1>2 DEF Supersede
  <2> QED BY <1>0, <2>1 DEF CodeKeeps, Code
<1>3. ASSUME NEW h \in Senders, NEW d \in Codes, Create(h, d) PROVE CodeKeeps(c)
  <2>1. code[d] = Unsent /\ code' = [code EXCEPT ![d] = [Unsent EXCEPT !.to = op[h].to, !.live = TRUE]]
      BY <1>3 DEF Create
  <2>2. CASE c = d
    <3>1. code'[c].tries = 0 /\ code[c].tries = 0
        BY <1>0, <2>1, <2>2 DEF Unsent
    <3> QED BY <2>1, <2>2, <3>1 DEF CodeKeeps, Unsent
  <2>3. CASE c # d
      BY <1>0, <2>1, <2>3 DEF CodeKeeps
  <2> QED BY <2>2, <2>3
<1>4. ASSUME NEW h \in Senders, DeliveryFailed(h) PROVE CodeKeeps(c)
  <2>1. op[h].c \in Codes
      BY <1>4, OpFields DEF DeliveryFailed, Handlers
  <2> DEFINE on == code[op[h].c].live /\ (code[op[h].c].verified \/ code[op[h].c].used)
  <2>2. code' = [code EXCEPT ![op[h].c].live = on]
      BY <1>0, <1>4, <2>1 DEF DeliveryFailed
  <2>3. on \in BOOLEAN /\ (on => code[op[h].c].live)
      BY <1>0, <2>1 DEF Code
  <2> HIDE DEF on
  <2>4. CASE c = op[h].c
    <3>1. code'[c] = [code[c] EXCEPT !.live = on]
        BY <1>0, <2>2, <2>4
    <3> QED BY <1>0, <2>3, <2>4, <3>1 DEF CodeKeeps, Code
  <2>5. CASE c # op[h].c
      BY <1>0, <2>1, <2>2, <2>5 DEF CodeKeeps
  <2> QED BY <2>4, <2>5
<1>5. ASSUME Lapse(c) PROVE CodeKeeps(c)
  <2>1. code'[c] = [code[c] EXCEPT !.live = FALSE] /\ code[c].live
      BY <1>0, <1>5 DEF Lapse
  <2> QED BY <1>0, <2>1 DEF CodeKeeps, Code
<1>6. ASSUME NEW d \in Codes, d # c, Lapse(d) PROVE CodeKeeps(c)
    BY <1>0, <1>6 DEF Lapse, CodeKeeps
<1>7. ASSUME NEW h \in Callers, VerifyAttempt(h) PROVE CodeKeeps(c)
  <2>1. op[h].c \in Codes
      BY <1>7, OpFields DEF VerifyAttempt, Handlers
  <2>2. CASE c = op[h].c
    <3>1. code'[c] = [code[c] EXCEPT !.tries = code[c].tries + 1] /\ code[c].tries < MaxAttempts
        BY <1>0, <1>7, <2>2 DEF VerifyAttempt, Attemptable
    <3>2. code'[c].tries = code[c].tries + 1 /\ code[c].tries \in Nat
        BY <1>0, <3>1 DEF Code
    <3>3. code'[c].tries <= MaxAttempts /\ code'[c].tries # 0
        BY <3>1, <3>2, AttemptsAssumption
    <3> QED BY <1>0, <3>1, <3>3 DEF CodeKeeps, Code
  <2>3. CASE c # op[h].c
      BY <1>0, <1>7, <2>1, <2>3 DEF VerifyAttempt, CodeKeeps
  <2> QED BY <2>2, <2>3
<1>8. ASSUME NEW h \in Callers, VerifyWrite(h) PROVE CodeKeeps(c)
  <2>1. op[h].c \in Codes
      BY <1>8, OpFields DEF VerifyWrite, Handlers
  <2>2. CASE c = op[h].c
    <3>1. code'[c] = [code[c] EXCEPT !.verified = TRUE, !.live = TRUE] /\ code[c].live
        BY <1>0, <1>8, <2>2 DEF VerifyWrite, Verifiable, Open
    <3> QED BY <1>0, <3>1 DEF CodeKeeps, Code
  <2>3. CASE c # op[h].c
      BY <1>0, <1>8, <2>1, <2>3 DEF VerifyWrite, CodeKeeps
  <2> QED BY <2>2, <2>3
<1>9. ASSUME NEW h \in Callers, NEW mail \in Codes, NEW text \in Codes,
             NEW i \in Invitations \cup {None}, register(h, mail, text, i)
      PROVE  CodeKeeps(c)
  <2>1. code'[c] = code[c] \/ code'[c] = [code[c] EXCEPT !.used = TRUE]
      BY <1>0, <1>9 DEF register
  <2> QED BY <1>0, <2>1 DEF CodeKeeps, Code
<1> QED BY <1>1, <1>2, <1>3, <1>4, <1>5, <1>6, <1>7, <1>8, <1>9
        DEF Next, SenderStep, CallerStep, AdminStep, vars, StartRead, VerifyRead, ExpireRead,
            ExpireWrite, RegisterRead, InviteRead, InviteReplaced, InviteWrite, RevokeRead,
            RevokeWrite, ReplaceEnded, Stop, validateAccess, InvitationLapses

\* A challenge is tried MaxAttempts times at most, by any number of calls at once.
THEOREM attempts == Spec => []AttemptsBounded
<1>1. Init => AttemptsBounded
    BY AttemptsAssumption DEF Init, AttemptsBounded, Unsent
<1>2. AttemptsBounded /\ TypeOK /\ [Next]_vars => AttemptsBounded'
  <2> SUFFICES ASSUME AttemptsBounded, TypeOK, [Next]_vars, NEW c \in Codes
               PROVE  code'[c].tries <= MaxAttempts
      BY DEF AttemptsBounded
  <2>1. CodeKeeps(c) /\ code[c].tries <= MaxAttempts
      BY CodeKept DEF AttemptsBounded
  <2> QED BY <2>1 DEF CodeKeeps
<1> QED BY <1>1, <1>2, types, PTL DEF Spec

\* A code that ran out or was superseded never becomes good again, whatever the
\* calls that read it before then go on to write.
THEOREM ended == Spec => EndedStays
<1>1. TypeOK /\ [Next]_vars => \A c \in Codes : code[c].to # None /\ ~code[c].live => ~code'[c].live
    BY CodeKept DEF CodeKeeps
<1> QED BY <1>1, types, PTL DEF Spec, EndedStays

-----------------------------------------------------------------------------
\* An invitation that was used keeps its number and its use.
LEMMA UseKept ==
    ASSUME TypeOK, [Next]_vars, NEW i \in Invitations, invitation[i].uses = 1
    PROVE  invitation'[i].uses = 1 /\ invitation'[i].phone = invitation[i].phone
<1>0. invitation \in [Invitations -> Invitation \cup {Unissued}] /\ invitation[i] \in Invitation
    BY DEF TypeOK, Unissued
<1>1. CASE UNCHANGED invitation
    BY <1>1
<1>2. ASSUME NEW h \in Callers, ExpireWrite(h)
      PROVE  invitation'[i].uses = 1 /\ invitation'[i].phone = invitation[i].phone
    BY <1>0, <1>2 DEF ExpireWrite, Invitation
<1>3. ASSUME NEW h \in Admins, RevokeWrite(h)
      PROVE  invitation'[i].uses = 1 /\ invitation'[i].phone = invitation[i].phone
    BY <1>0, <1>3 DEF RevokeWrite, Invitation
<1>4. ASSUME NEW h \in Admins, NEW j \in Invitations, InviteWrite(h, j)
      PROVE  invitation'[i].uses = 1 /\ invitation'[i].phone = invitation[i].phone
    BY <1>0, <1>4 DEF InviteWrite, Unissued
<1>5. ASSUME NEW j \in Invitations, InvitationLapses(j)
      PROVE  invitation'[i].uses = 1 /\ invitation'[i].phone = invitation[i].phone
    BY <1>0, <1>5 DEF InvitationLapses, Invitation
<1>6. ASSUME NEW h \in Callers, NEW mail \in Codes, NEW text \in Codes,
             NEW j \in Invitations \cup {None}, register(h, mail, text, j)
      PROVE  invitation'[i].uses = 1 /\ invitation'[i].phone = invitation[i].phone
  <2>1. j = None \/ j # i
      BY <1>6 DEF register, Redeemable, Usable
  <2> QED BY <1>0, <1>6, <2>1 DEF register, redeemInTransaction
<1> QED BY <1>1, <1>2, <1>3, <1>4, <1>5, <1>6
        DEF Next, SenderStep, CallerStep, AdminStep, vars, StartRead, Supersede, Create,
            DeliveryFailed, VerifyRead, VerifyAttempt, VerifyWrite, ExpireRead, RegisterRead,
            InviteRead, InviteReplaced, RevokeRead, ReplaceEnded, Stop, validateAccess, Lapse

\* The grounds of one shop.
Founded(e) ==
    LET a == account[e]
    IN  /\ code[a.mail].to = e /\ code[a.mail].verified /\ code[a.mail].used
        /\ code[a.text].to = a.phone /\ code[a.text].verified /\ code[a.text].used
        /\ a.invitation = None => ~AccessRequired
        /\ a.invitation # None => /\ invitation[a.invitation].uses = 1
                                  /\ invitation[a.invitation].phone = a.phone

Apart(e, f) ==
    account[e].phone = account[f].phone
    \/ (account[e].invitation = account[f].invitation /\ account[e].invitation # None)
    => e = f

LEMMA FoundedParts ==
    FoundedOnProof <=> (\A e \in Accounts : Founded(e)) /\ (\A e, f \in Accounts : Apart(e, f))
BY DEF FoundedOnProof, Founded, Apart

\* An account made stays as it was made.
LEMMA FoundedKept ==
    ASSUME TypeOK, [Next]_vars, NEW e \in Accounts, Founded(e), account'[e] = account[e]
    PROVE  Founded(e)'
<1>1. account[e] \in Account
    BY DEF TypeOK, Accounts
<1>2. account[e].mail \in Codes /\ account[e].text \in Codes
      /\ account[e].invitation \in Invitations \cup {None}
    BY <1>1 DEF Account
<1>3. code[account[e].mail].to # None /\ code[account[e].text].to # None
    BY <1>1, AddressesAssumption DEF Founded, Account, Accounts, Addresses
<1>4. CodeKeeps(account[e].mail) /\ CodeKeeps(account[e].text)
    BY <1>2, CodeKept
<1>5. account[e].invitation # None =>
          /\ invitation'[account[e].invitation].uses = 1
          /\ invitation'[account[e].invitation].phone = account[e].phone
    BY <1>2, UseKept DEF Founded
<1> QED BY <1>3, <1>4, <1>5 DEF Founded, CodeKeeps

\* Every shop stands on proofs and an invitation of its own.
THEOREM founded == Spec => []FoundedOnProof
<1>1. Init => FoundedOnProof
  <2> SUFFICES ASSUME Init PROVE FoundedOnProof
      OBVIOUS
  <2>1. Accounts = {}
      BY DEF Init, Accounts
  <2> QED BY <2>1 DEF FoundedOnProof
<1>2. FoundedOnProof /\ TypeOK /\ [Next]_vars => FoundedOnProof'
  <2> SUFFICES ASSUME FoundedOnProof, TypeOK, [Next]_vars PROVE FoundedOnProof'
      OBVIOUS
  <2>0. (\A e \in Accounts : Founded(e)) /\ (\A e, f \in Accounts : Apart(e, f))
      BY FoundedParts
  <2>1. CASE UNCHANGED account
    <3>1. Accounts' = Accounts
        BY <2>1 DEF Accounts
    <3>2. \A e \in Accounts : Founded(e)'
        BY <2>0, <2>1, FoundedKept
    <3>3. \A e, f \in Accounts : Apart(e, f)'
        BY <2>0, <2>1 DEF Apart
    <3> QED BY <3>1, <3>2, <3>3 DEF FoundedOnProof, Founded, Apart
  <2>2. ASSUME NEW h \in Callers, NEW mail \in Codes, NEW text \in Codes,
               NEW i \in Invitations \cup {None}, register(h, mail, text, i)
        PROVE  FoundedOnProof'
    <3>1. PICK e \in Emails, p \in Phones : e = op[h].email /\ p = op[h].phone
        BY <2>2, OpFields DEF register, Handlers
    <3> DEFINE a == [phone |-> p, mail |-> mail, text |-> text, invitation |-> i]
    <3>2. account' = [account EXCEPT ![e] = a] /\ account[e] = NoAccount /\ ~PhoneTaken(p)
        BY <2>2, <3>1 DEF register
    <3>3. account'[e] = a /\ a # NoAccount /\ \A f \in Emails : f # e => account'[f] = account[f]
      <4>1. a # NoAccount
          BY <3>1, AddressesAssumption DEF NoAccount, Addresses
      <4> HIDE DEF a
      <4> QED BY <3>1, <3>2, <4>1 DEF TypeOK
    <3>4. Accounts' = Accounts \cup {e} /\ e \notin Accounts
        BY <3>1, <3>2, <3>3 DEF Accounts
    <3>5. Founded(e)'
      <4>1. Proof(mail, e) /\ Proof(text, p)
          BY <2>2, <3>1 DEF register
      <4>2. CodeKeeps(mail) /\ CodeKeeps(text) /\ code[mail].to # None /\ code[text].to # None
          BY <4>1, CodeKept, AddressesAssumption DEF Proof, Addresses
      <4>3. code'[mail].used /\ code'[text].used
        <5>1. code' = [code EXCEPT ![mail].used = TRUE, ![text].used = TRUE]
            BY <2>2 DEF register
        <5> QED BY <5>1 DEF TypeOK, Code
      <4>4. i = None => ~AccessRequired
        <5>1. i \in Grants /\ granted \subseteq Invitations
            BY <2>2 DEF register, TypeOK
        <5> QED BY <5>1, InvitationsAssumption DEF Grants
      <4>5. i # None => invitation'[i].uses = 1 /\ invitation'[i].phone = p
        <5> SUFFICES ASSUME i # None PROVE invitation'[i].uses = 1 /\ invitation'[i].phone = p
            OBVIOUS
        <5>1. i \in Invitations /\ Usable(i) /\ invitation[i].phone = p
            BY <2>2, <3>1 DEF register, Redeemable
        <5>2. invitation[i] \in Invitation
            BY <5>1 DEF TypeOK, Usable, Unissued
        <5>3. invitation[i].uses = 0
          <6>1. invitation[i].uses \in Nat /\ invitation[i].uses < 1
              BY <5>1, <5>2 DEF Usable, Invitation
          <6> QED BY <6>1
        <5>4. invitation' = [invitation EXCEPT ![i].status = "REDEEMED", ![i].uses = @ + 1]
            BY <2>2 DEF register, redeemInTransaction
        <5>5. invitation'[i].uses = invitation[i].uses + 1 /\ invitation'[i].phone = invitation[i].phone
            BY <5>1, <5>2, <5>4 DEF TypeOK, Invitation
        <5> QED BY <5>1, <5>3, <5>5
      <4>6. /\ account'[e].mail = mail /\ account'[e].text = text
            /\ account'[e].phone = p /\ account'[e].invitation = i
          BY <3>3
      <4> HIDE DEF a
      <4> QED BY <4>1, <4>2, <4>3, <4>4, <4>5, <4>6 DEF Founded, CodeKeeps, Proof
    <3>6. \A f \in Accounts : Founded(f)'
      <4> SUFFICES ASSUME NEW f \in Accounts PROVE Founded(f)'
          OBVIOUS
      <4>1. f # e /\ f \in Emails /\ account'[f] = account[f]
          BY <3>3, <3>4 DEF Accounts
      <4> QED BY <2>0, <4>1, FoundedKept
    <3>7. \A f \in Accounts : account'[f].phone # p /\ (i # None => account'[f].invitation # i)
      <4> SUFFICES ASSUME NEW f \in Accounts
                   PROVE  account'[f].phone # p /\ (i # None => account'[f].invitation # i)
          OBVIOUS
      <4>1. f \in Emails /\ account'[f] = account[f]
          BY <3>3, <3>4 DEF Accounts
      <4>2. account[f].phone # p
          BY <3>2, <4>1 DEF PhoneTaken
      <4>3. i # None => invitation[i].uses < 1
          BY <2>2 DEF register, Redeemable, Usable
      <4>4. account[f].invitation # None => invitation[account[f].invitation].uses = 1
          BY <2>0 DEF Founded
      <4> QED BY <4>1, <4>2, <4>3, <4>4
    <3>8. \A f, g \in Accounts' : Apart(f, g)'
      <4>1. account'[e].phone = p /\ account'[e].invitation = i
          BY <3>3
      <4>2. \A f, g \in Accounts : account'[f] = account[f] /\ account'[g] = account[g] /\ Apart(f, g)
          BY <2>0, <3>3, <3>4 DEF Accounts
      <4> HIDE DEF a
      <4>3. ASSUME NEW f \in Accounts, NEW g \in Accounts PROVE Apart(f, g)'
          BY <4>2 DEF Apart
      <4>4. ASSUME NEW f \in Accounts PROVE Apart(f, e)' /\ Apart(e, f)'
          BY <3>7, <4>1 DEF Apart
      <4>5. Apart(e, e)'
          BY DEF Apart
      <4> QED BY <3>4, <4>3, <4>4, <4>5
    <3>9. \A f \in Accounts' : Founded(f)'
        BY <3>4, <3>5, <3>6
    <3> HIDE DEF a
    <3> QED BY <3>8, <3>9 DEF FoundedOnProof, Founded, Apart
  <2> QED BY <2>1, <2>2
          DEF Next, SenderStep, CallerStep, AdminStep, vars, StartRead, Supersede, Create,
              DeliveryFailed, VerifyRead, VerifyAttempt, VerifyWrite, ExpireRead, ExpireWrite,
              RegisterRead, InviteRead, InviteReplaced, InviteWrite, RevokeRead, RevokeWrite,
              ReplaceEnded, Stop, validateAccess, Lapse, InvitationLapses
<1> QED BY <1>1, <1>2, types, PTL DEF Spec

-----------------------------------------------------------------------------
\* An invitation that is over: whichever of the racing writers had the last word
\* on its status, it admits nobody any more.
Over(i) == invitation[i].status \in {"REDEEMED", "EXPIRED", "REVOKED"}

\* It is never issued again, its uses are not counted on, and it keeps its number.
OverKeeps(i) ==
    /\ invitation'[i].status \in {"EXPIRED", "REVOKED", invitation[i].status}
    /\ invitation'[i].uses = invitation[i].uses
    /\ invitation'[i].phone = invitation[i].phone

LEMMA OverKept ==
    ASSUME TypeOK, [Next]_vars, NEW i \in Invitations, Over(i)
    PROVE  OverKeeps(i)
<1>0. invitation \in [Invitations -> Invitation \cup {Unissued}] /\ invitation[i] \in Invitation
    BY DEF TypeOK, Unissued, Over
<1>1. CASE UNCHANGED invitation
    BY <1>1 DEF OverKeeps
<1>2. ASSUME NEW h \in Callers, ExpireWrite(h) PROVE OverKeeps(i)
    BY <1>0, <1>2 DEF ExpireWrite, Invitation, OverKeeps
<1>3. ASSUME NEW h \in Admins, RevokeWrite(h) PROVE OverKeeps(i)
    BY <1>0, <1>3 DEF RevokeWrite, Invitation, OverKeeps
<1>4. ASSUME NEW h \in Admins, NEW j \in Invitations, InviteWrite(h, j) PROVE OverKeeps(i)
    BY <1>0, <1>4 DEF InviteWrite, Unissued, Over, OverKeeps
<1>5. ASSUME NEW j \in Invitations, InvitationLapses(j) PROVE OverKeeps(i)
    BY <1>0, <1>5 DEF InvitationLapses, Invitation, OverKeeps
<1>6. ASSUME NEW h \in Callers, NEW mail \in Codes, NEW text \in Codes,
             NEW j \in Invitations \cup {None}, register(h, mail, text, j)
      PROVE  OverKeeps(i)
  <2>1. j = None \/ j # i
      BY <1>6 DEF register, Redeemable, Usable, Over
  <2> QED BY <1>0, <1>6, <2>1 DEF register, redeemInTransaction, OverKeeps
<1> QED BY <1>1, <1>2, <1>3, <1>4, <1>5, <1>6
        DEF Next, SenderStep, CallerStep, AdminStep, vars, StartRead, Supersede, Create,
            DeliveryFailed, VerifyRead, VerifyAttempt, VerifyWrite, ExpireRead, RegisterRead,
            InviteRead, InviteReplaced, RevokeRead, ReplaceEnded, Stop, validateAccess, Lapse

\* A revoked, expired or redeemed invitation stays over: revokeInvitation's write
\* by id and validateAccess's may overwrite each other's status and a redemption's,
\* but none of them makes the invitation good for another shop.
THEOREM overStays ==
    Spec => [][\A i \in Invitations : Over(i) => OverKeeps(i)]_vars
<1>1. TypeOK /\ [Next]_vars => \A i \in Invitations : Over(i) => OverKeeps(i)
    BY OverKept
<1> QED BY types, <1>1, PTL DEF Spec

\* The use count tells what the status may not: whether a shop was founded on the
\* invitation.
UsesCounted ==
    \A i \in Invitations :
        /\ invitation[i].uses \in {0, 1}
        /\ invitation[i].uses = 1 => \E e \in Accounts : account[e].invitation = i

\* The invitation's own rows change their count in register alone.
LEMMA CountMoves ==
    ASSUME TypeOK, [Next]_vars, NEW i \in Invitations,
           \A h \in Callers, mail, text \in Codes : ~register(h, mail, text, i)
    PROVE  invitation'[i].uses = invitation[i].uses
<1>0. invitation \in [Invitations -> Invitation \cup {Unissued}]
    BY DEF TypeOK
<1>1. CASE UNCHANGED invitation
    BY <1>1
<1>2. ASSUME NEW h \in Callers, ExpireWrite(h) PROVE invitation'[i].uses = invitation[i].uses
    BY <1>0, <1>2 DEF ExpireWrite, Invitation, Unissued
<1>3. ASSUME NEW h \in Admins, RevokeWrite(h) PROVE invitation'[i].uses = invitation[i].uses
    BY <1>0, <1>3 DEF RevokeWrite, Invitation, Unissued
<1>4. ASSUME NEW h \in Admins, NEW j \in Invitations, InviteWrite(h, j)
      PROVE  invitation'[i].uses = invitation[i].uses
    BY <1>0, <1>4 DEF InviteWrite, Unissued
<1>5. ASSUME NEW j \in Invitations, InvitationLapses(j)
      PROVE  invitation'[i].uses = invitation[i].uses
    BY <1>0, <1>5 DEF InvitationLapses, Invitation, Unissued
<1>6. ASSUME NEW h \in Callers, NEW mail \in Codes, NEW text \in Codes,
             NEW j \in Invitations \cup {None}, register(h, mail, text, j)
      PROVE  invitation'[i].uses = invitation[i].uses
  <2>1. j # i
      BY <1>6
  <2> QED BY <1>0, <1>6, <2>1 DEF register, redeemInTransaction
<1> QED BY <1>1, <1>2, <1>3, <1>4, <1>5, <1>6
        DEF Next, SenderStep, CallerStep, AdminStep, vars, StartRead, Supersede, Create,
            DeliveryFailed, VerifyRead, VerifyAttempt, VerifyWrite, ExpireRead, RegisterRead,
            InviteRead, InviteReplaced, RevokeRead, ReplaceEnded, Stop, validateAccess, Lapse

\* An account is made once and never rewritten.
LEMMA AccountStays ==
    ASSUME TypeOK, [Next]_vars, NEW e \in Accounts
    PROVE  e \in Accounts' /\ account'[e] = account[e]
<1>1. CASE UNCHANGED account
    BY <1>1 DEF Accounts
<1>2. ASSUME NEW h \in Callers, NEW mail \in Codes, NEW text \in Codes,
             NEW j \in Invitations \cup {None}, register(h, mail, text, j)
      PROVE  e \in Accounts' /\ account'[e] = account[e]
    BY <1>2 DEF register, Accounts, TypeOK
<1> QED BY <1>1, <1>2
        DEF Next, SenderStep, CallerStep, AdminStep, vars, StartRead, Supersede, Create,
            DeliveryFailed, VerifyRead, VerifyAttempt, VerifyWrite, ExpireRead, ExpireWrite,
            RegisterRead, InviteRead, InviteReplaced, InviteWrite, RevokeRead, RevokeWrite,
            ReplaceEnded, Stop, validateAccess, Lapse, InvitationLapses

\* uses is 1 exactly when a shop was founded on the invitation (the other half is
\* FoundedOnProof's), even where a revocation left REVOKED over REDEEMED.
THEOREM usesCounted == Spec => []UsesCounted
<1>1. Init => UsesCounted
    BY DEF Init, UsesCounted, Unissued
<1>2. UsesCounted /\ TypeOK /\ [Next]_vars => UsesCounted'
  <2> SUFFICES ASSUME UsesCounted, TypeOK, [Next]_vars, NEW i \in Invitations
               PROVE  /\ invitation'[i].uses \in {0, 1}
                      /\ invitation'[i].uses = 1 => \E e \in Accounts' : account'[e].invitation = i
      BY DEF UsesCounted
  <2>1. CASE invitation'[i].uses = invitation[i].uses
      BY <2>1, AccountStays DEF UsesCounted
  <2>2. ASSUME NEW h \in Callers, NEW mail \in Codes, NEW text \in Codes, register(h, mail, text, i)
        PROVE  /\ invitation'[i].uses \in {0, 1}
               /\ \E e \in Accounts' : account'[e].invitation = i
    <3>1. PICK e \in Emails, p \in Phones : e = op[h].email /\ p = op[h].phone
        BY <2>2, OpFields DEF register, Handlers
    <3> DEFINE a == [phone |-> p, mail |-> mail, text |-> text, invitation |-> i]
    <3>2. account' = [account EXCEPT ![e] = a] /\ i # None
        BY <2>2, <3>1, InvitationsAssumption DEF register
    <3>3. account'[e] = a /\ a # NoAccount /\ a.invitation = i
      <4>1. a # NoAccount /\ a.invitation = i
          BY <3>1, AddressesAssumption DEF NoAccount, Addresses
      <4> HIDE DEF a
      <4> QED BY <3>1, <3>2, <4>1 DEF TypeOK
    <3>4. e \in Accounts' /\ account'[e].invitation = i
        BY <3>1, <3>3 DEF Accounts
    <3>5. Usable(i) /\ invitation' = [invitation EXCEPT ![i].status = "REDEEMED", ![i].uses = @ + 1]
        BY <2>2, <3>2 DEF register, Redeemable, redeemInTransaction
    <3>6. invitation[i] \in Invitation /\ invitation[i].uses \in {0, 1} /\ invitation[i].uses < 1
        BY <3>5 DEF TypeOK, Usable, Unissued, UsesCounted
    <3>7. invitation[i].uses = 0
        BY <3>6
    <3>8. invitation'[i].uses = 1
        BY <3>5, <3>6, <3>7 DEF TypeOK, Invitation
    <3> QED BY <3>4, <3>8
  <2> QED BY <2>1, <2>2, CountMoves
<1> QED BY <1>1, <1>2, types, PTL DEF Spec

-----------------------------------------------------------------------------
\* Only Create gives a row an address.
LEMMA AddressKept ==
    ASSUME TypeOK, [Next]_vars, \A h \in Senders, d \in Codes : ~Create(h, d), NEW c \in Codes
    PROVE  code'[c].to = code[c].to
<1>0. code \in [Codes -> Code]
    BY DEF TypeOK
<1>1. CASE UNCHANGED code
    BY <1>1
<1>2. ASSUME NEW h \in Senders, Supersede(h) PROVE code'[c].to = code[c].to
    BY <1>0, <1>2 DEF Supersede, Code
<1>3. ASSUME NEW h \in Senders, DeliveryFailed(h) PROVE code'[c].to = code[c].to
    BY <1>0, <1>3 DEF DeliveryFailed, Code
<1>4. ASSUME NEW d \in Codes, Lapse(d) PROVE code'[c].to = code[c].to
    BY <1>0, <1>4 DEF Lapse, Code
<1>5. ASSUME NEW h \in Callers, VerifyAttempt(h) PROVE code'[c].to = code[c].to
    BY <1>0, <1>5 DEF VerifyAttempt, Code
<1>6. ASSUME NEW h \in Callers, VerifyWrite(h) PROVE code'[c].to = code[c].to
    BY <1>0, <1>6 DEF VerifyWrite, Code
<1>7. ASSUME NEW h \in Callers, NEW mail \in Codes, NEW text \in Codes,
             NEW i \in Invitations \cup {None}, register(h, mail, text, i)
      PROVE  code'[c].to = code[c].to
    BY <1>0, <1>7 DEF register, Code
<1> QED BY <1>1, <1>2, <1>3, <1>4, <1>5, <1>6, <1>7
        DEF Next, SenderStep, CallerStep, AdminStep, vars, StartRead, VerifyRead, ExpireRead,
            ExpireWrite, RegisterRead, InviteRead, InviteReplaced, InviteWrite, RevokeRead,
            RevokeWrite, ReplaceEnded, Stop, validateAccess, InvitationLapses

\* A public call goes on to none of the writes that create a row.
LEMMA CallerMoves ==
    ASSUME NEW g \in Callers, CallerStep(g)
    PROVE  \E o : op' = [op EXCEPT ![g] = o] /\ o.pc \notin {"create", "invite"}
<1> DEFINE Moves == \E o : op' = [op EXCEPT ![g] = o] /\ o.pc \notin {"create", "invite"}
<1>1. ASSUME NEW c \in Codes, VerifyRead(g, c) PROVE Moves
  <2> DEFINE o == [pc |-> "attempt", c |-> c]
  <2>1. op' = [op EXCEPT ![g] = o] /\ o.pc \notin {"create", "invite"}
      BY <1>1 DEF VerifyRead, Begin
  <2> HIDE DEF o
  <2> QED BY <2>1
<1>2. ASSUME VerifyAttempt(g) PROVE Moves
  <2> DEFINE o == [pc |-> "compare", c |-> op[g].c]
  <2>1. op' = [op EXCEPT ![g] = o] /\ o.pc \notin {"create", "invite"}
      BY <1>2 DEF VerifyAttempt, Continue
  <2> HIDE DEF o
  <2> QED BY <2>1
<1>3. ASSUME NEW i \in Invitations, ExpireRead(g, i) PROVE Moves
  <2> DEFINE o == [pc |-> "expire", i |-> i]
  <2>1. op' = [op EXCEPT ![g] = o] /\ o.pc \notin {"create", "invite"}
      BY <1>3 DEF ExpireRead, Begin
  <2> HIDE DEF o
  <2> QED BY <2>1
<1>4. ASSUME NEW e \in Emails, NEW p \in Phones, RegisterRead(g, e, p) PROVE Moves
  <2> DEFINE o == [pc |-> "register", email |-> e, phone |-> p]
  <2>1. op' = [op EXCEPT ![g] = o] /\ o.pc \notin {"create", "invite"}
      BY <1>4 DEF RegisterRead, Begin
  <2> HIDE DEF o
  <2> QED BY <2>1
<1>5. ASSUME Finish(g) PROVE Moves
  <2>1. op' = [op EXCEPT ![g] = Idle] /\ Idle.pc = "idle"
      BY <1>5 DEF Finish, Idle
  <2> QED BY <2>1
<1> QED BY <1>1, <1>2, <1>3, <1>4, <1>5 DEF CallerStep, VerifyWrite, ExpireWrite, register

\* With one code request at a time, an e-mail address has one usable code: the
\* start's transaction makes one only after it has ended the others, and no call
\* brings one back.
THEOREM oneCode ==
    ASSUME \A g, h \in Senders : g = h
    PROVE  Spec => []OneLiveCode
<1> DEFINE Inv == OneLiveCode /\ CreateClear
<1>1. Init => Inv
  <2> SUFFICES ASSUME Init PROVE Inv
      OBVIOUS
  <2>1. OneLiveCode
      BY DEF Init, OneLiveCode, Unsent
  <2>2. CreateClear
      BY DEF Init, CreateClear, Idle, Handlers
  <2> QED BY <2>1, <2>2
<1>2. Inv /\ TypeOK /\ [Next]_vars => Inv'
  <2> SUFFICES ASSUME Inv, TypeOK, [Next]_vars PROVE Inv'
      OBVIOUS
  <2>1. ASSUME NEW h \in Senders, NEW d \in Codes, Create(h, d) PROVE Inv'
    <3>0. h \in Handlers /\ code \in [Codes -> Code] /\ op \in [Handlers -> Op]
        BY DEF Handlers, TypeOK
    <3>1. PICK to \in Addresses : to = op[h].to
        BY <2>1, <3>0, OpFields DEF Create
    <3> DEFINE new == [Unsent EXCEPT !.to = to, !.live = TRUE]
    <3>2. code' = [code EXCEPT ![d] = new]
        BY <2>1, <3>1 DEF Create
    <3>3. new.to = to
        BY DEF Unsent
    <3> HIDE DEF new
    <3>4. code'[d].to = to /\ \A c \in Codes : c # d => code'[c] = code[c]
        BY <3>0, <3>2, <3>3
    <3>5. to \in Emails => \A c \in Codes : code[c].to = to /\ code[c].live => code[c].used
        BY <2>1, <3>1 DEF Create, CreateClear
    <3>6. OneLiveCode'
        BY <3>4, <3>5 DEF OneLiveCode
    <3>7. op'[h].pc # "create"
        BY <2>1, <3>0 DEF Create, Continue, Finish, Idle
    <3>8. CreateClear'
        BY <3>7 DEF CreateClear
    <3> QED BY <3>6, <3>8
  <2>2. CASE \A h \in Senders, d \in Codes : ~Create(h, d)
    <3>1. \A c \in Codes : code'[c].to = code[c].to
        BY <2>2, AddressKept
    <3>2. \A c \in Codes : CodeKeeps(c)
        BY CodeKept
    <3>3. \A c \in Codes : code[c].to \in Emails =>
              (code'[c].live => code[c].live) /\ (code[c].used => code'[c].used)
        BY <3>2, AddressesAssumption DEF CodeKeeps, Addresses
    <3>4. OneLiveCode'
        BY <3>1, <3>3 DEF OneLiveCode
    <3>5. ASSUME NEW h \in Senders, Supersede(h) PROVE CreateClear'
      <4>0. h \in Handlers /\ op \in [Handlers -> Op] /\ code \in [Codes -> Code]
          BY DEF Handlers, TypeOK
      <4>1. op'[h].to = op[h].to
          BY <3>5, <4>0 DEF Supersede, Continue
      <4>2. op[h].to \in Emails =>
                \A c \in Codes : code'[c].to = op[h].to /\ code'[c].live => code'[c].used
        <5> SUFFICES ASSUME op[h].to \in Emails, NEW c \in Codes, code'[c].to = op[h].to,
                            ~code'[c].used
                     PROVE  ~code'[c].live
            BY <4>0
        <5>1. code[c].to = op[h].to /\ ~code[c].used
            BY <3>1, <3>3
        <5>2. op[h].to \notin Phones
            BY AddressesAssumption
        <5>3. Outdated(c, op[h].to)
            BY <5>1, <5>2 DEF Outdated
        <5>4. code'[c] = [code[c] EXCEPT !.live = FALSE]
            BY <3>5, <5>3 DEF Supersede
        <5> QED BY <4>0, <5>4 DEF Code
      <4> QED BY <4>1, <4>2 DEF CreateClear
    <3>6. ASSUME \A h \in Senders : op'[h].pc = "create" => op'[h] = op[h] PROVE CreateClear'
        BY <3>1, <3>3, <3>6 DEF CreateClear
    <3>7. (\E h \in Senders : Supersede(h)) \/ \A h \in Senders : op'[h].pc = "create" => op'[h] = op[h]
      <4>0. op \in [Handlers -> Op] /\ Senders \subseteq Handlers /\ Callers \subseteq Handlers
            /\ Admins \subseteq Handlers
          BY DEF TypeOK, Handlers
      <4>1. CASE UNCHANGED op
          BY <4>1
      <4>2. ASSUME NEW g \in Handlers, NEW o, op' = [op EXCEPT ![g] = o], o.pc # "create"
            PROVE  \A h \in Senders : op'[h].pc = "create" => op'[h] = op[h]
          BY <4>0, <4>2
      <4>3. ASSUME NEW g \in Senders, SenderStep(g), ~Supersede(g)
            PROVE  \A h \in Senders : op'[h].pc = "create" => op'[h] = op[h]
        <5>1. ASSUME NEW to \in Addresses, StartRead(g, to)
              PROVE  \A h \in Senders : op'[h].pc = "create" => op'[h] = op[h]
          <6>1. op' = [op EXCEPT ![g] = [pc |-> "supersede", to |-> to]]
              BY <5>1 DEF StartRead, Begin
          <6> QED BY <4>0, <4>2, <6>1
        <5>2. ASSUME DeliveryFailed(g)
              PROVE  \A h \in Senders : op'[h].pc = "create" => op'[h] = op[h]
            BY <4>0, <4>2, <5>2 DEF DeliveryFailed, Finish, Idle
        <5> QED BY <2>2, <4>3, <5>1, <5>2 DEF SenderStep
      <4>4. ASSUME NEW g \in Callers, CallerStep(g)
            PROVE  \A h \in Senders : op'[h].pc = "create" => op'[h] = op[h]
          BY <4>0, <4>2, <4>4, CallerMoves
      <4>5. ASSUME NEW g \in Admins, AdminStep(g)
            PROVE  \A h \in Senders : op'[h].pc = "create" => op'[h] = op[h]
        <5>1. CASE RevokeWrite(g)
          <6> DEFINE o == IF op[g].replace THEN [pc |-> "recheck", phone |-> invitation[op[g].i].phone]
                          ELSE Idle
          <6>1. op' = [op EXCEPT ![g] = o] /\ o.pc # "create"
              BY <5>1 DEF RevokeWrite, Continue, Finish, Idle
          <6> HIDE DEF o
          <6> QED BY <4>0, <4>2, <6>1
        <5> QED BY <4>0, <4>2, <4>5, <5>1 DEF AdminStep, InviteRead, InviteReplaced, InviteWrite,
                   RevokeRead, ReplaceEnded, Begin, Continue, Finish, Idle
      <4>6. ASSUME NEW g \in Handlers, Stop(g)
            PROVE  \A h \in Senders : op'[h].pc = "create" => op'[h] = op[h]
          BY <4>2, <4>6 DEF Stop, Finish, Idle
      <4> QED BY <4>1, <4>3, <4>4, <4>5, <4>6 DEF Next, vars, Lapse, validateAccess, InvitationLapses
    <3> QED BY <3>4, <3>5, <3>6, <3>7
  <2> QED BY <2>1, <2>2
<1> QED BY <1>1, <1>2, types, PTL DEF Spec

-----------------------------------------------------------------------------
\* A step that does not create an invitation leaves no number with one it had not.
LEMMA ActiveKept ==
    ASSUME TypeOK, [Next]_vars, \A h \in Admins, j \in Invitations : ~InviteWrite(h, j),
           NEW i \in Invitations
    PROVE  invitation'[i].status = "ISSUED" /\ invitation'[i].live =>
               /\ invitation[i].status = "ISSUED" /\ invitation[i].live
               /\ invitation'[i].phone = invitation[i].phone
<1> DEFINE Fades == invitation'[i].status = "ISSUED" /\ invitation'[i].live =>
                        /\ invitation[i].status = "ISSUED" /\ invitation[i].live
                        /\ invitation'[i].phone = invitation[i].phone
<1>0. invitation \in [Invitations -> Invitation \cup {Unissued}]
    BY DEF TypeOK
<1>1. CASE UNCHANGED invitation
    BY <1>1
<1>2. ASSUME NEW h \in Callers, ExpireWrite(h) PROVE Fades
    BY <1>0, <1>2 DEF ExpireWrite, Invitation, Unissued
<1>3. ASSUME NEW h \in Admins, RevokeWrite(h) PROVE Fades
    BY <1>0, <1>3 DEF RevokeWrite, Invitation, Unissued
<1>4. ASSUME NEW j \in Invitations, InvitationLapses(j) PROVE Fades
    BY <1>0, <1>4 DEF InvitationLapses, Invitation, Unissued
<1>5. ASSUME NEW h \in Callers, NEW mail \in Codes, NEW text \in Codes,
             NEW j \in Invitations \cup {None}, register(h, mail, text, j)
      PROVE  Fades
  <2>1. CASE j = i
    <3>1. invitation[i].status = "ISSUED" \/ i = None
        BY <1>5, <2>1 DEF register, Redeemable, Usable
    <3>2. invitation' = [invitation EXCEPT ![i].status = "REDEEMED", ![i].uses = @ + 1]
        BY <1>5, <2>1, InvitationsAssumption DEF register, redeemInTransaction
    <3>3. invitation[i] \in Invitation
        BY <1>0, <3>1, InvitationsAssumption DEF Unissued
    <3> QED BY <1>0, <3>2, <3>3 DEF Invitation
  <2>2. CASE j # i
      BY <1>0, <1>5, <2>2 DEF register, redeemInTransaction
  <2> QED BY <2>1, <2>2
<1> QED BY <1>1, <1>2, <1>3, <1>4, <1>5
        DEF Next, SenderStep, CallerStep, AdminStep, vars, StartRead, Supersede, Create,
            DeliveryFailed, VerifyRead, VerifyAttempt, VerifyWrite, ExpireRead, RegisterRead,
            InviteRead, InviteReplaced, RevokeRead, ReplaceEnded, Stop, validateAccess, Lapse

\* With one administrator at a time, a number has one invitation it can use, replaced
\* invitations and those that ran out being none.
THEOREM oneInvitation ==
    ASSUME \A g, h \in Admins : g = h
    PROVE  Spec => []OneActiveInvitation
<1> DEFINE Inv == OneActiveInvitation /\ InviteClear
<1>1. Init => Inv
  <2> SUFFICES ASSUME Init PROVE Inv
      OBVIOUS
  <2>1. OneActiveInvitation
      BY DEF Init, OneActiveInvitation, Unissued
  <2>2. InviteClear
      BY DEF Init, InviteClear, Idle, Handlers
  <2> QED BY <2>1, <2>2
<1>2. Inv /\ TypeOK /\ [Next]_vars => Inv'
  <2> SUFFICES ASSUME Inv, TypeOK, [Next]_vars PROVE Inv'
      OBVIOUS
  <2>0. /\ op \in [Handlers -> Op] /\ invitation \in [Invitations -> Invitation \cup {Unissued}]
        /\ Senders \subseteq Handlers /\ Callers \subseteq Handlers /\ Admins \subseteq Handlers
      BY DEF TypeOK, Handlers
  <2>1. ASSUME NEW h \in Admins, NEW j \in Invitations, InviteWrite(h, j) PROVE Inv'
    <3>1. PICK p : p = op[h].phone
        OBVIOUS
    <3> DEFINE new == [status |-> "ISSUED", phone |-> p, live |-> TRUE, uses |-> 0]
    <3>2. invitation' = [invitation EXCEPT ![j] = new] /\ op[h].pc = "invite"
        BY <2>1, <3>1 DEF InviteWrite
    <3>3. new.phone = p
        OBVIOUS
    <3> HIDE DEF new
    <3>4. invitation'[j].phone = p /\ \A i \in Invitations : i # j => invitation'[i] = invitation[i]
        BY <2>0, <3>2, <3>3
    <3>5. \A i \in Invitations :
              invitation[i].status = "ISSUED" /\ invitation[i].live => invitation[i].phone # p
        BY <3>1, <3>2 DEF InviteClear, Invitable
    <3>6. OneActiveInvitation'
        BY <3>4, <3>5 DEF OneActiveInvitation
    <3>7. op'[h].pc # "invite"
        BY <2>0, <2>1 DEF InviteWrite, Finish, Idle
    <3>8. InviteClear'
        BY <3>7 DEF InviteClear
    <3> QED BY <3>6, <3>8
  <2>2. CASE \A h \in Admins, j \in Invitations : ~InviteWrite(h, j)
    <3>1. \A i \in Invitations :
              invitation'[i].status = "ISSUED" /\ invitation'[i].live =>
                  /\ invitation[i].status = "ISSUED" /\ invitation[i].live
                  /\ invitation'[i].phone = invitation[i].phone
        BY <2>2, ActiveKept
    <3>2. OneActiveInvitation'
        BY <3>1 DEF OneActiveInvitation
    <3>3. \A p : Invitable(p) => Invitable(p)'
        BY <3>1 DEF Invitable
    <3>4. ASSUME NEW h \in Admins, NEW p \in Phones, InviteRead(h, p) PROVE InviteClear'
      <4>1. op'[h].phone = p /\ Invitable(p)
          BY <2>0, <3>4 DEF InviteRead, Begin
      <4> QED BY <3>3, <4>1 DEF InviteClear
    <3>5. ASSUME NEW h \in Admins, InviteReplaced(h) PROVE InviteClear'
      <4>1. op'[h].phone = op[h].phone /\ Invitable(op[h].phone)
          BY <2>0, <3>5 DEF InviteReplaced, Continue
      <4> QED BY <3>3, <4>1 DEF InviteClear
    <3>6. ASSUME \A h \in Admins : op'[h].pc = "invite" => op'[h] = op[h] PROVE InviteClear'
        BY <3>3, <3>6 DEF InviteClear
    <3>7. \/ \E h \in Admins : InviteReplaced(h) \/ \E p \in Phones : InviteRead(h, p)
          \/ \A h \in Admins : op'[h].pc = "invite" => op'[h] = op[h]
      <4>1. CASE UNCHANGED op
          BY <4>1
      <4>2. ASSUME NEW g \in Handlers, NEW o, op' = [op EXCEPT ![g] = o], o.pc # "invite"
            PROVE  \A h \in Admins : op'[h].pc = "invite" => op'[h] = op[h]
          BY <2>0, <4>2
      <4>3. ASSUME NEW g \in Senders, SenderStep(g)
            PROVE  \A h \in Admins : op'[h].pc = "invite" => op'[h] = op[h]
        <5>1. ASSUME NEW c \in Codes, Create(g, c)
              PROVE  \A h \in Admins : op'[h].pc = "invite" => op'[h] = op[h]
          <6> DEFINE o == IF op[g].to \in Emails THEN [pc |-> "deliver", c |-> c] ELSE Idle
          <6>1. op' = [op EXCEPT ![g] = o] /\ o.pc # "invite"
              BY <5>1 DEF Create, Continue, Finish, Idle
          <6> HIDE DEF o
          <6> QED BY <2>0, <4>2, <6>1
        <5>2. ASSUME NEW to \in Addresses, StartRead(g, to)
              PROVE  \A h \in Admins : op'[h].pc = "invite" => op'[h] = op[h]
            BY <2>0, <4>2, <5>2 DEF StartRead, Begin
        <5>3. ASSUME Supersede(g) \/ DeliveryFailed(g)
              PROVE  \A h \in Admins : op'[h].pc = "invite" => op'[h] = op[h]
            BY <2>0, <4>2, <5>3 DEF Supersede, DeliveryFailed, Continue, Finish, Idle
        <5> QED BY <4>3, <5>1, <5>2, <5>3 DEF SenderStep
      <4>4. ASSUME NEW g \in Callers, CallerStep(g)
            PROVE  \A h \in Admins : op'[h].pc = "invite" => op'[h] = op[h]
          BY <2>0, <4>2, <4>4, CallerMoves
      <4>5. ASSUME NEW g \in Admins, RevokeWrite(g)
            PROVE  \A h \in Admins : op'[h].pc = "invite" => op'[h] = op[h]
        <5> DEFINE o == IF op[g].replace THEN [pc |-> "recheck", phone |-> invitation[op[g].i].phone]
                        ELSE Idle
        <5>1. op' = [op EXCEPT ![g] = o] /\ o.pc # "invite"
            BY <4>5 DEF RevokeWrite, Continue, Finish, Idle
        <5> HIDE DEF o
        <5> QED BY <2>0, <4>2, <5>1
      <4>6. ASSUME NEW g \in Admins, NEW i \in Invitations,
                   ReplaceEnded(g, i) \/ \E r \in BOOLEAN : RevokeRead(g, i, r)
            PROVE  \A h \in Admins : op'[h].pc = "invite" => op'[h] = op[h]
        <5>1. ASSUME ReplaceEnded(g, i)
              PROVE  \A h \in Admins : op'[h].pc = "invite" => op'[h] = op[h]
          <6>1. op' = [op EXCEPT ![g] = [pc |-> "recheck", phone |-> invitation[i].phone]]
              BY <5>1 DEF ReplaceEnded, Begin
          <6> QED BY <2>0, <4>2, <6>1
        <5>2. ASSUME NEW r \in BOOLEAN, RevokeRead(g, i, r)
              PROVE  \A h \in Admins : op'[h].pc = "invite" => op'[h] = op[h]
          <6>1. op' = [op EXCEPT ![g] = [pc |-> "revoke", i |-> i, replace |-> r]]
              BY <5>2 DEF RevokeRead, Begin
          <6> QED BY <2>0, <4>2, <6>1
        <5> QED BY <4>6, <5>1, <5>2
      <4>7. ASSUME NEW g \in Handlers, Stop(g)
            PROVE  \A h \in Admins : op'[h].pc = "invite" => op'[h] = op[h]
          BY <4>2, <4>7 DEF Stop, Finish, Idle
      <4> QED BY <2>2, <4>1, <4>3, <4>4, <4>5, <4>6, <4>7
              DEF Next, AdminStep, vars, Lapse, validateAccess, InvitationLapses
    <3> QED BY <3>2, <3>4, <3>5, <3>6, <3>7
  <2> QED BY <2>1, <2>2
<1> QED BY <1>1, <1>2, types, PTL DEF Spec
=============================================================================
