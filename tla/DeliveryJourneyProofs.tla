------------------------ MODULE DeliveryJourneyProofs ------------------------
(***************************************************************************)
(* Proofs about one order, for every set of requests, proofs, totals,      *)
(* amounts and fees, owners, customers and payment handlers.  First the    *)
(* ledger by itself (SaleLedger): IndInv is inductive, and but for stale   *)
(* reviews the handlers implement PaymentLedger.  Then the journey over it *)
(* (DeliveryJourney): JourneyInv is inductive, and beside it the part of   *)
(* the ledger's invariant that is about money only.  Last, when only an    *)
(* unpaid order is canceled and only a paid one confirmed, and what of the *)
(* atomic ledger the composition keeps.                                    *)
(***************************************************************************)
EXTENDS DeliveryJourney, TLAPS

-----------------------------------------------------------------------------
(* The ledger                                                              *)


\* A balance and a total are never below zero, so neither is their status.
LEMMA StatusType ==
    ASSUME NEW paid \in Nat, NEW due \in Nat
    PROVE  statusFromAmounts(paid, due) \in PaymentStatus
BY DEF statusFromAmounts, PaymentStatus

\* class-validator and the handlers refuse an amount of nothing.
LEMMA AmountsPositive == \A a \in Amounts : a \in Nat /\ a > 0
BY AmountsAssumption

LEMMA IdleRequest == Idle \in Request
BY DEF Idle, Request

LEMMA InitIndInv == Init => IndInv
<1> SUFFICES ASSUME Init PROVE IndInv
  OBVIOUS
<1>1. total \in Nat /\ amountPaid \in Nat /\ amountPaid <= total
  BY AmountsAssumption DEF Init
<1>2. TypeOK
  BY <1>1, StatusType, IdleRequest DEF Init, TypeOK, DeliveryStatus, ProofStatus
<1>3. SnapshotsSound
  BY <1>1 DEF Init, SnapshotsSound, Idle
<1>4. BalanceInRange /\ ProofEnteredOnce /\ LockedMeansUnpaid
  BY <1>1 DEF Init, BalanceInRange, ProofEnteredOnce, LockedMeansUnpaid
<1>6. ProofsClaim
  BY DEF Init, ProofsClaim
<1>7. TransferOnly
  BY DEF Init, TransferOnly, Idle, ProofCall
<1>5. UnpaidMeansNoMoney
  BY <1>1 DEF Init, UnpaidMeansNoMoney, statusFromAmounts
<1> QED
  BY <1>2, <1>3, <1>4, <1>5, <1>6, <1>7 DEF IndInv, MoneyInv

-----------------------------------------------------------------------------
(* One lemma per action: it keeps the inductive invariant.                 *)

\* A handler that only takes a snapshot of a sale it may go on with.
LEMMA BeginKeeps ==
    ASSUME MoneyInv, NEW r \in Requests, NEW snap \in Request, Begin(r, snap),
           snap.total = total,
           snap.op \in {"payment", "verify"} =>
               snap.amount > 0 /\ snap.paid + snap.amount <= snap.total,
           snap.op = "refund" => snap.amount > 0 /\ snap.amount <= snap.paid,
           snap.op \in {"payment", "refund", "submit", "verify"} => snap.amount \in Amounts,
           snap.op \in {"verify", "reject"} => snap.proof \in Proofs
    PROVE  MoneyInv'
<1>1. TypeOK'
  BY DEF MoneyInv, Begin, TypeOK, saleVars, entryVars, proofVars
<1>2. SnapshotsSound'
  BY DEF MoneyInv, Begin, TypeOK, SnapshotsSound, saleVars, entryVars, proofVars
<1>3. BalanceInRange' /\ ProofEnteredOnce' /\ ProofsClaim' /\ UnpaidMeansNoMoney'
  BY DEF MoneyInv, Begin, BalanceInRange, ProofEnteredOnce, ProofsClaim,
         UnpaidMeansNoMoney, saleVars, entryVars, proofVars
<1> QED
  BY <1>1, <1>2, <1>3 DEF MoneyInv

\* A handler that ends leaves the other snapshots as they were.
LEMMA EndKeeps ==
    ASSUME TypeOK, SnapshotsSound, NEW r \in Requests, End(r), UNCHANGED <<total, rentalReturned>>
    PROVE  req' \in [Requests -> Request] /\ SnapshotsSound'
<1>1. req' \in [Requests -> Request]
  BY IdleRequest DEF End, TypeOK
<1>2. ASSUME NEW q \in Requests
      PROVE  /\ req'[q].total <= total'
             /\ ~rentalReturned' /\ req'[q].op # "idle" => req'[q].total = total'
             /\ req'[q].op \in {"payment", "verify"} =>
                    req'[q].amount > 0 /\ req'[q].paid + req'[q].amount <= req'[q].total
             /\ req'[q].op = "refund" => req'[q].amount > 0 /\ req'[q].amount <= req'[q].paid
             /\ req'[q].op \in {"payment", "refund", "submit", "verify"} => req'[q].amount \in Amounts
             /\ req'[q].op \in {"verify", "reject"} => req'[q].proof \in Proofs
  <2>1. CASE q = r
    BY <2>1 DEF End, TypeOK, Idle
  <2>2. CASE q # r
    <3>1. req'[q] = req[q]
      BY <2>2 DEF End, TypeOK
    <3>2. req[q].total \in Nat /\ total \in Nat /\ req[q].total <= total
      BY DEF TypeOK, SnapshotsSound, Request
    <3> QED
      BY <3>1, <3>2 DEF SnapshotsSound
  <2> QED
    BY <2>1, <2>2
<1> QED
  BY <1>1, <1>2 DEF SnapshotsSound

LEMMA RefuseKeeps ==
    ASSUME MoneyInv, NEW r \in Requests, Refuse(r)
    PROVE  MoneyInv'
<1>1. UNCHANGED <<total, rentalReturned>>
  BY DEF Refuse, saleVars
<1>2. req' \in [Requests -> Request] /\ SnapshotsSound'
  BY <1>1, EndKeeps DEF MoneyInv, Refuse
<1> QED
  BY <1>2 DEF MoneyInv, Refuse, TypeOK, BalanceInRange, ProofEnteredOnce, ProofsClaim,
              UnpaidMeansNoMoney, saleVars, entryVars, proofVars

LEMMA RecordPaymentCommitKeeps ==
    ASSUME MoneyInv, NEW r \in Requests, RecordPaymentCommit(r)
    PROVE  MoneyInv'
<1> DEFINE refund == req[r].op = "refund"
           nextPaid == IF refund THEN req[r].paid - req[r].amount
                                 ELSE req[r].paid + req[r].amount
<1>1. /\ req[r] \in Request /\ amountPaid = req[r].paid /\ total = req[r].total
      /\ total' = total
  BY DEF MoneyInv, TypeOK, RecordPaymentCommit, SnapshotCurrent
<1>2. /\ nextPaid \in Nat /\ nextPaid <= total
      /\ ~refund => nextPaid > 0
  <2>1. /\ req[r].op = "payment" =>
               req[r].amount > 0 /\ req[r].paid + req[r].amount <= req[r].total
        /\ req[r].op = "refund" => req[r].amount > 0 /\ req[r].amount <= req[r].paid
    BY DEF MoneyInv, SnapshotsSound
  <2>2. req[r].op \in {"payment", "refund"}
    BY DEF RecordPaymentCommit
  <2>3. req[r].amount \in Nat /\ req[r].paid \in Nat
    BY <1>1 DEF Request
  <2>4. req[r].paid <= total /\ total \in Nat
    BY <1>1 DEF MoneyInv, TypeOK, BalanceInRange
  <2> QED
    BY <1>1, <2>1, <2>2, <2>3, <2>4
<1>3. amountPaid' = nextPaid
  BY DEF RecordPaymentCommit
<1>4. req' \in [Requests -> Request] /\ SnapshotsSound'
  BY <1>1, EndKeeps DEF MoneyInv, TypeOK, RecordPaymentCommit
<1>5. paymentStatus' = IF refund /\ nextPaid = 0 THEN "REFUNDED"
                       ELSE statusFromAmounts(nextPaid, total)
  BY <1>1 DEF RecordPaymentCommit
<1>6. paymentStatus' \in PaymentStatus /\ UnpaidMeansNoMoney'
  BY <1>1, <1>2, <1>3, <1>5 DEF UnpaidMeansNoMoney, statusFromAmounts, PaymentStatus,
     MoneyInv, TypeOK
<1>7. paidIn' \in Nat /\ paidOut' \in Nat
  BY <1>1 DEF MoneyInv, TypeOK, RecordPaymentCommit, Request
<1>8. delivery' \in DeliveryStatus \cup {"NONE"}
  <2>1. CASE refund
    BY <2>1, <1>1, <1>2, <1>3 DEF MoneyInv, TypeOK, RecordPaymentCommit, Request, UnlockAfter
  <2>2. CASE ~refund
    BY <2>2 DEF MoneyInv, TypeOK, RecordPaymentCommit, UnlockAfter, UnlockDelivery,
                DeliveryStatus
  <2> QED
    BY <2>1, <2>2
<1>9. UNCHANGED <<entries, bankTransfer, proofStatus, proofAmount, noticed, rentalReturned>>
  BY DEF RecordPaymentCommit, proofVars
<1>10. TypeOK'
  BY <1>1, <1>2, <1>3, <1>4, <1>6, <1>7, <1>8, <1>9 DEF MoneyInv, TypeOK
<1>11. BalanceInRange' /\ ProofEnteredOnce' /\ ProofsClaim'
  BY <1>1, <1>2, <1>3, <1>9 DEF MoneyInv, BalanceInRange, ProofEnteredOnce, ProofsClaim
<1> QED
  BY <1>4, <1>6, <1>8, <1>10, <1>11 DEF MoneyInv

LEMMA SubmitProofCreateKeeps ==
    ASSUME MoneyInv, NEW r \in Requests, NEW p \in Proofs, SubmitProofCreate(r, p)
    PROVE  MoneyInv'
<1>1. req[r] \in Request /\ total' = total /\ total \in Nat
  BY DEF MoneyInv, TypeOK, SubmitProofCreate, saleVars
<1>2. req' \in [Requests -> Request] /\ SnapshotsSound'
  BY <1>1, EndKeeps DEF MoneyInv, SubmitProofCreate
<1>3. proofStatus' \in [Proofs -> ProofStatus] /\ proofAmount' \in [Proofs -> Nat]
  BY <1>1 DEF MoneyInv, TypeOK, SubmitProofCreate, ProofStatus, Request
<1>4. TypeOK'
  BY <1>2, <1>3 DEF MoneyInv, TypeOK, SubmitProofCreate, saleVars, entryVars
<1>5. ProofEnteredOnce' /\ ProofsClaim'
  <2>1. req[r].amount \in Amounts
    BY DEF MoneyInv, SnapshotsSound, SubmitProofCreate
  <2> QED
    BY <2>1 DEF MoneyInv, TypeOK, ProofEnteredOnce, ProofsClaim, SubmitProofCreate, entryVars
<1>6. BalanceInRange' /\ UnpaidMeansNoMoney'
  BY DEF MoneyInv, SubmitProofCreate, BalanceInRange, UnpaidMeansNoMoney, saleVars
<1> QED
  BY <1>2, <1>4, <1>5, <1>6 DEF MoneyInv

\* reviewProof writes a balance computed from an old snapshot: it stays in range
\* because that snapshot left room for the amount and a total never shrinks.
LEMMA VerifyCommitKeeps ==
    ASSUME MoneyInv, NEW r \in Requests, VerifyCommit(r)
    PROVE  MoneyInv'
<1> DEFINE p == req[r].proof
           nextPaid == req[r].paid + req[r].amount
<1>1. req[r] \in Request /\ req[r].op = "verify" /\ total' = total /\ total \in Nat
  BY DEF MoneyInv, TypeOK, VerifyCommit
<1>2. /\ req[r].amount > 0 /\ nextPaid <= req[r].total
      /\ req[r].total <= total /\ p \in Proofs
  BY <1>1 DEF MoneyInv, SnapshotsSound
<1>3. req[r].amount \in Nat /\ req[r].paid \in Nat /\ req[r].total \in Nat
  BY <1>1 DEF Request
<1>4. nextPaid \in Nat /\ nextPaid > 0 /\ nextPaid <= total
  BY <1>1, <1>2, <1>3
<1>5. amountPaid' = nextPaid /\ paymentStatus' = statusFromAmounts(nextPaid, req[r].total)
  BY DEF VerifyCommit
<1>6. req' \in [Requests -> Request] /\ SnapshotsSound'
  BY <1>1, EndKeeps DEF MoneyInv, VerifyCommit
<1>7. paymentStatus' \in PaymentStatus /\ UnpaidMeansNoMoney'
  BY <1>3, <1>4, <1>5 DEF UnpaidMeansNoMoney, statusFromAmounts, PaymentStatus
<1>8. delivery' \in DeliveryStatus \cup {"NONE"}
  BY DEF MoneyInv, TypeOK, VerifyCommit, UnlockDelivery, DeliveryStatus
<1>9. /\ entries' = [entries EXCEPT ![p] = @ + 1] /\ entries[p] = 0
      /\ proofStatus' = [proofStatus EXCEPT ![p] = "VERIFIED"]
      /\ paidIn' = paidIn + req[r].amount
      /\ UNCHANGED <<paidOut, bankTransfer, proofAmount, noticed, rentalReturned>>
  BY DEF VerifyCommit, EntryFree
<1>10. ProofEnteredOnce' /\ ProofsClaim'
  BY <1>2, <1>9 DEF MoneyInv, TypeOK, ProofEnteredOnce, ProofsClaim
<1>11. entries' \in [Proofs -> Nat] /\ proofStatus' \in [Proofs -> ProofStatus] /\ paidIn' \in Nat
  BY <1>2, <1>3, <1>9 DEF MoneyInv, TypeOK, ProofStatus
<1>12. TypeOK'
  BY <1>1, <1>4, <1>5, <1>6, <1>7, <1>8, <1>9, <1>11 DEF MoneyInv, TypeOK
<1>13. BalanceInRange'
  BY <1>1, <1>4, <1>5 DEF BalanceInRange
<1> QED
  BY <1>6, <1>7, <1>8, <1>10, <1>12, <1>13 DEF MoneyInv

LEMMA RejectCommitKeeps ==
    ASSUME MoneyInv, NEW r \in Requests, RejectCommit(r)
    PROVE  MoneyInv'
<1> DEFINE p == req[r].proof
<1>1. total' = total /\ total \in Nat
  BY DEF MoneyInv, TypeOK, RejectCommit, saleVars
<1>2. p \in Proofs
  BY DEF MoneyInv, SnapshotsSound, RejectCommit
<1>3. req' \in [Requests -> Request] /\ SnapshotsSound'
  BY <1>1, EndKeeps DEF MoneyInv, RejectCommit
<1>4. proofStatus' \in [Proofs -> ProofStatus] /\ noticed' \subseteq Proofs
  BY <1>2 DEF MoneyInv, TypeOK, RejectCommit, ProofStatus
<1>5. TypeOK'
  BY <1>3, <1>4 DEF MoneyInv, TypeOK, RejectCommit, saleVars, entryVars
<1>6. ProofEnteredOnce' /\ ProofsClaim'
  BY <1>2 DEF MoneyInv, TypeOK, ProofEnteredOnce, ProofsClaim, RejectCommit, entryVars
<1>7. BalanceInRange' /\ UnpaidMeansNoMoney'
  BY DEF MoneyInv, RejectCommit, BalanceInRange, UnpaidMeansNoMoney, saleVars
<1> QED
  BY <1>3, <1>5, <1>6, <1>7 DEF MoneyInv

\* A late fee raises the total, so every snapshot stays within it.
LEMMA ReturnRentalKeeps ==
    ASSUME MoneyInv, NEW fee \in Fees, ReturnRental(fee)
    PROVE  MoneyInv'
<1>1. /\ fee \in Nat /\ total \in Nat /\ amountPaid \in Nat /\ total' = total + fee
      /\ UNCHANGED <<amountPaid, entryVars, proofVars, delivery, req>>
  BY AmountsAssumption DEF MoneyInv, TypeOK, ReturnRental
<1>2. total' \in Nat /\ total <= total'
  BY <1>1
<1>3. paymentStatus' \in PaymentStatus /\ UnpaidMeansNoMoney'
  BY <1>1 DEF MoneyInv, TypeOK, UnpaidMeansNoMoney, ReturnRental, StatusAfterFee, PaymentStatus
<1>4. TypeOK'
  BY <1>1, <1>2, <1>3 DEF MoneyInv, TypeOK, ReturnRental, entryVars, proofVars
<1>5. SnapshotsSound'
  <2>1. \A q \in Requests : req[q].total \in Nat
    BY DEF MoneyInv, TypeOK, Request
  <2> QED
    BY <1>1, <1>2, <2>1 DEF MoneyInv, SnapshotsSound, ReturnRental
<1>6. BalanceInRange' /\ ProofEnteredOnce' /\ ProofsClaim'
  BY <1>1, <1>2 DEF MoneyInv, BalanceInRange, ProofEnteredOnce, ProofsClaim, entryVars, proofVars
<1> QED
  BY <1>3, <1>4, <1>5, <1>6 DEF MoneyInv

-----------------------------------------------------------------------------
\* The snapshots the read steps take: what each refused before keeping it.
LEMMA SnapshotType ==
    ASSUME TypeOK, NEW op \in {"payment", "refund", "submit", "verify", "reject"},
           NEW amount \in Nat, NEW p \in Proofs \cup {NoProof}
    PROVE  Snapshot(op, amount, p) \in Request
BY DEF Snapshot, Request, TypeOK

LEMMA RecordPaymentReadKeeps ==
    ASSUME MoneyInv, NEW r \in Requests, NEW type \in {"payment", "refund"},
           NEW amount \in Amounts, RecordPaymentRead(r, type, amount)
    PROVE  MoneyInv'
<1> DEFINE snap == Snapshot(type, amount, NoProof)
<1>1. amount \in Nat /\ amount > 0 /\ total \in Nat /\ amountPaid \in Nat
  BY AmountsAssumption DEF MoneyInv, TypeOK
<1>2. snap \in Request
  BY <1>1, SnapshotType DEF MoneyInv
<1>3. /\ snap.op = type /\ snap.amount = amount /\ snap.paid = amountPaid
      /\ snap.total = total
  BY DEF Snapshot
<1>4. Begin(r, snap)
  BY DEF RecordPaymentRead
<1>5. IF type = "refund" THEN amount <= amountPaid ELSE amountPaid + amount <= total
  BY DEF RecordPaymentRead, RefundFits, FitsBalance
<1> HIDE DEF snap
<1> QED
  BY <1>1, <1>2, <1>3, <1>4, <1>5, BeginKeeps

LEMMA SubmitProofReadKeeps ==
    ASSUME MoneyInv, NEW r \in Requests, NEW amount \in Amounts, SubmitProofRead(r, amount)
    PROVE  MoneyInv'
<1> DEFINE snap == Snapshot("submit", amount, NoProof)
<1>1. amount \in Nat /\ amount > 0 /\ total \in Nat
  BY AmountsAssumption DEF MoneyInv, TypeOK
<1>2. snap \in Request
  BY <1>1, SnapshotType DEF MoneyInv
<1>3. snap.op = "submit" /\ snap.amount = amount /\ snap.total = total
  BY DEF Snapshot
<1>4. Begin(r, snap)
  BY DEF SubmitProofRead
<1> HIDE DEF snap
<1> QED
  BY <1>1, <1>2, <1>3, <1>4, BeginKeeps

LEMMA ReviewReadKeeps ==
    ASSUME MoneyInv, NEW r \in Requests, NEW p \in Proofs, NEW decision \in {"verify", "reject"},
           ReviewRead(r, p, decision)
    PROVE  MoneyInv'
<1> DEFINE snap == Snapshot(decision, proofAmount[p], p)
<1>1. proofAmount[p] \in Nat /\ total \in Nat /\ amountPaid \in Nat
  BY DEF MoneyInv, TypeOK
<1>2. snap \in Request
  BY <1>1, SnapshotType DEF MoneyInv
<1>3. /\ snap.op = decision /\ snap.amount = proofAmount[p] /\ snap.paid = amountPaid
      /\ snap.total = total /\ snap.proof = p
  BY DEF Snapshot
<1>4. Begin(r, snap)
  BY DEF ReviewRead
<1>5. decision = "verify" => amountPaid + proofAmount[p] <= total
  BY DEF ReviewRead, FitsBalance
<1>6. proofAmount[p] \in Amounts /\ proofAmount[p] > 0
  BY AmountsPositive DEF ReviewRead, MoneyInv, ProofsClaim
<1> HIDE DEF snap
<1> QED
  BY <1>1, <1>2, <1>3, <1>4, <1>5, <1>6, BeginKeeps

-----------------------------------------------------------------------------
LEMMA NextKeepsMoney == MoneyInv /\ [Next]_vars => MoneyInv'
<1> SUFFICES ASSUME MoneyInv, [Next]_vars PROVE MoneyInv'
  OBVIOUS
<1>1. ASSUME NEW r \in Requests, NEW type \in {"payment", "refund"}, NEW amount \in Amounts,
             RecordPaymentRead(r, type, amount)
      PROVE  MoneyInv'
  BY <1>1, RecordPaymentReadKeeps
<1>2. ASSUME NEW r \in Requests, RecordPaymentCommit(r) PROVE MoneyInv'
  BY <1>2, RecordPaymentCommitKeeps
<1>3. ASSUME NEW r \in Requests,
             RecordPaymentConflict(r) \/ VerifyConflict(r) \/ RejectConflict(r)
      PROVE  MoneyInv'
  BY <1>3, RefuseKeeps DEF RecordPaymentConflict, VerifyConflict, RejectConflict
<1>4. ASSUME NEW r \in Requests, NEW amount \in Amounts, SubmitProofRead(r, amount)
      PROVE  MoneyInv'
  BY <1>4, SubmitProofReadKeeps
<1>5. ASSUME NEW r \in Requests, NEW p \in Proofs, SubmitProofCreate(r, p) PROVE MoneyInv'
  BY <1>5, SubmitProofCreateKeeps
<1>6. ASSUME NEW r \in Requests, NEW p \in Proofs, NEW decision \in {"verify", "reject"},
             ReviewRead(r, p, decision)
      PROVE  MoneyInv'
  BY <1>6, ReviewReadKeeps
<1>7. ASSUME NEW r \in Requests, VerifyCommit(r) PROVE MoneyInv'
  BY <1>7, VerifyCommitKeeps
<1>8. ASSUME NEW r \in Requests, RejectCommit(r) PROVE MoneyInv'
  BY <1>8, RejectCommitKeeps
<1>9. ASSUME NEW fee \in Fees, ReturnRental(fee) PROVE MoneyInv'
  BY <1>9, ReturnRentalKeeps
<1>10. CASE UNCHANGED vars
  BY <1>10 DEF vars, saleVars, entryVars, proofVars, MoneyInv, TypeOK, SnapshotsSound, ProofsClaim,
               BalanceInRange, ProofEnteredOnce, UnpaidMeansNoMoney
<1> QED
  BY <1>1, <1>2, <1>3, <1>4, <1>5, <1>6, <1>7, <1>8, <1>9, <1>10 DEF Next, HandlerStep

\* How a sale is paid is settled when it is made.
LEMMA TransferFixed == [Next]_vars => bankTransfer' = bankTransfer
BY DEF Next, HandlerStep, Begin, Refuse, RecordPaymentRead, RecordPaymentCommit,
   RecordPaymentConflict, SubmitProofRead, SubmitProofCreate, ReviewRead, VerifyCommit,
   VerifyConflict, RejectCommit, RejectConflict, ReturnRental, vars, proofVars

\* Every writer of money unlocks in the same transaction, and a refund leaves
\* some or finds the order unlocked.
LEMMA LockedKeeps ==
    ASSUME IndInv, [Next]_vars
    PROVE  LockedMeansUnpaid'
<1>1. CASE UNCHANGED <<delivery, amountPaid>>
  BY <1>1, TransferFixed DEF IndInv, LockedMeansUnpaid
<1>2. ASSUME NEW r \in Requests, RecordPaymentCommit(r) PROVE LockedMeansUnpaid'
  <2>1. CASE req[r].op = "payment"
    BY <1>2, <2>1 DEF RecordPaymentCommit, UnlockAfter, UnlockDelivery, LockedMeansUnpaid
  <2>2. CASE req[r].op = "refund"
    <3>1. req[r].amount > 0 /\ req[r].amount <= amountPaid /\ req[r].amount \in Nat
      BY <1>2, <2>2 DEF IndInv, MoneyInv, TypeOK, Request, SnapshotsSound, RecordPaymentCommit,
         SnapshotCurrent
    <3>2. delivery # "AWAITING_PAYMENT" /\ delivery' = delivery
      BY <1>2, <2>2, <3>1 DEF IndInv, LockedMeansUnpaid, RecordPaymentCommit, UnlockAfter
    <3> QED
      BY <3>2 DEF LockedMeansUnpaid
  <2> QED
    BY <1>2, <2>1, <2>2 DEF RecordPaymentCommit
<1>3. ASSUME NEW r \in Requests, VerifyCommit(r) PROVE LockedMeansUnpaid'
  BY <1>3 DEF VerifyCommit, UnlockDelivery, LockedMeansUnpaid
<1> QED
  BY <1>1, <1>2, <1>3 DEF Next, HandlerStep, Begin, Refuse, RecordPaymentRead, RecordPaymentConflict,
     SubmitProofRead, SubmitProofCreate, ReviewRead, VerifyConflict, RejectCommit,
     RejectConflict, ReturnRental, vars, saleVars

\* Without a transfer nobody submits a proof, so nobody reviews one.
LEMMA TransferKeeps ==
    ASSUME TypeOK, TransferOnly, [Next]_vars
    PROVE  TransferOnly'
<1> SUFFICES ASSUME ~bankTransfer
             PROVE  /\ \A p \in Proofs : proofStatus'[p] = "NONE"
                    /\ \A r \in Requests : req'[r].op \notin ProofCall
  BY TransferFixed DEF TransferOnly
<1>1. /\ \A p \in Proofs : proofStatus[p] = "NONE"
      /\ \A r \in Requests : req[r].op \notin ProofCall
  BY DEF TransferOnly
<1>2. Idle.op \notin ProofCall
  BY DEF Idle, ProofCall
<1>3. ASSUME NEW r \in Requests PROVE ~VerifyCommit(r) /\ ~RejectCommit(r) /\ ~VerifyConflict(r)
                                     /\ ~RejectConflict(r)
  BY <1>1 DEF ProofCall, VerifyCommit, RejectCommit, VerifyConflict, RejectConflict
<1>4. ASSUME NEW r \in Requests, NEW p \in Proofs PROVE ~SubmitProofCreate(r, p)
  BY <1>1 DEF ProofCall, SubmitProofCreate
<1>5. ASSUME NEW r \in Requests, NEW p \in Proofs, NEW decision \in {"verify", "reject"}
      PROVE  ~ReviewRead(r, p, decision)
  BY <1>1 DEF ReviewRead
<1>6. ASSUME NEW r \in Requests, NEW amount \in Amounts PROVE ~SubmitProofRead(r, amount)
  BY DEF SubmitProofRead
<1>7. ASSUME NEW r \in Requests, NEW type \in {"payment", "refund"}, NEW amount \in Amounts,
             RecordPaymentRead(r, type, amount)
      PROVE  /\ proofStatus' = proofStatus
             /\ req' = [req EXCEPT ![r] = Snapshot(type, amount, NoProof)]
             /\ Snapshot(type, amount, NoProof).op \notin ProofCall
  BY <1>7 DEF RecordPaymentRead, Begin, proofVars, Snapshot, ProofCall
<1>8. ASSUME NEW r \in Requests, RecordPaymentCommit(r) \/ RecordPaymentConflict(r)
      PROVE  proofStatus' = proofStatus /\ req' = [req EXCEPT ![r] = Idle]
  BY <1>8 DEF RecordPaymentCommit, RecordPaymentConflict, Refuse, End, proofVars
<1>9. CASE UNCHANGED <<proofVars, req>>
  BY <1>1, <1>9 DEF proofVars
<1> QED
  BY <1>1, <1>2, <1>3, <1>4, <1>5, <1>6, <1>7, <1>8, <1>9 DEF TypeOK, Next, HandlerStep,
     ReturnRental, vars

LEMMA NextKeepsIndInv == IndInv /\ [Next]_vars => IndInv'
<1>1. IndInv => TypeOK
  BY DEF IndInv, MoneyInv
<1> QED
  BY <1>1, NextKeepsMoney, TransferKeeps, LockedKeeps DEF IndInv

\* The inductive invariant holds of every reachable state.
THEOREM Invariance == Spec => []IndInv
BY InitIndInv, NextKeepsIndInv, PTL DEF Spec

\* Every reachable state of the ledger is well typed.
THEOREM TypeCorrect == Spec => []TypeOK
<1>1. IndInv => TypeOK
  BY DEF IndInv, MoneyInv
<1> QED
  BY Invariance, <1>1, PTL

\* reviewProof and recordPayment never take the balance past the order's total,
\* in spite of reviewProof's unconditional write.
THEOREM BalanceStaysInRange == Spec => []BalanceInRange
<1>1. IndInv => BalanceInRange
  BY DEF IndInv, MoneyInv
<1> QED
  BY Invariance, <1>1, PTL

\* Concurrent reviews enter a transfer proof in the ledger once at most.
THEOREM ProofsEnteredOnce == Spec => []ProofEnteredOnce
<1>1. IndInv => ProofEnteredOnce
  BY DEF IndInv, MoneyInv
<1> QED
  BY Invariance, <1>1, PTL

\* Only a transfer order with no money recorded is left waiting for payment, and
\* an order is UNPAID or REFUNDED exactly when no money is recorded.
THEOREM PaidOrdersUnlocked == Spec => [](LockedMeansUnpaid /\ UnpaidMeansNoMoney)
<1>1. IndInv => LockedMeansUnpaid /\ UnpaidMeansNoMoney
  BY DEF IndInv, MoneyInv
<1> QED
  BY Invariance, <1>1, PTL

-----------------------------------------------------------------------------
\* The compare-and-swap of recordPayment loses no other handler's entry: every
\* step that enters no proof moves the balance with the ledger.
THEOREM OwnerEntriesMoveBalance == Spec => OwnerEntryMovesBalance
<1> DEFINE Exact == entries' = entries =>
                        amountPaid' + paidOut' + paidIn = amountPaid + paidOut + paidIn'
<1>1. ASSUME IndInv, [Next]_vars PROVE [Exact]_vars
  <2>1. amountPaid \in Nat /\ paidIn \in Nat /\ paidOut \in Nat
    BY <1>1 DEF IndInv, MoneyInv, TypeOK
  <2>2. ASSUME NEW r \in Requests, RecordPaymentCommit(r) PROVE Exact
    <3>1. req[r].paid = amountPaid /\ req[r].amount \in Nat
      BY <1>1, <2>2 DEF IndInv, MoneyInv, TypeOK, Request, RecordPaymentCommit, SnapshotCurrent
    <3>2. CASE req[r].op = "refund"
      <4>1. req[r].amount <= amountPaid
        BY <1>1, <3>1, <3>2 DEF IndInv, MoneyInv, SnapshotsSound
      <4> QED
        BY <2>1, <2>2, <3>1, <3>2, <4>1 DEF RecordPaymentCommit
    <3>3. CASE req[r].op # "refund"
      BY <2>1, <2>2, <3>1, <3>3 DEF RecordPaymentCommit
    <3> QED
      BY <3>2, <3>3
  <2>3. ASSUME NEW r \in Requests, VerifyCommit(r) PROVE Exact
    <3>1. req[r].proof \in Proofs
      BY <1>1, <2>3 DEF IndInv, MoneyInv, SnapshotsSound, VerifyCommit
    <3>2. entries' # entries
      BY <1>1, <2>3, <3>1 DEF IndInv, MoneyInv, TypeOK, VerifyCommit
    <3> QED
      BY <3>2
  <2>4. CASE UNCHANGED <<amountPaid, paidIn, paidOut>>
    BY <2>4
  <2> QED
    BY <1>1, <2>2, <2>3, <2>4 DEF Next, HandlerStep, Begin, Refuse, RecordPaymentRead, RecordPaymentConflict,
       SubmitProofRead, SubmitProofCreate, ReviewRead, VerifyConflict, RejectCommit,
       RejectConflict, ReturnRental, vars, saleVars, entryVars
<1> QED
  BY <1>1, Invariance, PTL DEF Spec, OwnerEntryMovesBalance

-----------------------------------------------------------------------------
(* The handlers implement the atomic ledger, but for a review that writes  *)
(* over a balance or a total committed after it read them.                 *)

LEMMA LedgerInit == ASSUME Init PROVE Ledger!Init
<1>1. total \in Nat /\ amountPaid \in Nat /\ paidIn = amountPaid /\ paidOut = 0
  BY AmountsAssumption DEF Init
<1> QED
  BY <1>1 DEF Init, Ledger!Init, Ledger!Covers, statusFromAmounts

\* What a commit that found its snapshot current knows of it.
LEMMA CommitAmounts ==
    ASSUME MoneyInv, NEW r \in Requests, req[r].op \in {"payment", "refund", "verify"},
           SnapshotCurrent(r)
    PROVE  /\ amountPaid \in Nat /\ paidIn \in Nat /\ paidOut \in Nat /\ total \in Nat
           /\ req[r].amount \in Nat /\ req[r].amount \in Amounts /\ req[r].amount > 0
           /\ req[r].paid = amountPaid /\ req[r].total = total
           /\ req[r].op # "refund" => amountPaid + req[r].amount <= total
           /\ req[r].op = "refund" => req[r].amount <= amountPaid
BY AmountsPositive DEF MoneyInv, TypeOK, Request, SnapshotsSound, SnapshotCurrent

\* Money recorded from a current snapshot is one atomic payment.
LEMMA LedgerPays ==
    ASSUME MoneyInv, NEW r \in Requests, req[r].op \in {"payment", "verify"}, SnapshotCurrent(r),
           amountPaid' = req[r].paid + req[r].amount, paidIn' = paidIn + req[r].amount,
           paymentStatus' = statusFromAmounts(amountPaid', req[r].total),
           UnlockDelivery, UNCHANGED <<total, paidOut>>
    PROVE  Ledger!Next
<1> DEFINE amount == req[r].amount
<1>1. /\ amountPaid \in Nat /\ paidIn \in Nat /\ paidOut \in Nat /\ total \in Nat
      /\ amount \in Nat /\ amount \in Amounts /\ amount > 0 /\ amountPaid + amount <= total
      /\ amountPaid' = amountPaid + amount
      /\ paymentStatus' = statusFromAmounts(amountPaid', total)
  BY CommitAmounts
<1>2. delivery' # "AWAITING_PAYMENT"
  BY DEF UnlockDelivery
<1>3. (paymentStatus' = "PAID") = Ledger!Covers(amountPaid', total)
  BY <1>1 DEF statusFromAmounts, Ledger!Covers
<1>4. paidIn' - paidOut' = (paidIn - paidOut) + amount
  BY <1>1
<1>5. Ledger!Pay(amount)
  BY <1>1, <1>2, <1>3, <1>4 DEF Ledger!Pay
<1> QED
  BY <1>1, <1>5 DEF Ledger!Next

LEMMA LedgerEntry ==
    ASSUME MoneyInv, NEW r \in Requests, RecordPaymentCommit(r)
    PROVE  Ledger!Next
<1> DEFINE amount == req[r].amount
<1>1. CASE req[r].op = "refund"
  <2>1. /\ amountPaid \in Nat /\ paidIn \in Nat /\ paidOut \in Nat /\ total \in Nat
        /\ amount \in Nat /\ amount \in Amounts /\ amount <= amountPaid
        /\ req[r].paid = amountPaid /\ req[r].total = total
    BY <1>1, CommitAmounts DEF RecordPaymentCommit
  <2>2. /\ amountPaid' = amountPaid - amount /\ paidOut' = paidOut + amount
        /\ UNCHANGED <<total, paidIn, delivery>>
        /\ paymentStatus' = IF amountPaid' = 0 THEN "REFUNDED"
                            ELSE statusFromAmounts(amountPaid', total)
    BY <1>1, <2>1 DEF RecordPaymentCommit, UnlockAfter
  <2>3. Ledger!Refund(amount)
    BY <2>1, <2>2 DEF Ledger!Refund, Ledger!Covers, statusFromAmounts
  <2> QED
    BY <2>1, <2>3 DEF Ledger!Next
<1>2. CASE req[r].op = "payment"
  BY <1>2, LedgerPays DEF RecordPaymentCommit, UnlockAfter
<1> QED
  BY <1>1, <1>2 DEF RecordPaymentCommit

LEMMA LedgerReview ==
    ASSUME MoneyInv, NEW r \in Requests, VerifyCommit(r)
    PROVE  Ledger!Next \/ StaleReview
<1>1. CASE SnapshotCurrent(r)
  BY <1>1, LedgerPays DEF VerifyCommit
<1>2. CASE ~SnapshotCurrent(r)
  BY <1>2 DEF StaleReview
<1> QED
  BY <1>1, <1>2

LEMMA LedgerFee ==
    ASSUME MoneyInv, NEW fee \in Fees, ReturnRental(fee)
    PROVE  [Ledger!Next]_(Ledger!ledgerVars)
<1>1. fee \in Nat /\ total \in Nat
  BY AmountsAssumption DEF MoneyInv, TypeOK
<1>2. CASE fee = 0
  BY <1>1, <1>2 DEF ReturnRental, Ledger!ledgerVars, entryVars
<1>3. CASE fee > 0
  <2>1. Ledger!Charge(fee)
    BY <1>1, <1>3 DEF ReturnRental, StatusAfterFee, Ledger!Charge, entryVars
  <2> QED
    BY <2>1 DEF Ledger!Next
<1> QED
  BY <1>1, <1>2, <1>3

\* Every other step of a handler is invisible to the ledger.
LEMMA LedgerStep ==
    ASSUME MoneyInv, [Next]_vars
    PROVE  [Ledger!Next \/ StaleReview]_(Ledger!ledgerVars)
<1>1. CASE UNCHANGED <<saleVars, paidIn, paidOut, delivery>>
  BY <1>1 DEF Ledger!ledgerVars, saleVars
<1> QED
  BY <1>1, LedgerEntry, LedgerReview, LedgerFee DEF Next, HandlerStep, Begin, Refuse,
     RecordPaymentRead, RecordPaymentConflict, SubmitProofRead, SubmitProofCreate, ReviewRead,
     VerifyConflict, RejectCommit, RejectConflict, vars, saleVars, entryVars

LEMMA OwnerEntriesOnly == ASSUME TransferOnly, ~bankTransfer PROVE \A r \in Requests : ~VerifyCommit(r)
BY DEF TransferOnly, ProofCall, VerifyCommit

\* docs/PAYMENT_EVIDENCE.md, for any number of handlers and proofs: on every order
\* each step is one of the atomic ledger but for a review of what has moved since
\* it was read, and an order not paid by transfer implements that ledger outright.
THEOREM LedgerIsAtomic ==
    Spec => ImplementsPaymentLedger /\ (~bankTransfer => Ledger!Spec)
<1>1. Init => Ledger!Init
  BY LedgerInit
<1>2. IndInv /\ [Next]_vars => [Ledger!Next \/ StaleReview]_(Ledger!ledgerVars)
  BY LedgerStep DEF IndInv
<1>3. IndInv /\ ~bankTransfer => ~StaleReview
  BY OwnerEntriesOnly DEF IndInv, StaleReview
<1>4. ~bankTransfer /\ [Next]_vars => (~bankTransfer)'
  BY TransferFixed
<1>5. IndInv /\ ~bankTransfer /\ [Next]_vars => [Ledger!Next]_(Ledger!ledgerVars)
  BY <1>2, <1>3
<1> QED
  BY <1>1, <1>2, <1>4, <1>5, Invariance, PTL DEF Spec, ImplementsPaymentLedger, Ledger!Spec

\* A status is PAID only where the balance it was computed from covers the total:
\* a compare-and-swap found it again, and a review's moves with a return alone.
LEMMA SettledKeeps ==
    ASSUME MoneyInv, TransferOnly, PaidMeansSettled, [Next]_vars
    PROVE  PaidMeansSettled'
<1>1. ASSUME NEW r \in Requests, VerifyCommit(r) PROVE PaidMeansSettled'
  <2>1. CASE rentalReturned
    BY <1>1, <2>1, OwnerEntriesOnly, TransferFixed DEF VerifyCommit, PaidMeansSettled, TotalsKept
  <2>2. CASE ~rentalReturned
    <3>1. total' = total /\ req[r].total = total
      BY <1>1, <2>2 DEF VerifyCommit, MoneyInv, SnapshotsSound
    <3> QED
      BY <1>1, <3>1 DEF VerifyCommit, PaidMeansSettled, statusFromAmounts
  <2> QED
    BY <2>1, <2>2
<1>2. ASSUME NEW r \in Requests, RecordPaymentCommit(r) PROVE PaidMeansSettled'
  <2>1. total' = total /\ total = req[r].total
    BY <1>2 DEF RecordPaymentCommit, SnapshotCurrent
  <2>2. paymentStatus' = "REFUNDED" \/ paymentStatus' = statusFromAmounts(amountPaid', total)
    BY <1>2, <2>1 DEF RecordPaymentCommit
  <2> QED
    BY <2>1, <2>2 DEF PaidMeansSettled, statusFromAmounts
<1>3. ASSUME NEW fee \in Fees, ReturnRental(fee) PROVE PaidMeansSettled'
  <2>1. fee \in Nat /\ total \in Nat
    BY AmountsAssumption DEF MoneyInv, TypeOK
  <2>2. CASE fee > 0
    BY <1>3, <2>2 DEF ReturnRental, StatusAfterFee, PaidMeansSettled
  <2>3. CASE fee = 0
    BY <1>3, <2>1, <2>3, TransferFixed
    DEF ReturnRental, PaidMeansSettled, TotalsKept
  <2> QED
    BY <2>1, <2>2, <2>3
<1>4. CASE UNCHANGED <<saleVars, rentalReturned>>
  BY <1>4, TransferFixed DEF PaidMeansSettled, TotalsKept, saleVars
<1> QED
  BY <1>1, <1>2, <1>3, <1>4 DEF Next, HandlerStep, Begin, Refuse, RecordPaymentRead,
     RecordPaymentConflict, SubmitProofRead, SubmitProofCreate, ReviewRead, VerifyConflict,
     RejectCommit, RejectConflict, vars

\* An order shows PAID only when its whole total is recorded: the status that opens
\* every confirmation is not stale, late fee included, but on a transfer order
\* whose rental is back.
THEOREM PaidSettled == Spec => []PaidMeansSettled
<1>1. Init => PaidMeansSettled
  BY AmountsAssumption DEF Init, PaidMeansSettled, statusFromAmounts
<1>2. IndInv /\ PaidMeansSettled /\ [Next]_vars => PaidMeansSettled'
  BY SettledKeeps DEF IndInv
<1> QED
  BY <1>1, <1>2, Invariance, PTL DEF Spec
-----------------------------------------------------------------------------
\* Every entry moves the balance with the ledger, a verified proof's too where
\* the review read the balance that it adds to.
LEMMA EntriesMoveBalance ==
    ASSUME MoneyInv, LedgerMatchesBalance, [Next]_vars,
           \A r \in Requests : VerifyCommit(r) => req[r].paid = amountPaid
    PROVE  LedgerMatchesBalance'
<1> USE DEF LedgerMatchesBalance
<1>1. amountPaid \in Nat /\ paidIn \in Nat /\ paidOut \in Nat /\ \A r \in Requests : req[r].amount \in Nat
  BY DEF MoneyInv, TypeOK, Request
<1>2. ASSUME NEW r \in Requests, RecordPaymentCommit(r) PROVE LedgerMatchesBalance'
  <2>1. req[r].paid = amountPaid
    BY <1>2 DEF RecordPaymentCommit, SnapshotCurrent
  <2>2. CASE req[r].op = "refund"
    <3>1. req[r].amount <= amountPaid
      BY <2>1, <2>2 DEF MoneyInv, SnapshotsSound
    <3> QED
      BY <1>1, <1>2, <2>1, <2>2, <3>1 DEF RecordPaymentCommit
  <2>3. CASE req[r].op # "refund"
    BY <1>1, <1>2, <2>1, <2>3 DEF RecordPaymentCommit
  <2> QED
    BY <2>2, <2>3
<1>3. ASSUME NEW r \in Requests, VerifyCommit(r) PROVE LedgerMatchesBalance'
  <2>1. req[r].paid = amountPaid
    BY <1>3
  <2> QED
    BY <1>1, <1>3, <2>1 DEF VerifyCommit
<1>4. CASE UNCHANGED <<amountPaid, paidIn, paidOut>>
  BY <1>4
<1> QED
  BY <1>2, <1>3, <1>4 DEF Next, HandlerStep, Begin, Refuse, RecordPaymentRead, RecordPaymentConflict,
     SubmitProofRead, SubmitProofCreate, ReviewRead, VerifyConflict, RejectCommit,
     RejectConflict, ReturnRental, vars, saleVars, entryVars

\* docs/PAYMENT_EVIDENCE.md's balance, which is the sum of its ledger: so it is on
\* an order that is not paid by transfer, however many handlers interleave.
THEOREM OwnerBalanceIsLedger == Spec => [](~bankTransfer => LedgerMatchesBalance)
<1>1. Init => LedgerMatchesBalance
  BY AmountsAssumption DEF Init, LedgerMatchesBalance
<1>2. IndInv /\ (~bankTransfer => LedgerMatchesBalance) /\ [Next]_vars =>
          (~bankTransfer => LedgerMatchesBalance)'
  BY EntriesMoveBalance, OwnerEntriesOnly, TransferFixed DEF IndInv
<1> QED
  BY <1>1, <1>2, Invariance, PTL DEF Spec

\* A review is the only handler in flight, so the balance it read is the balance.
OneRequest == \A r, s \in Requests : r = s
ReviewsCurrent == \A r \in Requests : req[r].op = "verify" => req[r].paid = amountPaid

LEMMA ReviewsCurrentKept ==
    ASSUME OneRequest, MoneyInv, ReviewsCurrent, [Next]_vars
    PROVE  ReviewsCurrent'
<1> USE DEF ReviewsCurrent
<1>1. req \in [Requests -> Request]
  BY DEF MoneyInv, TypeOK
<1>2. ASSUME NEW r \in Requests, End(r) PROVE ReviewsCurrent'
  <2>1. \A s \in Requests : req'[s] = Idle
    BY <1>1, <1>2 DEF End, OneRequest
  <2> QED
    BY <2>1 DEF Idle
<1>3. ASSUME NEW r \in Requests, NEW op, NEW amount, NEW p, Begin(r, Snapshot(op, amount, p))
      PROVE  ReviewsCurrent'
  <2>1. \A s \in Requests : req'[s].paid = amountPaid
    BY <1>1, <1>3 DEF Begin, Snapshot, OneRequest
  <2> QED
    BY <1>3, <2>1 DEF Begin, saleVars
<1>4. CASE UNCHANGED <<amountPaid, req>>
  BY <1>4
<1> QED
  BY <1>2, <1>3, <1>4 DEF Next, HandlerStep, Refuse, RecordPaymentRead, RecordPaymentCommit,
     RecordPaymentConflict, SubmitProofRead, SubmitProofCreate, ReviewRead, VerifyCommit,
     VerifyConflict, RejectCommit, RejectConflict, ReturnRental, vars, saleVars

\* ... and on any order while one handler runs at a time: what breaks it is only a
\* review whose balance was read before another handler's commit.
THEOREM BalanceIsLedger == ASSUME OneRequest PROVE Spec => []LedgerMatchesBalance
<1>1. Init => LedgerMatchesBalance /\ ReviewsCurrent
  BY AmountsAssumption DEF Init, LedgerMatchesBalance, ReviewsCurrent, Idle
<1>2. IndInv /\ ReviewsCurrent /\ [Next]_vars => ReviewsCurrent'
  BY ReviewsCurrentKept DEF IndInv
<1>3. IndInv /\ LedgerMatchesBalance /\ ReviewsCurrent /\ [Next]_vars => LedgerMatchesBalance'
  BY EntriesMoveBalance DEF IndInv, ReviewsCurrent, VerifyCommit
<1> QED
  BY <1>1, <1>2, <1>3, Invariance, PTL DEF Spec

-----------------------------------------------------------------------------
(* The journey                                                             *)


LEMMA JourneyInitInv == JourneyInit => JourneyInv
<1> SUFFICES ASSUME JourneyInit PROVE JourneyInv
  OBVIOUS
<1>1. /\ delivery \in {"AWAITING_PAYMENT", "PREPARING"} /\ jreq = [q \in Handlers |-> NoHandler]
      /\ saleStatus = "COMPLETED" /\ restoredAt = FALSE /\ restocks = 0
  BY DEF JourneyInit, Init
<1>2. JourneyRows
  <2>1. NoHandler \in JourneyRequest
    BY DEF NoHandler, JourneyRequest
  <2> QED
    <3>1. jreq \in [Handlers -> JourneyRequest]
      BY <1>1, <2>1
    <3>2. delivery \in DeliveryStatus /\ method \in Methods
      BY <1>1 DEF JourneyInit, DeliveryStatus
    <3>3. /\ codeIssued \in BOOLEAN /\ handedOff \in BOOLEAN /\ dispatched \in BOOLEAN
          /\ received \in BOOLEAN /\ restoredAt \in BOOLEAN
      BY DEF JourneyInit
    <3>4. saleStatus \in {"COMPLETED", "CANCELED"} /\ restocks \in Nat
      BY <1>1
    <3> QED
      BY <3>1, <3>2, <3>3, <3>4 DEF JourneyRows
<1>3. ReadsSound
  BY <1>1 DEF ReadsSound, ReadSound, NoHandler
<1> QED
  BY <1>1, <1>2, <1>3 DEF JourneyInv, RestockedOnce, ReceivedBeforeConfirmed, MethodReached

\* A row read earlier stays sound while the stamps it relies on only get set.
LEMMA ReadSoundStays ==
    ASSUME NEW q \in Handlers, ReadSound(jreq[q]), jreq'[q] = jreq[q],
           handedOff => handedOff', received => received',
           method = "SHOP_DELIVERY" <=> method' = "SHOP_DELIVERY"
    PROVE  ReadSound(jreq[q])'
BY DEF ReadSound, RentalPhotographed

\* The handler that ends leaves the others' rows as they were.
LEMMA DoneKeepsReads ==
    ASSUME JourneyRows, ReadsSound, NEW q \in Handlers, Done(q),
           handedOff => handedOff', received => received',
           method = "SHOP_DELIVERY" <=> method' = "SHOP_DELIVERY"
    PROVE  ReadsSound'
<1>1. ASSUME NEW p \in Handlers PROVE ReadSound(jreq[p])'
  <2>1. CASE p = q
    <3>1. jreq'[p] = NoHandler
      BY <2>1 DEF Done, JourneyRows
    <3> QED
      BY <3>1 DEF ReadSound, NoHandler
  <2>2. CASE p # q
    <3>1. jreq'[p] = jreq[p]
      BY <2>2 DEF Done, JourneyRows
    <3> QED
      BY <3>1, ReadSoundStays DEF ReadsSound
  <2> QED
    BY <2>1, <2>2
<1> QED
  BY <1>1 DEF ReadsSound

LEMMA DoneType ==
    ASSUME JourneyRows, NEW q \in Handlers, Done(q)
    PROVE  jreq' \in [Handlers -> JourneyRequest]
BY DEF Done, JourneyRows, NoHandler, JourneyRequest

\* Steps that write nothing of the journey but the handler's own state.
LEMMA RefusedKeeps ==
    ASSUME JourneyInv, NEW q \in Handlers, Refused(q)
    PROVE  JourneyInv'
<1>1. Done(q) /\ UNCHANGED <<delivery, journeyRow, rentalRow, cancelVars>>
  BY DEF Refused
<1>2. JourneyRows'
  BY <1>1, DoneType DEF JourneyInv, JourneyRows, journeyRow, rentalRow, cancelVars
<1>3. ReadsSound'
  BY <1>1, DoneKeepsReads DEF JourneyInv, journeyRow, rentalRow
<1> QED
  BY <1>1, <1>2, <1>3 DEF JourneyInv, RestockedOnce, ReceivedBeforeConfirmed, MethodReached,
     journeyRow, rentalRow, cancelVars

LEMMA CheckedKeeps ==
    ASSUME JourneyInv, NEW q \in Handlers, Checked(q),
           jreq[q].op \in {"handoff", "confirm"} => RentalPhotographed
    PROVE  JourneyInv'
<1>1. UNCHANGED <<delivery, journeyRow, rentalRow, cancelVars>>
  BY DEF Checked
<1>2. JourneyRows'
  <2>1. jreq' = [jreq EXCEPT ![q] = [jreq[q] EXCEPT !.checked = TRUE]]
    BY DEF Checked
  <2>2. [jreq[q] EXCEPT !.checked = TRUE] \in JourneyRequest
    BY DEF JourneyInv, JourneyRows, JourneyRequest
  <2> QED
    BY <1>1, <2>1, <2>2 DEF JourneyInv, JourneyRows, journeyRow, rentalRow, cancelVars
<1>3. ASSUME NEW p \in Handlers PROVE ReadSound(jreq[p])'
  <2>1. CASE p = q
    BY <1>1, <2>1 DEF Checked, JourneyInv, JourneyRows, ReadsSound, ReadSound,
       RentalPhotographed, journeyRow, rentalRow
  <2>2. CASE p # q
    <3>1. jreq'[p] = jreq[p]
      BY <2>2 DEF Checked, JourneyInv, JourneyRows
    <3> QED
      BY <1>1, <3>1, ReadSoundStays DEF JourneyInv, ReadsSound, journeyRow, rentalRow
  <2> QED
    BY <2>1, <2>2
<1> QED
  BY <1>1, <1>2, <1>3 DEF JourneyInv, RestockedOnce, ReceivedBeforeConfirmed, MethodReached,
     ReadsSound, journeyRow, rentalRow, cancelVars

LEMMA ReadRowKeeps ==
    ASSUME JourneyInv, NEW q \in Handlers,
           NEW op \in {"update", "switch", "handoff", "confirm", "receive"},
           NEW to \in DeliveryStatus \cup Methods \cup {"none"}, ReadRow(q, op, to),
           op = "update" => to \in DeliveryStatus /\ MayMove(delivery, to, method),
           op = "switch" => /\ to \in PickupMethods /\ method \in PickupMethods
                            /\ delivery \in CollectableStatus,
           op = "confirm" =>
               delivery = IF method = "CUSTOMER_RIDER" THEN "IN_TRANSIT" ELSE "DELIVERED"
    PROVE  JourneyInv'
<1>1. UNCHANGED <<delivery, journeyRow, rentalRow, cancelVars>>
  BY DEF ReadRow
<1>2. jreq' = [jreq EXCEPT ![q] = Row(op, to)]
  BY DEF ReadRow
<1>3. JourneyRows'
  <2>1. Row(op, to) \in JourneyRequest
    BY DEF Row, JourneyRequest, JourneyInv, JourneyRows
  <2> QED
    BY <1>1, <1>2, <2>1 DEF JourneyInv, JourneyRows, journeyRow, rentalRow, cancelVars
<1>4. ASSUME NEW p \in Handlers PROVE ReadSound(jreq[p])'
  <2>1. CASE p = q
    <3>1. jreq'[p] = Row(op, to)
      BY <1>2, <2>1 DEF JourneyInv, JourneyRows
    <3>2. /\ op = "update" /\ to = "CONFIRMED" => delivery = "CONFIRMED"
      BY DEF MayMove, transitions, JourneyInv, JourneyRows, DeliveryStatus
    <3>3. /\ Row(op, to).op = op /\ Row(op, to).to = to /\ Row(op, to).status = delivery
          /\ Row(op, to).method = method /\ Row(op, to).handedOff = handedOff
          /\ ~Row(op, to).checked
      BY DEF Row
    <3>4. /\ delivery = "CONFIRMED" => RentalPhotographed
          /\ delivery = "CONFIRMED" /\ method # "SHOP_DELIVERY" => handedOff
          /\ delivery = "IN_TRANSIT" /\ method = "CUSTOMER_RIDER" => handedOff
          /\ method \in Methods
      BY DEF JourneyInv, JourneyRows, ReceivedBeforeConfirmed, MethodReached, RentalPhotographed
    <3>5. ReadSound(Row(op, to))
      BY <3>2, <3>3, <3>4 DEF ReadSound
    <3> QED
      BY <1>1, <3>1, <3>5 DEF ReadSound, Row, RentalPhotographed, journeyRow, rentalRow
  <2>2. CASE p # q
    <3>1. jreq'[p] = jreq[p]
      BY <1>2, <2>2 DEF JourneyInv, JourneyRows
    <3> QED
      BY <1>1, <3>1, ReadSoundStays DEF JourneyInv, ReadsSound, journeyRow, rentalRow
  <2> QED
    BY <2>1, <2>2
<1> QED
  BY <1>1, <1>3, <1>4 DEF JourneyInv, RestockedOnce, ReceivedBeforeConfirmed, MethodReached,
     ReadsSound, journeyRow, rentalRow, cancelVars

-----------------------------------------------------------------------------
LEMMA UpdateCommitKeeps ==
    ASSUME JourneyInv, NEW q \in Handlers, UpdateCommit(q)
    PROVE  JourneyInv'
<1> DEFINE row == jreq[q]
<1>1. /\ row.op = "update" /\ ReadSound(row) /\ row.to \in DeliveryStatus
      /\ MayMove(row.status, row.to, row.method) /\ row.method \in Methods \cup {"none"}
  BY DEF JourneyInv, JourneyRows, JourneyRequest, ReadsSound, ReadSound, UpdateCommit
<1>2. /\ delivery' = row.to /\ Done(q) /\ UNCHANGED <<method, received>>
      /\ handedOff' = (handedOff \/ (row.method = "CUSTOMER_RIDER" /\ row.to = "IN_TRANSIT"
                                       /\ ~row.handedOff))
      /\ IF row.to = "CANCELED" THEN CancelSale ELSE UNCHANGED cancelVars
  BY DEF UpdateCommit, HandedOffAfter
<1>3. /\ codeIssued' \in BOOLEAN /\ dispatched' \in BOOLEAN /\ handedOff' \in BOOLEAN
      /\ handedOff => handedOff'
  BY <1>2 DEF UpdateCommit, CodeIssuedAfter
<1>4. /\ RestockedOnce' /\ (restoredAt <=> saleStatus = "CANCELED")'
      /\ saleStatus' \in {"COMPLETED", "CANCELED"} /\ restoredAt' \in BOOLEAN /\ restocks' \in Nat
  <2>1. CASE row.to = "CANCELED"
    BY <1>2, <2>1 DEF JourneyInv, JourneyRows, RestockedOnce, CancelSale, RestockOnce
  <2>2. CASE row.to # "CANCELED"
    BY <1>2, <2>2 DEF JourneyInv, JourneyRows, RestockedOnce, cancelVars
  <2> QED
    BY <2>1, <2>2
<1>5. JourneyRows'
  BY <1>1, <1>2, <1>3, <1>4, DoneType DEF JourneyInv, JourneyRows
<1>6. ReadsSound'
  BY <1>2, <1>3, DoneKeepsReads DEF JourneyInv
<1>7. ReceivedBeforeConfirmed'
  BY <1>1, <1>2 DEF ReadSound, RentalPhotographed, ReceivedBeforeConfirmed
<1>8. MethodReached'
  <2>1. row.to = "IN_TRANSIT" => row.method # "CUSTOMER_PICKUP"
    BY <1>1 DEF MayMove
  <2>2. row.to = "DELIVERED" => row.method \notin PickupMethods
    BY <1>1 DEF MayMove, PickupMethods
  <2>3. method \in Methods /\ (row.method = "SHOP_DELIVERY" <=> method = "SHOP_DELIVERY")
        /\ (row.handedOff => handedOff) /\ row.method \in Methods \cup {"none"}
    BY <1>1 DEF ReadSound, JourneyInv, JourneyRows
  <2>4. row.method \in Methods
    BY <1>1 DEF ReadSound
  <2>5. row.to = "CONFIRMED" /\ method # "SHOP_DELIVERY" => handedOff
    BY <1>1 DEF ReadSound
  <2> QED
    BY <1>2, <2>1, <2>2, <2>3, <2>4, <2>5 DEF MethodReached, Methods, PickupMethods
<1> QED
  BY <1>4, <1>5, <1>6, <1>7, <1>8 DEF JourneyInv

LEMMA SwitchCommitKeeps ==
    ASSUME JourneyInv, NEW q \in Handlers, SwitchCommit(q)
    PROVE  JourneyInv'
<1> DEFINE row == jreq[q]
<1>1. /\ row.op = "switch" /\ ReadSound(row) /\ delivery = row.status /\ method = row.method
      /\ ~handedOff /\ method' = row.to /\ codeIssued' \in BOOLEAN /\ Done(q)
      /\ UNCHANGED <<delivery, handedOff, rentalRow, cancelVars>>
  BY DEF JourneyInv, ReadsSound, SwitchCommit, RowCurrent
<1>2. /\ row.to \in PickupMethods /\ row.method \in PickupMethods
      /\ row.status \notin {"IN_TRANSIT", "DELIVERED", "CONFIRMED"}
  BY <1>1 DEF ReadSound, CollectableStatus
<1>3. /\ method \in Methods /\ method # "SHOP_DELIVERY" /\ method' # "SHOP_DELIVERY"
      /\ method' \in Methods
  BY <1>1, <1>2 DEF PickupMethods, Methods
<1>4. JourneyRows'
  BY <1>1, <1>3, DoneType DEF JourneyInv, JourneyRows, rentalRow, cancelVars
<1>5. ReadsSound'
  BY <1>1, <1>3, DoneKeepsReads DEF JourneyInv, rentalRow
<1>6. MethodReached' /\ ReceivedBeforeConfirmed'
  BY <1>1, <1>2 DEF MethodReached, ReceivedBeforeConfirmed
<1> QED
  BY <1>1, <1>4, <1>5, <1>6 DEF JourneyInv, RestockedOnce, cancelVars

LEMMA CompleteCommitKeeps ==
    ASSUME JourneyInv, NEW q \in Handlers, CompleteCommit(q)
    PROVE  JourneyInv'
<1> DEFINE row == jreq[q]
<1>1. /\ row.op \in {"handoff", "confirm"} /\ row.checked /\ ReadSound(row)
      /\ delivery = row.status /\ delivery' = "CONFIRMED" /\ Done(q)
      /\ handedOff' = (handedOff \/ row.op = "handoff")
      /\ UNCHANGED <<method, codeIssued, rentalRow, cancelVars>>
  BY DEF JourneyInv, ReadsSound, CompleteCommit, Completable
<1>2. handedOff' \in BOOLEAN /\ (handedOff => handedOff')
  BY <1>1
<1>3. JourneyRows'
  BY <1>1, <1>2, DoneType DEF JourneyInv, JourneyRows, DeliveryStatus, rentalRow, cancelVars
<1>4. ReadsSound'
  BY <1>1, <1>2, DoneKeepsReads DEF JourneyInv, rentalRow
<1>5. ReceivedBeforeConfirmed'
  BY <1>1 DEF ReadSound, RentalPhotographed, ReceivedBeforeConfirmed, rentalRow
<1>6. method # "SHOP_DELIVERY" => handedOff'
  <2>1. CASE row.op = "handoff"
    BY <1>1, <2>1
  <2>2. CASE row.op = "confirm"
    BY <1>1, <2>2 DEF ReadSound, JourneyInv, MethodReached
  <2> QED
    BY <1>1, <2>1, <2>2
<1>7. MethodReached'
  BY <1>1, <1>6 DEF MethodReached
<1> QED
  BY <1>1, <1>3, <1>4, <1>5, <1>7 DEF JourneyInv, RestockedOnce, cancelVars

LEMMA ReceiveCommitKeeps ==
    ASSUME JourneyInv, NEW q \in Handlers, ReceiveCommit(q)
    PROVE  JourneyInv'
<1>1. /\ received' = TRUE /\ Done(q)
      /\ UNCHANGED <<delivery, journeyRow, dispatched, cancelVars>>
  BY DEF ReceiveCommit
<1>2. JourneyRows'
  BY <1>1, DoneType DEF JourneyInv, JourneyRows, journeyRow, cancelVars
<1>3. ReadsSound'
  BY <1>1, DoneKeepsReads DEF JourneyInv, journeyRow
<1> QED
  BY <1>1, <1>2, <1>3 DEF JourneyInv, RestockedOnce, ReceivedBeforeConfirmed, MethodReached,
     journeyRow, cancelVars

\* The ledger's handlers touch the journey in one way: they unlock it.
LEMMA UnlockKeeps ==
    ASSUME JourneyInv, UNCHANGED journeyVars, delivery' = delivery \/ UnlockDelivery
    PROVE  JourneyInv'
<1>1. delivery' = delivery \/ delivery' = "PREPARING"
  BY DEF UnlockDelivery
<1>2. /\ JourneyRows' /\ RestockedOnce' /\ (restoredAt <=> saleStatus = "CANCELED")'
      /\ ReceivedBeforeConfirmed' /\ MethodReached'
  BY <1>1 DEF JourneyInv, JourneyRows, RestockedOnce, ReceivedBeforeConfirmed, MethodReached,
     DeliveryStatus, journeyVars, journeyRow, rentalRow, cancelVars
<1>3. ReadsSound'
  BY ReadSoundStays DEF JourneyInv, ReadsSound, journeyVars, journeyRow, rentalRow
<1> QED
  BY <1>2, <1>3 DEF JourneyInv

LEMMA LedgerStepUnlocks ==
    HandlerStep \/ (\E fee \in Fees : ReturnRental(fee)) => delivery' = delivery \/ UnlockDelivery
BY DEF HandlerStep, ReturnRental, RecordPaymentRead, RecordPaymentCommit, RecordPaymentConflict,
       SubmitProofRead, SubmitProofCreate, ReviewRead, VerifyCommit, VerifyConflict, RejectCommit,
       RejectConflict, UnlockAfter, Begin, Refuse

-----------------------------------------------------------------------------
LEMMA OwnerStepKeeps ==
    ASSUME JourneyInv, NEW q \in Owners, OwnerStep(q)
    PROVE  JourneyInv'
<1> q \in Handlers
  BY DEF Handlers
<1>1. ASSUME NEW to \in DeliveryStatus, UpdateRead(q, to) PROVE JourneyInv'
  BY <1>1, ReadRowKeeps DEF UpdateRead
<1>2. CASE CancelCheck(q)
  BY <1>2, CheckedKeeps, RefusedKeeps DEF CancelCheck
<1>3. CASE UpdateCommit(q)
  BY <1>3, UpdateCommitKeeps
<1>4. CASE HandoffRead(q)
  <2>1. ReadRow(q, "handoff", "CONFIRMED") /\ "CONFIRMED" \in DeliveryStatus
    BY <1>4 DEF HandoffRead, DeliveryStatus
  <2> QED
    BY <2>1, ReadRowKeeps
<1> QED
  BY <1>1, <1>2, <1>3, <1>4 DEF OwnerStep

LEMMA CustomerStepKeeps ==
    ASSUME JourneyInv, NEW q \in Customers, CustomerStep(q)
    PROVE  JourneyInv'
<1> q \in Handlers
  BY DEF Handlers
<1>1. ASSUME NEW m \in PickupMethods, SwitchRead(q, m) PROVE JourneyInv'
  <2>1. /\ ReadRow(q, "switch", m) /\ m \in Methods /\ method \in PickupMethods
        /\ delivery \in CollectableStatus
    BY <1>1 DEF SwitchRead, Collectable, PickupMethods, Methods
  <2> QED
    BY <2>1, ReadRowKeeps
<1>2. CASE SwitchCommit(q)
  BY <1>2, SwitchCommitKeeps
<1>3. CASE SwitchConflict(q)
  BY <1>3, RefusedKeeps DEF SwitchConflict
<1>4. CASE ConfirmRead(q)
  <2>1. /\ ReadRow(q, "confirm", "CONFIRMED") /\ "CONFIRMED" \in DeliveryStatus
        /\ delivery = IF method = "CUSTOMER_RIDER" THEN "IN_TRANSIT" ELSE "DELIVERED"
    BY <1>4 DEF ConfirmRead, DeliveryStatus
  <2> QED
    BY <2>1, ReadRowKeeps
<1>5. CASE ReceiveRead(q)
  <2>1. ReadRow(q, "receive", "none")
    BY <1>5 DEF ReceiveRead
  <2> QED
    BY <2>1, ReadRowKeeps
<1>6. CASE ReceiveCheck(q)
  BY <1>6, CheckedKeeps, RefusedKeeps DEF ReceiveCheck
<1>7. CASE ReceiveCommit(q)
  BY <1>7, ReceiveCommitKeeps
<1> QED
  BY <1>1, <1>2, <1>3, <1>4, <1>5, <1>6, <1>7 DEF CustomerStep

LEMMA JourneyNextKeeps == JourneyInv /\ [JourneyNext]_allVars => JourneyInv'
<1> SUFFICES ASSUME JourneyInv, [JourneyNext]_allVars PROVE JourneyInv'
  OBVIOUS
<1>1. CASE HandlerStep /\ UNCHANGED journeyVars
  BY <1>1, LedgerStepUnlocks, UnlockKeeps
<1>2. CASE \E fee \in Fees : JourneyReturnRental(fee)
  BY <1>2, LedgerStepUnlocks, UnlockKeeps DEF JourneyReturnRental
<1>3. CASE \E q \in Owners : OwnerStep(q)
  BY <1>3, OwnerStepKeeps
<1>4. CASE \E q \in Customers : CustomerStep(q)
  BY <1>4, CustomerStepKeeps
<1>5. ASSUME NEW q \in Handlers, CompleteCheck(q) PROVE JourneyInv'
  BY <1>5, CheckedKeeps, RefusedKeeps DEF CompleteCheck, assertPaymentSettled
<1>6. ASSUME NEW q \in Handlers, CompleteCommit(q) PROVE JourneyInv'
  BY <1>6, CompleteCommitKeeps
<1>7. ASSUME NEW q \in Handlers, CompleteConflict(q) PROVE JourneyInv'
  BY <1>7, RefusedKeeps DEF CompleteConflict
<1>8. CASE UNCHANGED allVars
  BY <1>8, UnlockKeeps DEF allVars, vars
<1> QED
  BY <1>1, <1>2, <1>3, <1>4, <1>5, <1>6, <1>7, <1>8 DEF JourneyNext

\* JourneyInv holds of every reachable state of the composed system.
THEOREM JourneyInvariance == JourneySpec => []JourneyInv
BY JourneyInitInv, JourneyNextKeeps, PTL DEF JourneySpec

\* However many owners cancel the order, and however often, its goods return to
\* stock once, and exactly when the sale is canceled.
THEOREM RestockOnlyOnce == JourneySpec => []RestockedOnce
<1>1. JourneyInv => RestockedOnce
  BY DEF JourneyInv
<1> QED
  BY JourneyInvariance, <1>1, PTL

\* No interleaving confirms a rental order whose receipt photo is missing.
THEOREM PhotoBeforeConfirmation == JourneySpec => []ReceivedBeforeConfirmed
<1>1. JourneyInv => ReceivedBeforeConfirmed
  BY DEF JourneyInv
<1> QED
  BY JourneyInvariance, <1>1, PTL

\* A customer-rider order is confirmed only after the merchant handed it over,
\* even when the collector changes while the owner's dispatch is in flight.
THEOREM RiderHandoffFirst == JourneySpec => []RiderConfirmedAfterHandoff
<1>1. JourneyInv => RiderConfirmedAfterHandoff
  BY DEF JourneyInv, MethodReached, RiderConfirmedAfterHandoff
<1> QED
  BY JourneyInvariance, <1>1, PTL

\* Once the goods have left the shop, no change of collector that was under way
\* is written any more: the compare-and-swap finds the handoff.
THEOREM MethodFixed == JourneySpec => MethodFixedAfterHandoff
<1>1. JourneyInv /\ [JourneyNext]_allVars => [method' # method => Collectable]_allVars
  <2> SUFFICES ASSUME JourneyInv, [JourneyNext]_allVars, method' # method PROVE Collectable
    OBVIOUS
  <2>1. ASSUME NEW q \in Customers, SwitchCommit(q) PROVE Collectable
    <3>1. q \in Handlers /\ jreq[q].op = "switch" /\ RowCurrent(jreq[q])
      BY <2>1 DEF Handlers, SwitchCommit
    <3>2. jreq[q].status \in CollectableStatus
      BY <3>1 DEF JourneyInv, ReadsSound, ReadSound
    <3> QED
      BY <3>1, <3>2 DEF RowCurrent, Collectable
  <2>2. CASE UNCHANGED journeyVars
    BY <2>2 DEF journeyVars, journeyRow
  <2>3. ASSUME NEW q \in Owners PROVE ~(OwnerStep(q) /\ method' # method)
    BY DEF OwnerStep, UpdateRead, CancelCheck, UpdateCommit, HandoffRead, ReadRow, Checked, Refused,
       journeyRow
  <2>4. ASSUME NEW q \in Handlers
        PROVE  ~((CompleteCheck(q) \/ CompleteCommit(q) \/ CompleteConflict(q)) /\ method' # method)
    BY DEF CompleteCheck, CompleteCommit, CompleteConflict, Checked, Refused, journeyRow
  <2>5. ASSUME NEW q \in Customers, CustomerStep(q), ~SwitchCommit(q) PROVE method' = method
    BY <2>5 DEF CustomerStep, SwitchRead, SwitchConflict, ConfirmRead, ReceiveRead, ReceiveCheck,
       ReceiveCommit, ReadRow, Checked, Refused, journeyRow
  <2> QED
    BY <2>1, <2>2, <2>3, <2>4, <2>5 DEF JourneyNext, JourneyReturnRental, allVars
<1> QED
  BY <1>1, JourneyInvariance, PTL DEF JourneySpec, MethodFixedAfterHandoff

-----------------------------------------------------------------------------
(* The composition: the journey's handlers leave the money alone.          *)

LEMMA JourneyStepLedger ==
    ASSUME JourneyInv, [JourneyNext]_allVars
    PROVE  [Next]_vars \/ UNCHANGED ledgerOnly
<1>1. CASE HandlerStep /\ UNCHANGED journeyVars
  BY <1>1 DEF Next
<1>2. CASE \E fee \in Fees : JourneyReturnRental(fee)
  BY <1>2 DEF JourneyReturnRental, Next
<1>3. ASSUME NEW q \in Owners, OwnerStep(q) PROVE UNCHANGED ledgerOnly
  BY <1>3 DEF OwnerStep, UpdateRead, CancelCheck, UpdateCommit, HandoffRead, ReadRow, Checked, Refused
<1>4. ASSUME NEW q \in Customers, CustomerStep(q) PROVE UNCHANGED ledgerOnly
  BY <1>4 DEF CustomerStep, SwitchRead, SwitchCommit, SwitchConflict, ConfirmRead, ReceiveRead,
     ReceiveCheck, ReceiveCommit, ReadRow, Checked, Refused
<1>5. ASSUME NEW q \in Handlers, CompleteCheck(q) \/ CompleteCommit(q) \/ CompleteConflict(q)
      PROVE  UNCHANGED ledgerOnly
  BY <1>5 DEF CompleteCheck, CompleteCommit, CompleteConflict, Checked, Refused
<1>6. CASE UNCHANGED allVars
  BY <1>6 DEF allVars
<1> QED
  BY <1>1, <1>2, <1>3, <1>4, <1>5, <1>6 DEF JourneyNext

LEMMA JourneyKeepsMoney == MoneyInv /\ JourneyInv /\ [JourneyNext]_allVars => MoneyInv'
<1> SUFFICES ASSUME MoneyInv, JourneyInv, [JourneyNext]_allVars PROVE MoneyInv'
  OBVIOUS
<1>1. CASE [Next]_vars
  BY <1>1, NextKeepsMoney
<1>2. CASE UNCHANGED ledgerOnly
  <2>1. delivery' \in DeliveryStatus
    BY JourneyNextKeeps DEF JourneyInv, JourneyRows
  <2>2. TypeOK'
    BY <1>2, <2>1 DEF ledgerOnly, saleVars, entryVars, proofVars, MoneyInv, TypeOK
  <2> QED
    BY <1>2, <2>2 DEF ledgerOnly, saleVars, entryVars, proofVars, MoneyInv, SnapshotsSound, ProofsClaim,
       BalanceInRange, ProofEnteredOnce, UnpaidMeansNoMoney
<1> QED
  BY <1>1, <1>2, JourneyStepLedger

\* What the ledger keeps it keeps when owners, riders and customers move the
\* order and cancel it meanwhile: the balance is in range, a proof enters once.
THEOREM JourneyKeepsLedger == JourneySpec => [](BalanceInRange /\ ProofEnteredOnce)
<1>1. JourneyInit => MoneyInv
  BY InitIndInv DEF JourneyInit, IndInv
<1>2. MoneyInv => BalanceInRange /\ ProofEnteredOnce
  BY DEF MoneyInv
<1> QED
  BY <1>1, <1>2, JourneyKeepsMoney, JourneyInvariance, PTL DEF JourneySpec

\* Every column of the order, its journey and its ledger keeps its type.
THEOREM JourneyTypes == JourneySpec => []JourneyTypeOK
<1>1. JourneyInit => MoneyInv
  BY InitIndInv DEF JourneyInit, IndInv
<1>2. MoneyInv /\ JourneyInv => JourneyTypeOK
  BY DEF MoneyInv, JourneyInv, JourneyTypeOK
<1> QED
  BY <1>1, <1>2, JourneyKeepsMoney, JourneyInvariance, PTL DEF JourneySpec

-----------------------------------------------------------------------------
(* With one owner call at a time an update's row is not stale in what the  *)
(* lock and the confirmation depend on.                                    *)

OneOwner == \A p, q \in Owners : p = q

RowLocked(q) == jreq[q].status = "AWAITING_PAYMENT"
OwnerReads == \A q \in Handlers :
    /\ jreq[q].op = "update" =>
           /\ q \in Owners
           /\ jreq[q].to \notin {"AWAITING_PAYMENT", "CANCELED"} => delivery # "AWAITING_PAYMENT"
           /\ jreq[q].to = "CONFIRMED" => delivery = "CONFIRMED"
    /\ jreq[q].op \in {"handoff", "confirm"} => ~RowLocked(q)

\* Steps that end a handler, mark what it checked, or keep the row it found.
LEMMA EndKeepsReads ==
    ASSUME JourneyInv, OwnerReads, NEW q \in Handlers, Done(q), delivery' = delivery
    PROVE  OwnerReads'
<1>1. jreq'[q].op = "idle" /\ \A p \in Handlers : p # q => jreq'[p] = jreq[p]
  BY DEF Done, NoHandler, JourneyInv, JourneyRows
<1> QED
  BY <1>1 DEF OwnerReads, RowLocked

LEMMA CheckKeepsReads ==
    ASSUME JourneyInv, OwnerReads, NEW q \in Handlers, Checked(q)
    PROVE  OwnerReads'
<1>1. /\ jreq' = [jreq EXCEPT ![q] = [jreq[q] EXCEPT !.checked = TRUE]] /\ delivery' = delivery
      /\ jreq \in [Handlers -> JourneyRequest]
  BY DEF Checked, JourneyInv, JourneyRows
<1>2. \A p \in Handlers : /\ jreq'[p].op = jreq[p].op /\ jreq'[p].to = jreq[p].to
                          /\ jreq'[p].status = jreq[p].status
  BY <1>1 DEF JourneyRequest
<1> QED
  BY <1>1, <1>2 DEF OwnerReads, RowLocked

LEMMA ReadKeepsReads ==
    ASSUME JourneyInv, OwnerReads, NEW q \in Handlers, NEW op, NEW to, ReadRow(q, op, to),
           op = "update" => /\ q \in Owners
                            /\ to \notin {"AWAITING_PAYMENT", "CANCELED"} => delivery # "AWAITING_PAYMENT"
                            /\ to = "CONFIRMED" => delivery = "CONFIRMED",
           op \in {"handoff", "confirm"} => delivery # "AWAITING_PAYMENT"
    PROVE  OwnerReads'
<1>1. /\ jreq' = [jreq EXCEPT ![q] = Row(op, to)] /\ delivery' = delivery
      /\ jreq \in [Handlers -> JourneyRequest]
  BY DEF ReadRow, JourneyInv, JourneyRows
<1>2. Row(op, to).op = op /\ Row(op, to).to = to /\ Row(op, to).status = delivery
  BY DEF Row
<1>3. jreq'[q] = Row(op, to) /\ \A p \in Handlers : p # q => jreq'[p] = jreq[p]
  BY <1>1
<1> QED
  BY <1>1, <1>2, <1>3 DEF OwnerReads, RowLocked

LEMMA OwnerReadsKept ==
    ASSUME OneOwner, JourneyInv, OwnerReads, [JourneyNext]_allVars
    PROVE  OwnerReads'
<1>1. ASSUME UNCHANGED journeyVars, delivery' = delivery \/ UnlockDelivery PROVE OwnerReads'
  BY <1>1 DEF journeyVars, UnlockDelivery, OwnerReads, RowLocked
<1>2. ASSUME NEW q \in Handlers, Refused(q) PROVE OwnerReads'
  BY <1>2, EndKeepsReads DEF Refused
<1>3. ASSUME NEW q \in Owners, OwnerStep(q) PROVE OwnerReads'
  <2>1. q \in Handlers
    BY DEF Handlers
  <2>2. ASSUME NEW to \in DeliveryStatus, UpdateRead(q, to) PROVE OwnerReads'
    <3>1. to = "CONFIRMED" => delivery = "CONFIRMED"
      BY <2>2 DEF UpdateRead, MayMove, transitions, JourneyInv, JourneyRows, DeliveryStatus
    <3> QED
      BY <2>1, <2>2, <3>1, ReadKeepsReads DEF UpdateRead
  <2>3. CASE CancelCheck(q)
    BY <1>2, <2>1, <2>3, CheckKeepsReads DEF CancelCheck
  <2>4. CASE UpdateCommit(q)
    <3>1. jreq'[q].op = "idle" /\ \A p \in Handlers : p # q => jreq'[p] = jreq[p]
      BY <2>1, <2>4 DEF UpdateCommit, Done, NoHandler, JourneyInv, JourneyRows
    <3>2. \A p \in Handlers : jreq'[p].op # "update"
      BY <3>1 DEF OneOwner, OwnerReads
    <3> QED
      BY <3>1, <3>2 DEF OwnerReads, RowLocked
  <2>5. CASE HandoffRead(q)
    BY <2>1, <2>5, ReadKeepsReads DEF HandoffRead
  <2> QED
    BY <1>3, <2>2, <2>3, <2>4, <2>5 DEF OwnerStep
<1>4. ASSUME NEW q \in Customers, CustomerStep(q) PROVE OwnerReads'
  <2>1. q \in Handlers
    BY DEF Handlers
  <2>2. CASE \E m \in PickupMethods : SwitchRead(q, m)
    BY <2>1, <2>2, ReadKeepsReads DEF SwitchRead
  <2>3. CASE SwitchCommit(q) \/ ReceiveCommit(q)
    BY <2>1, <2>3, EndKeepsReads DEF SwitchCommit, ReceiveCommit
  <2>4. CASE ConfirmRead(q)
    <3>1. ReadRow(q, "confirm", "CONFIRMED") /\ delivery # "AWAITING_PAYMENT"
      BY <2>4 DEF ConfirmRead
    <3> QED
      BY <2>1, <3>1, ReadKeepsReads
  <2>5. CASE ReceiveRead(q)
    BY <2>1, <2>5, ReadKeepsReads DEF ReceiveRead
  <2>6. CASE SwitchConflict(q) \/ ReceiveCheck(q)
    BY <1>2, <2>1, <2>6, CheckKeepsReads DEF SwitchConflict, ReceiveCheck
  <2> QED
    BY <1>4, <2>2, <2>3, <2>4, <2>5, <2>6 DEF CustomerStep
<1>5. ASSUME NEW q \in Handlers, CompleteCheck(q) \/ CompleteConflict(q) PROVE OwnerReads'
  BY <1>2, <1>5, CheckKeepsReads DEF CompleteCheck, CompleteConflict
<1>6. ASSUME NEW q \in Handlers, CompleteCommit(q) PROVE OwnerReads'
  <2>1. /\ jreq'[q].op = "idle" /\ \A p \in Handlers : p # q => jreq'[p] = jreq[p]
        /\ delivery' = "CONFIRMED"
    BY <1>6 DEF CompleteCommit, Done, NoHandler, JourneyInv, JourneyRows
  <2> QED
    BY <2>1 DEF OwnerReads, RowLocked
<1> QED
  BY <1>1, <1>3, <1>4, <1>5, <1>6, LedgerStepUnlocks
  DEF JourneyNext, JourneyReturnRental, allVars, vars

LEMMA OwnerReadsInit == JourneyInit => OwnerReads
BY DEF JourneyInit, OwnerReads, NoHandler, RowLocked

\* Of the steps that move a locked order on, only those of the ledger are left.
LEMMA LockedMovedByLedger ==
    ASSUME JourneyInv, OwnerReads, [JourneyNext]_allVars,
           delivery = "AWAITING_PAYMENT", delivery' \notin {"AWAITING_PAYMENT", "CANCELED"}
    PROVE  HandlerStep \/ \E fee \in Fees : ReturnRental(fee)
<1>1. ASSUME NEW q \in Owners PROVE ~OwnerStep(q)
  <2>1. q \in Handlers
    BY DEF Handlers
  <2>2. ~UpdateCommit(q)
    BY <2>1 DEF UpdateCommit, OwnerReads
  <2> QED
    BY <2>2 DEF OwnerStep, UpdateRead, CancelCheck, HandoffRead, ReadRow, Checked, Refused
<1>2. ASSUME NEW q \in Customers PROVE ~CustomerStep(q)
  BY DEF CustomerStep, SwitchRead, SwitchCommit, SwitchConflict, ConfirmRead, ReceiveRead,
     ReceiveCheck, ReceiveCommit, ReadRow, Checked, Refused
<1>3. ASSUME NEW q \in Handlers
      PROVE  ~(CompleteCheck(q) \/ CompleteCommit(q) \/ CompleteConflict(q))
  <2>1. ~CompleteCommit(q)
    BY DEF CompleteCommit, Completable, OwnerReads, RowLocked
  <2> QED
    BY <2>1 DEF CompleteCheck, CompleteConflict, Checked, Refused
<1> QED
  BY <1>1, <1>2, <1>3 DEF JourneyNext, JourneyReturnRental, allVars, vars

LEMMA LedgerUnlocksForMoney ==
    ASSUME MoneyInv, HandlerStep \/ \E fee \in Fees : ReturnRental(fee), delivery' # delivery
    PROVE  paidIn' > paidIn
<1>0. paidIn \in Nat /\ \A r \in Requests : req[r].amount \in Nat
  BY DEF MoneyInv, TypeOK, Request
<1>1. ASSUME NEW r \in Requests, RecordPaymentCommit(r) PROVE paidIn' > paidIn
  <2>1. req[r].op = "payment"
    BY <1>1 DEF RecordPaymentCommit, UnlockAfter
  <2>2. req[r].amount > 0 /\ paidIn' = paidIn + req[r].amount
    BY <1>1, <2>1 DEF RecordPaymentCommit, MoneyInv, SnapshotsSound
  <2> QED
    BY <1>0, <2>2
<1>2. ASSUME NEW r \in Requests, VerifyCommit(r) PROVE paidIn' > paidIn
  <2>1. req[r].amount > 0 /\ paidIn' = paidIn + req[r].amount
    BY <1>2 DEF VerifyCommit, MoneyInv, SnapshotsSound
  <2> QED
    BY <1>0, <2>1
<1> QED
  BY <1>1, <1>2 DEF HandlerStep, ReturnRental, Begin, Refuse, RecordPaymentRead,
     RecordPaymentConflict, SubmitProofRead, SubmitProofCreate, ReviewRead, VerifyConflict,
     RejectCommit, RejectConflict

\* With one owner call at a time, a locked order moves on only in the step that
\* records money coming in: no refund, fee, switch or handoff opens it.
THEOREM OnlyPayment ==
    ASSUME OneOwner
    PROVE  JourneySpec => OnlyPaymentUnlocks
<1>1. JourneyInit => MoneyInv
  BY InitIndInv DEF JourneyInit, IndInv
<1>2. JourneyInv /\ OwnerReads /\ [JourneyNext]_allVars => OwnerReads'
  BY OwnerReadsKept
<1>3. MoneyInv /\ JourneyInv /\ OwnerReads /\ [JourneyNext]_allVars =>
         [delivery = "AWAITING_PAYMENT" /\ delivery' \notin {"AWAITING_PAYMENT", "CANCELED"} =>
              paidIn' > paidIn]_allVars
  BY LockedMovedByLedger, LedgerUnlocksForMoney
<1> QED
  BY <1>1, <1>2, <1>3, OwnerReadsInit, JourneyKeepsMoney, JourneyInvariance, PTL
  DEF JourneySpec, OnlyPaymentUnlocks

\* Of the steps that confirm an order only CompleteCommit is left.
LEMMA OwnerReadsPaid ==
    ASSUME JourneyInv, OwnerReads, [JourneyNext]_allVars,
           delivery' = "CONFIRMED", delivery # "CONFIRMED"
    PROVE  paymentStatus = "PAID"
<1>1. ASSUME NEW q \in Owners PROVE ~OwnerStep(q)
  <2>1. q \in Handlers
    BY DEF Handlers
  <2>2. ~UpdateCommit(q)
    BY <2>1 DEF UpdateCommit, OwnerReads
  <2> QED
    BY <2>2 DEF OwnerStep, UpdateRead, CancelCheck, HandoffRead, ReadRow, Checked, Refused
<1>2. ASSUME NEW q \in Customers PROVE ~CustomerStep(q)
  BY DEF CustomerStep, SwitchRead, SwitchCommit, SwitchConflict, ConfirmRead, ReceiveRead,
     ReceiveCheck, ReceiveCommit, ReadRow, Checked, Refused
<1>3. ASSUME HandlerStep \/ \E fee \in Fees : ReturnRental(fee) PROVE FALSE
  BY <1>3, LedgerStepUnlocks DEF UnlockDelivery
<1>4. ASSUME NEW q \in Handlers, CompleteCommit(q) PROVE paymentStatus = "PAID"
  BY <1>4 DEF CompleteCommit, Completable
<1>5. ASSUME NEW q \in Handlers, CompleteCheck(q) \/ CompleteConflict(q) PROVE FALSE
  BY <1>5 DEF CompleteCheck, CompleteConflict, Checked, Refused
<1> QED
  BY <1>1, <1>2, <1>3, <1>4, <1>5 DEF JourneyNext, JourneyReturnRental, allVars, vars

LEMMA JourneyKeepsTransfer ==
    ASSUME MoneyInv, TransferOnly, JourneyInv, [JourneyNext]_allVars
    PROVE  TransferOnly'
<1>1. CASE [Next]_vars
  BY <1>1, TransferKeeps DEF MoneyInv
<1>2. CASE UNCHANGED ledgerOnly
  BY <1>2 DEF ledgerOnly, proofVars, TransferOnly
<1> QED
  BY <1>1, <1>2, JourneyStepLedger

LEMMA JourneyKeepsSettled ==
    ASSUME MoneyInv, TransferOnly, JourneyInv, PaidMeansSettled, [JourneyNext]_allVars
    PROVE  PaidMeansSettled'
<1>1. CASE [Next]_vars
  BY <1>1, SettledKeeps
<1>2. CASE UNCHANGED ledgerOnly
  BY <1>2 DEF ledgerOnly, saleVars, proofVars, PaidMeansSettled, TotalsKept
<1> QED
  BY <1>1, <1>2, JourneyStepLedger

\* With one owner call at a time an order becomes CONFIRMED only at a moment when
\* its whole total is paid, late fee included, whatever entries, proofs and
\* reviews are in flight; but for a transfer order whose rental is back already.
THEOREM ConfirmedSettled ==
    ASSUME OneOwner
    PROVE  JourneySpec => ConfirmedWhenSettled
<1>1. JourneyInit => MoneyInv /\ TransferOnly
  BY InitIndInv DEF JourneyInit, IndInv
<1>2. JourneyInit => PaidMeansSettled
  BY AmountsAssumption DEF JourneyInit, Init, PaidMeansSettled, statusFromAmounts
<1>3. JourneyInv /\ OwnerReads /\ [JourneyNext]_allVars => OwnerReads'
  BY OwnerReadsKept
<1>4. MoneyInv /\ TransferOnly /\ JourneyInv /\ [JourneyNext]_allVars => TransferOnly'
  BY JourneyKeepsTransfer
<1>5. MoneyInv /\ TransferOnly /\ JourneyInv /\ PaidMeansSettled /\ [JourneyNext]_allVars =>
         PaidMeansSettled'
  BY JourneyKeepsSettled
<1>6. JourneyInv /\ OwnerReads /\ PaidMeansSettled /\ [JourneyNext]_allVars =>
         [TotalsKept /\ delivery' = "CONFIRMED" /\ delivery # "CONFIRMED" =>
              paymentStatus = "PAID" /\ amountPaid >= total]_allVars
  BY OwnerReadsPaid DEF PaidMeansSettled
<1> QED
  BY <1>1, <1>2, <1>3, <1>4, <1>5, <1>6, OwnerReadsInit, JourneyKeepsMoney, JourneyInvariance, PTL
  DEF JourneySpec, ConfirmedWhenSettled

\* Composed with the journey the balance is still its ledger's sum, whatever
\* owners, riders and customers do meanwhile: on an order that is not paid by
\* transfer, and on any order while one handler of money runs at a time.
THEOREM JourneyBalanceIsLedger ==
    /\ JourneySpec => [](~bankTransfer => LedgerMatchesBalance)
    /\ OneRequest => (JourneySpec => []LedgerMatchesBalance)
<1>1. JourneyInit => MoneyInv /\ TransferOnly /\ LedgerMatchesBalance /\ ReviewsCurrent
  BY InitIndInv, AmountsAssumption
  DEF JourneyInit, IndInv, Init, LedgerMatchesBalance, ReviewsCurrent, Idle
<1>2. MoneyInv /\ TransferOnly /\ JourneyInv /\ [JourneyNext]_allVars => TransferOnly'
  BY JourneyKeepsTransfer
<1>3. MoneyInv /\ TransferOnly /\ JourneyInv /\ (~bankTransfer => LedgerMatchesBalance)
          /\ [JourneyNext]_allVars => (~bankTransfer => LedgerMatchesBalance)'
  <2> SUFFICES ASSUME MoneyInv, TransferOnly, JourneyInv, ~bankTransfer => LedgerMatchesBalance,
                      [JourneyNext]_allVars
               PROVE  (~bankTransfer => LedgerMatchesBalance)'
    OBVIOUS
  <2>1. CASE [Next]_vars
    BY <2>1, EntriesMoveBalance, OwnerEntriesOnly, TransferFixed
  <2>2. CASE UNCHANGED ledgerOnly
    BY <2>2 DEF ledgerOnly, saleVars, entryVars, proofVars, LedgerMatchesBalance
  <2> QED
    BY <2>1, <2>2, JourneyStepLedger
<1>4. ASSUME OneRequest
      PROVE  MoneyInv /\ JourneyInv /\ LedgerMatchesBalance /\ ReviewsCurrent /\ [JourneyNext]_allVars
                 => (LedgerMatchesBalance /\ ReviewsCurrent)'
  <2> SUFFICES ASSUME MoneyInv, JourneyInv, LedgerMatchesBalance, ReviewsCurrent, [JourneyNext]_allVars
               PROVE  (LedgerMatchesBalance /\ ReviewsCurrent)'
    OBVIOUS
  <2>1. CASE [Next]_vars
    <3>1. \A r \in Requests : VerifyCommit(r) => req[r].paid = amountPaid
      BY DEF ReviewsCurrent, VerifyCommit
    <3> QED
      BY <1>4, <2>1, <3>1, EntriesMoveBalance, ReviewsCurrentKept
  <2>2. CASE UNCHANGED ledgerOnly
    BY <2>2 DEF ledgerOnly, saleVars, entryVars, LedgerMatchesBalance, ReviewsCurrent
  <2> QED
    BY <2>1, <2>2, JourneyStepLedger
<1>5. JourneySpec => [](~bankTransfer => LedgerMatchesBalance)
  BY <1>1, <1>2, <1>3, JourneyKeepsMoney, JourneyInvariance, PTL DEF JourneySpec
<1>6. ASSUME OneRequest PROVE JourneySpec => []LedgerMatchesBalance
  BY <1>1, <1>4, <1>6, JourneyKeepsMoney, JourneyInvariance, PTL DEF JourneySpec
<1> QED
  BY <1>5, <1>6

-----------------------------------------------------------------------------
(* A cancel looks at the balance and then writes.  Where no payment and no *)
(* verified transfer is in flight between the two, what it saw still holds. *)

CancelChecked(q) == jreq[q].op = "update" /\ jreq[q].to = "CANCELED" /\ jreq[q].checked

PaymentsApart ==
    \A r \in Requests, q \in Handlers : CancelChecked(q) => req[r].op \notin {"payment", "verify"}

CancelsSound == \A q \in Handlers : CancelChecked(q) => amountPaid = 0

\* A refund of nothing is refused, and no other handler takes from a balance of
\* nothing or adds to it.
LEMMA NothingStaysNothing ==
    ASSUME MoneyInv, HandlerStep, amountPaid = 0,
           \A r \in Requests : req[r].op \notin {"payment", "verify"}
    PROVE  amountPaid' = 0
<1>1. ASSUME NEW r \in Requests, RecordPaymentCommit(r) PROVE FALSE
  <2>1. req[r].op = "refund" /\ req[r].paid = 0
    BY <1>1 DEF RecordPaymentCommit, SnapshotCurrent
  <2>2. req[r].amount \in Nat /\ req[r].amount > 0 /\ req[r].amount <= req[r].paid
    BY <2>1 DEF MoneyInv, SnapshotsSound, TypeOK, Request
  <2> QED
    BY <2>1, <2>2
<1>2. ASSUME NEW r \in Requests, VerifyCommit(r) PROVE FALSE
  BY <1>2 DEF VerifyCommit
<1> QED
  BY <1>1, <1>2 DEF HandlerStep, Begin, Refuse, RecordPaymentRead, RecordPaymentConflict,
     SubmitProofRead, SubmitProofCreate, ReviewRead, VerifyConflict, RejectCommit, RejectConflict,
     saleVars

\* Outside the ledger only the check itself marks a cancel as checked.
LEMMA CancelMarkedByCheck ==
    ASSUME JourneyInv, UNCHANGED amountPaid, CancelsSound, NEW q \in Handlers,
           \/ Done(q)
           \/ Checked(q) /\ (jreq[q].op = "update" => amountPaid = 0)
           \/ \E op, to : ReadRow(q, op, to)
    PROVE  CancelsSound'
<1>0. jreq \in [Handlers -> JourneyRequest]
  BY DEF JourneyInv, JourneyRows
<1>1. CASE Done(q)
  BY <1>0, <1>1 DEF Done, NoHandler, CancelsSound, CancelChecked
<1>2. CASE Checked(q) /\ (jreq[q].op = "update" => amountPaid = 0)
  <2>1. jreq' = [jreq EXCEPT ![q] = [jreq[q] EXCEPT !.checked = TRUE]]
    BY <1>2 DEF Checked
  <2>2. jreq'[q].op = jreq[q].op /\ \A p \in Handlers : p # q => jreq'[p] = jreq[p]
    BY <1>0, <2>1 DEF JourneyRequest
  <2> QED
    BY <1>2, <2>2 DEF CancelsSound, CancelChecked
<1>3. ASSUME NEW op, NEW to, ReadRow(q, op, to) PROVE CancelsSound'
  <2>1. jreq'[q].checked = FALSE /\ \A p \in Handlers : p # q => jreq'[p] = jreq[p]
    BY <1>0, <1>3 DEF ReadRow, Row
  <2> QED
    BY <2>1 DEF CancelsSound, CancelChecked
<1> QED
  BY <1>1, <1>2, <1>3

LEMMA CancelsSoundKept ==
    ASSUME MoneyInv, JourneyInv, PaymentsApart, CancelsSound, [JourneyNext]_allVars
    PROVE  CancelsSound'
<1>1. CASE HandlerStep /\ UNCHANGED journeyVars
  <2> SUFFICES ASSUME NEW q \in Handlers, CancelChecked(q)' PROVE amountPaid' = 0
    BY DEF CancelsSound
  <2>1. CancelChecked(q)
    BY <1>1 DEF CancelChecked, journeyVars
  <2> QED
    BY <1>1, <2>1, NothingStaysNothing DEF CancelsSound, PaymentsApart
<1>2. CASE \E fee \in Fees : JourneyReturnRental(fee)
  BY <1>2 DEF JourneyReturnRental, ReturnRental, journeyVars, CancelsSound, CancelChecked
<1>3. ASSUME NEW q \in Owners, OwnerStep(q) PROVE CancelsSound'
  <2>1. q \in Handlers
    BY DEF Handlers
  <2>2. UNCHANGED amountPaid
    BY <1>3 DEF OwnerStep, UpdateRead, CancelCheck, UpdateCommit, HandoffRead, ReadRow, Checked,
       Refused, ledgerOnly, saleVars
  <2>3. \/ Done(q)
        \/ Checked(q) /\ (jreq[q].op = "update" => amountPaid = 0)
        \/ \E op, to : ReadRow(q, op, to)
    BY <1>3 DEF OwnerStep, UpdateRead, CancelCheck, UpdateCommit, HandoffRead, Refused
  <2> QED
    BY <2>1, <2>2, <2>3, CancelMarkedByCheck
<1>4. ASSUME NEW q \in Customers, CustomerStep(q) PROVE CancelsSound'
  <2>1. q \in Handlers
    BY DEF Handlers
  <2>2. UNCHANGED amountPaid
    BY <1>4 DEF CustomerStep, SwitchRead, SwitchCommit, SwitchConflict, ConfirmRead, ReceiveRead,
       ReceiveCheck, ReceiveCommit, ReadRow, Checked, Refused, ledgerOnly, saleVars
  <2>3. \/ Done(q)
        \/ Checked(q) /\ (jreq[q].op = "update" => amountPaid = 0)
        \/ \E op, to : ReadRow(q, op, to)
    BY <1>4 DEF CustomerStep, SwitchRead, SwitchCommit, SwitchConflict, ConfirmRead, ReceiveRead,
       ReceiveCheck, ReceiveCommit, Refused
  <2> QED
    BY <2>1, <2>2, <2>3, CancelMarkedByCheck
<1>5. ASSUME NEW q \in Handlers, CompleteCheck(q) \/ CompleteCommit(q) \/ CompleteConflict(q)
      PROVE  CancelsSound'
  <2>2. UNCHANGED amountPaid
    BY <1>5 DEF CompleteCheck, CompleteCommit, CompleteConflict, Checked, Refused, ledgerOnly,
       saleVars
  <2>3. Done(q) \/ (Checked(q) /\ (jreq[q].op = "update" => amountPaid = 0))
    BY <1>5 DEF CompleteCheck, CompleteCommit, CompleteConflict, Refused
  <2> QED
    BY <2>2, <2>3, CancelMarkedByCheck
<1>6. CASE UNCHANGED allVars
  BY <1>6 DEF allVars, journeyVars, vars, saleVars, CancelsSound, CancelChecked
<1> QED
  BY <1>1, <1>2, <1>3, <1>4, <1>5, <1>6 DEF JourneyNext

\* The sale is canceled by a commit of a cancel, which looked at the balance.
LEMMA CanceledByCancel ==
    ASSUME JourneyInv, CancelsSound, [JourneyNext]_allVars,
           saleStatus' = "CANCELED", saleStatus # "CANCELED"
    PROVE  amountPaid = 0
<1>1. ASSUME NEW q \in Owners, OwnerStep(q) PROVE CancelChecked(q)
  BY <1>1 DEF OwnerStep, UpdateRead, CancelCheck, UpdateCommit, HandoffRead, ReadRow, Checked,
     Refused, cancelVars, CancelChecked
<1>2. ASSUME NEW q \in Customers PROVE ~CustomerStep(q)
  BY DEF CustomerStep, SwitchRead, SwitchCommit, SwitchConflict, ConfirmRead, ReceiveRead,
     ReceiveCheck, ReceiveCommit, ReadRow, Checked, Refused, cancelVars
<1>3. ASSUME NEW q \in Handlers
      PROVE  ~(CompleteCheck(q) \/ CompleteCommit(q) \/ CompleteConflict(q))
  BY DEF CompleteCheck, CompleteCommit, CompleteConflict, Checked, Refused, cancelVars
<1>4. \E q \in Owners : OwnerStep(q)
  BY <1>2, <1>3 DEF JourneyNext, JourneyReturnRental, allVars, journeyVars, cancelVars
<1> QED
  BY <1>1, <1>4 DEF CancelsSound, Handlers

\* While no payment and no review that verifies a transfer is in flight between
\* a cancel's look at the balance and its write, only an order with nothing paid
\* is canceled.  Refunds, rejections and new proofs may run meanwhile.
THEOREM CancelUnpaid == JourneySpec /\ []PaymentsApart => CancelOnlyUnpaid
<1>1. JourneyInit => MoneyInv /\ CancelsSound
  BY InitIndInv DEF JourneyInit, IndInv, CancelsSound, CancelChecked, NoHandler
<1>2. MoneyInv /\ JourneyInv /\ PaymentsApart /\ CancelsSound /\ [JourneyNext]_allVars => CancelsSound'
  BY CancelsSoundKept
<1>3. JourneyInv /\ CancelsSound /\ [JourneyNext]_allVars =>
         [saleStatus' = "CANCELED" /\ saleStatus # "CANCELED" => amountPaid = 0]_allVars
  BY CanceledByCancel
<1> QED
  BY <1>1, <1>2, <1>3, JourneyKeepsMoney, JourneyInvariance, PTL DEF JourneySpec, CancelOnlyUnpaid

-----------------------------------------------------------------------------
(* The refinement, carried over to the composition.                        *)

\* What the journey never touches of the abstract ledger: all but its lock.
LedgerMoney == <<total, amountPaid, paidIn - paidOut, paymentStatus = "PAID">>

\* Every order, with its journey going on: each step is one of the atomic ledger, a
\* review of a transfer over what has moved since it was read, or leaves the amount
\* due, the balance, its entries and whether it is settled as they were, whoever
\* moves, cancels or confirms meanwhile.
THEOREM JourneyLedgerIsAtomic ==
    JourneySpec => /\ Ledger!Init
                   /\ [][\/ Ledger!Next
                         \/ bankTransfer /\ StaleReview
                         \/ UNCHANGED LedgerMoney]_(Ledger!ledgerVars)
<1> DEFINE Atomic == \/ Ledger!Next
                     \/ bankTransfer /\ StaleReview
                     \/ UNCHANGED LedgerMoney
<1>1. JourneyInit => MoneyInv /\ TransferOnly /\ Ledger!Init
  BY InitIndInv, LedgerInit DEF JourneyInit, IndInv
<1>2. MoneyInv /\ TransferOnly /\ JourneyInv /\ [JourneyNext]_allVars => TransferOnly'
  BY JourneyKeepsTransfer
<1>3. MoneyInv /\ TransferOnly /\ JourneyInv /\ [JourneyNext]_allVars =>
          [Atomic]_(Ledger!ledgerVars)
  <2> SUFFICES ASSUME MoneyInv, TransferOnly, JourneyInv, [JourneyNext]_allVars
               PROVE  [Atomic]_(Ledger!ledgerVars)
    OBVIOUS
  <2>1. CASE [Next]_vars
    <3>1. StaleReview => bankTransfer
      BY OwnerEntriesOnly DEF StaleReview
    <3> QED
      BY <2>1, <3>1, LedgerStep
  <2>2. CASE UNCHANGED ledgerOnly
    BY <2>2 DEF ledgerOnly, saleVars, entryVars, LedgerMoney
  <2> QED
    BY <2>1, <2>2, JourneyStepLedger
<1> QED
  BY <1>1, <1>2, <1>3, JourneyKeepsMoney, JourneyInvariance, PTL DEF JourneySpec
=============================================================================
