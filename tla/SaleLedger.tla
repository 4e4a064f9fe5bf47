----------------------------- MODULE SaleLedger -----------------------------
(***************************************************************************)
(* The payment ledger of one sale, paid by transfer or not: its balance,   *)
(* the PaymentEntry rows behind it, the customer's PaymentProof rows, and  *)
(* the delivery lock that the first payment opens.                         *)
(*                                                                         *)
(* Several HTTP requests run at once.  A handler reads its rows before it  *)
(* opens its transaction, so each one is two steps here: a Read step that  *)
(* keeps a snapshot in req[r], and a step that commits (or is refused by)  *)
(* the READ COMMITTED transaction that follows.  Prisma's returnRental     *)
(* transaction is SERIALIZABLE and reads inside it, so it is one step.     *)
(***************************************************************************)
EXTENDS Naturals
LOCAL INSTANCE FiniteSetsExt

CONSTANTS
    Requests,       \* handlers that may be in flight at once
    Proofs,         \* ids of the transfer proofs a customer may submit
    Totals,         \* order totals a sale may open with, in minor units
    Amounts,        \* amounts a client may enter (dto.amount)
    Fees,           \* late fees a rental return may add (0: waived)
    LedgerCap,      \* bound: sum of PAYMENT, and of REFUND, entries
    SourceRequest,  \* the sale came from a signed-in customer's request
    NoProof

ASSUME AmountsAssumption == /\ Totals \subseteq Nat
                            /\ Amounts \subseteq Nat \ {0}
                            /\ Fees \subseteq Nat
                            /\ LedgerCap \in Nat
ASSUME NoProofAssumption == NoProof \notin Proofs
ASSUME SourceRequestAssumption == SourceRequest \in BOOLEAN

VARIABLES
    total, amountPaid, paymentStatus,   \* the Sale row
    bankTransfer,                       \* its PaymentInstruction's method is BANK_TRANSFER
    paidIn, paidOut,                    \* sums of its PAYMENT and REFUND entries
    entries,                            \* PaymentEntry rows carrying each paymentProofId
    proofStatus, proofAmount,           \* the PaymentProof rows
    noticed,                            \* proofs whose rejection notice exists (dedupeKey)
    delivery,                           \* the Delivery row's status, "NONE" without a journey
    rentalReturned,                     \* the rental line has its return recorded
    req                                 \* the handlers in flight and what each has read

saleVars == <<total, amountPaid, paymentStatus>>
entryVars == <<paidIn, paidOut, entries>>
proofVars == <<bankTransfer, proofStatus, proofAmount, noticed>>
vars == <<saleVars, entryVars, proofVars, delivery, rentalReturned, req>>

PaymentStatus == {"UNPAID", "PARTIAL", "PAID", "REFUNDED"}
DeliveryStatus == {"AWAITING_PAYMENT", "PREPARING", "READY_FOR_PICKUP",
                   "IN_TRANSIT", "DELIVERED", "CONFIRMED", "ISSUE", "CANCELED"}
ProofStatus == {"NONE", "SUBMITTED", "VERIFIED", "REJECTED"}

Request == [op : {"idle", "payment", "refund", "submit", "verify", "reject"},
            amount : Nat, paid : Nat, total : Nat, proof : Proofs \cup {NoProof}]

Idle == [op |-> "idle", amount |-> 0, paid |-> 0, total |-> 0, proof |-> NoProof]

\* What the handler keeps of the sale it read.
Snapshot(op, amount, p) ==
    [op |-> op, amount |-> amount, paid |-> amountPaid, total |-> total, proof |-> p]

\* sales.service statusFromAmounts and payments.service paymentStatus agree on
\* every amount that is not negative.
statusFromAmounts(paid, due) ==
    IF paid = 0 THEN "UNPAID" ELSE IF paid >= due THEN "PAID" ELSE "PARTIAL"

TypeOK ==
    /\ total \in Nat /\ amountPaid \in Nat /\ paymentStatus \in PaymentStatus
    /\ bankTransfer \in BOOLEAN
    /\ paidIn \in Nat /\ paidOut \in Nat /\ entries \in [Proofs -> Nat]
    /\ proofStatus \in [Proofs -> ProofStatus] /\ proofAmount \in [Proofs -> Nat]
    /\ noticed \subseteq Proofs
    /\ delivery \in DeliveryStatus \cup {"NONE"}
    /\ rentalReturned \in BOOLEAN
    /\ req \in [Requests -> Request]

\* sales.create: an opening payment is the first ledger entry, and a journey
\* waits for payment exactly when a transfer is due and nothing was paid.
Init ==
    /\ total \in Totals
    /\ amountPaid \in 0 .. total
    /\ paymentStatus = statusFromAmounts(amountPaid, total)
    /\ paidIn = amountPaid /\ paidOut = 0
    /\ entries = [p \in Proofs |-> 0]
    /\ bankTransfer \in BOOLEAN
    /\ proofStatus = [p \in Proofs |-> "NONE"]
    /\ proofAmount = [p \in Proofs |-> 0]
    /\ noticed = {}
    /\ delivery \in {"NONE", IF bankTransfer /\ amountPaid = 0 THEN "AWAITING_PAYMENT"
                                                               ELSE "PREPARING"}
    /\ rentalReturned = FALSE
    /\ req = [r \in Requests |-> Idle]

-----------------------------------------------------------------------------
\* Every handler starts from idle and ends there, whatever became of it.
Begin(r, snapshot) ==
    /\ req[r] = Idle
    /\ req' = [req EXCEPT ![r] = snapshot]
    /\ UNCHANGED <<saleVars, entryVars, proofVars, delivery, rentalReturned>>

End(r) == req' = [req EXCEPT ![r] = Idle]

Refuse(r) ==
    /\ End(r)
    /\ UNCHANGED <<saleVars, entryVars, proofVars, delivery, rentalReturned>>

\* delivery.updateMany where status = AWAITING_PAYMENT
UnlockForgotten == UNCHANGED delivery   \* mutant: the unlock left out

UnlockDelivery ==
    delivery' = IF delivery = "AWAITING_PAYMENT" THEN "PREPARING" ELSE delivery

UnlockAlways(type) == UnlockDelivery     \* mutant: a refund unlocks too
UnlockAfter(type) == IF type = "payment" THEN UnlockDelivery ELSE UNCHANGED delivery

\* The balance an amount would produce: neither above the total nor below zero.
FitsTotal(amount) == amount <= total    \* mutant: forgets what is already paid
FitsBalance(amount) == amountPaid + amount <= total

RefundFitsTotal(amount) == amount <= total   \* mutant: refunds what was never paid
RefundFits(amount) == amount <= amountPaid

\* SalesService.recordPayment, up to the check of the balance it would produce.
RecordPaymentRead(r, type, amount) ==
    /\ IF type = "refund" THEN RefundFits(amount) ELSE FitsBalance(amount)
    /\ Begin(r, Snapshot(type, amount, NoProof))

\* ... its transaction: a compare-and-swap on the balance and total it read,
\* the ledger entry, and the unlock for a payment.
SnapshotIgnored(r) == TRUE                           \* mutant: no comparison
SnapshotPaidCurrent(r) == req[r].paid = amountPaid   \* mutant: total not compared
SnapshotCurrent(r) == req[r].paid = amountPaid /\ req[r].total = total

RecordPaymentCommit(r) ==
    LET refund == req[r].op = "refund"
        nextPaid == IF refund THEN req[r].paid - req[r].amount
                              ELSE req[r].paid + req[r].amount
    IN  /\ req[r].op \in {"payment", "refund"}
        /\ SnapshotCurrent(r)
        /\ amountPaid' = nextPaid
        /\ paymentStatus' = IF refund /\ nextPaid = 0 THEN "REFUNDED"
                            ELSE statusFromAmounts(nextPaid, req[r].total)
        /\ IF refund
           THEN /\ paidOut + req[r].amount <= LedgerCap
                /\ paidOut' = paidOut + req[r].amount
                /\ UNCHANGED paidIn
           ELSE /\ paidIn + req[r].amount <= LedgerCap
                /\ paidIn' = paidIn + req[r].amount
                /\ UNCHANGED paidOut
        /\ UnlockAfter(req[r].op)
        /\ End(r)
        /\ UNCHANGED <<total, entries, proofVars, rentalReturned>>

RecordPaymentConflict(r) ==
    /\ req[r].op \in {"payment", "refund"}
    /\ ~SnapshotCurrent(r)
    /\ Refuse(r)

-----------------------------------------------------------------------------
\* PaymentsService.submitProof: the proofs awaiting review are set against the
\* balance before the image is registered and the row created.
PendingAmount ==
    MapThenSumSet(LAMBDA p : proofAmount[p], {p \in Proofs : proofStatus[p] = "SUBMITTED"})

SubmitProofRead(r, amount) ==
    /\ bankTransfer /\ amountPaid < total                  \* assertBankTransferOpen
    /\ amountPaid + PendingAmount + amount <= total
    /\ Begin(r, Snapshot("submit", amount, NoProof))

SubmitProofCreate(r, p) ==
    /\ req[r].op = "submit"
    /\ proofStatus[p] = "NONE"
    /\ proofStatus' = [proofStatus EXCEPT ![p] = "SUBMITTED"]
    /\ proofAmount' = [proofAmount EXCEPT ![p] = req[r].amount]
    /\ End(r)
    /\ UNCHANGED <<saleVars, entryVars, bankTransfer, noticed, delivery, rentalReturned>>

\* PaymentsService.reviewProof, up to its checks of the proof and sale it read.
ReviewRead(r, p, decision) ==
    /\ proofStatus[p] = "SUBMITTED"
    /\ decision = "verify" => FitsBalance(proofAmount[p])
    /\ Begin(r, Snapshot(decision, proofAmount[p], p))

\* PaymentEntry.paymentProofId is unique.
EntryRepeatable(p) == TRUE              \* mutant: the column not unique
EntryFree(p) == entries[p] = 0

\* decision VERIFIED: the sale is written from the snapshot, without comparing
\* it; only the unique paymentProofId of the entry refuses a second review.
VerifyCommit(r) ==
    LET p == req[r].proof
        nextPaid == req[r].paid + req[r].amount
    IN  /\ req[r].op = "verify"
        /\ EntryFree(p)
        /\ paidIn + req[r].amount <= LedgerCap
        /\ entries' = [entries EXCEPT ![p] = @ + 1]
        /\ paidIn' = paidIn + req[r].amount
        /\ amountPaid' = nextPaid
        /\ paymentStatus' = statusFromAmounts(nextPaid, req[r].total)
        /\ UnlockDelivery
        /\ proofStatus' = [proofStatus EXCEPT ![p] = "VERIFIED"]
        /\ End(r)
        /\ UNCHANGED <<total, paidOut, bankTransfer, proofAmount, noticed, rentalReturned>>

VerifyConflict(r) ==
    /\ req[r].op = "verify"
    /\ ~EntryFree(req[r].proof)
    /\ Refuse(r)

\* decision REJECTED: the row is written by id; the customer's notice carries a
\* unique dedupeKey, so a second rejection of a shop order's proof rolls back.
NoticeRefused(p) == SourceRequest /\ p \in noticed

RejectCommit(r) ==
    LET p == req[r].proof
    IN  /\ req[r].op = "reject"
        /\ ~NoticeRefused(p)
        /\ proofStatus' = [proofStatus EXCEPT ![p] = "REJECTED"]
        /\ noticed' = IF SourceRequest THEN noticed \cup {p} ELSE noticed
        /\ End(r)
        /\ UNCHANGED <<saleVars, entryVars, bankTransfer, proofAmount, delivery, rentalReturned>>

RejectConflict(r) ==
    /\ req[r].op = "reject"
    /\ NoticeRefused(req[r].proof)
    /\ Refuse(r)

StatusPartialAfterFee == "PARTIAL"      \* mutant: no test of the balance
StatusAfterFee == IF amountPaid > 0 THEN "PARTIAL" ELSE "UNPAID"

\* DeliveryService.returnRental, its effect on the ledger: an agreed late fee
\* raises the total once.  DeliveryJourney adds the journey's own guards.
ReturnRental(fee) ==
    /\ ~rentalReturned
    /\ fee > 0 => paymentStatus # "REFUNDED"
    /\ rentalReturned' = TRUE
    /\ total' = total + fee
    /\ paymentStatus' = IF fee = 0 THEN paymentStatus ELSE StatusAfterFee
    /\ UNCHANGED <<amountPaid, entryVars, proofVars, delivery, req>>

-----------------------------------------------------------------------------
HandlerStep ==
    \E r \in Requests :
        \/ \E type \in {"payment", "refund"}, amount \in Amounts :
               RecordPaymentRead(r, type, amount)
        \/ RecordPaymentCommit(r)
        \/ RecordPaymentConflict(r)
        \/ \E amount \in Amounts : SubmitProofRead(r, amount)
        \/ \E p \in Proofs : SubmitProofCreate(r, p)
        \/ \E p \in Proofs, decision \in {"verify", "reject"} : ReviewRead(r, p, decision)
        \/ VerifyCommit(r)
        \/ VerifyConflict(r)
        \/ RejectCommit(r)
        \/ RejectConflict(r)

Next == HandlerStep \/ \E fee \in Fees : ReturnRental(fee)

Spec == Init /\ [][Next]_vars

-----------------------------------------------------------------------------
(* What the ledger keeps whatever the handlers interleave.                 *)

\* The recorded balance stays between nothing and the whole order, although
\* reviewProof writes a balance computed from rows read earlier.
BalanceInRange == amountPaid <= total

\* A transfer proof enters the ledger at most once, and a verified proof did,
\* however many reviewers decide on it at the same time.
ProofEnteredOnce ==
    \A p \in Proofs : /\ entries[p] <= 1
                      /\ proofStatus[p] = "VERIFIED" => entries[p] = 1

\* Only an order whose transfer has not come is left locked: recordPayment and
\* reviewProof both move AWAITING_PAYMENT on in the transaction that pays.
LockedMeansUnpaid == delivery = "AWAITING_PAYMENT" => bankTransfer /\ amountPaid = 0

\* The status tells a sale with no money from one with some, whichever of the
\* three writers wrote it last (statusFromAmounts, paymentStatus, returnRental).
UnpaidMeansNoMoney == paymentStatus \in {"UNPAID", "REFUNDED"} <=> amountPaid = 0

\* An entry the owner records (recordPayment) moves the balance by exactly its
\* amount: the compare-and-swap loses nothing another handler committed.
OwnerEntryMovesBalance ==
    [][entries' = entries => amountPaid' + paidOut' + paidIn = amountPaid + paidOut + paidIn']_vars

\* docs/PAYMENT_EVIDENCE.md: balance changes compare against the recorded
\* balance in the ledger entry's transaction, so the balance is the ledger's sum.
LedgerMatchesBalance == amountPaid + paidOut = paidIn

\* A sale shown as PAID (the gate of every confirmation) is fully paid: one paid
\* by transfer until its rental's return is recorded, since a review writes from
\* the total it read and a late fee may have raised it; any other for good.
TotalsKept == ~bankTransfer \/ ~rentalReturned
PaidMeansSettled == TotalsKept /\ paymentStatus = "PAID" => amountPaid >= total

\* What a handler in flight has read: a review's or a payment's snapshot leaves
\* room for its amount, and a total only ever grows, by a return's late fee.
SnapshotsSound ==
    \A r \in Requests :
        /\ req[r].total <= total
        /\ ~rentalReturned /\ req[r].op # "idle" => req[r].total = total
        /\ req[r].op \in {"payment", "verify"} =>
               req[r].amount > 0 /\ req[r].paid + req[r].amount <= req[r].total
        /\ req[r].op = "refund" => req[r].amount > 0 /\ req[r].amount <= req[r].paid
        /\ req[r].op \in {"payment", "refund", "submit", "verify"} => req[r].amount \in Amounts
        /\ req[r].op \in {"verify", "reject"} => req[r].proof \in Proofs

\* A proof awaiting review claims an amount that a client entered.
ProofsClaim == \A p \in Proofs : proofStatus[p] = "SUBMITTED" => proofAmount[p] \in Amounts

\* Only a sale paid by transfer has proofs, and calls about them.
ProofCall == {"submit", "verify", "reject"}
TransferOnly ==
    ~bankTransfer => /\ \A p \in Proofs : proofStatus[p] = "NONE"
                     /\ \A r \in Requests : req[r].op \notin ProofCall

Ledger == INSTANCE PaymentLedger WITH
    DueAmounts <- Totals, EntryAmounts <- Amounts, FeeAmounts <- Fees,
    due <- total, balance <- amountPaid, entered <- paidIn - paidOut,
    settled <- paymentStatus = "PAID", open <- delivery # "AWAITING_PAYMENT"

\* A review that writes over a balance or a total which moved after it read them.
StaleReview == \E r \in Requests : VerifyCommit(r) /\ ~SnapshotCurrent(r)

\* docs/PAYMENT_EVIDENCE.md: balance changes compare against the recorded balance.
\* However an owner's entries, proofs, reviews and a return interleave, every step
\* on any order is one of the atomic PaymentLedger, or none, but for those reviews.
ImplementsPaymentLedger ==
    /\ Ledger!Init
    /\ [][Ledger!Next \/ StaleReview]_(Ledger!ledgerVars)

\* What holds of the money however the journey moves, and with it the lock.
MoneyInv == /\ TypeOK /\ SnapshotsSound /\ ProofsClaim
            /\ BalanceInRange /\ ProofEnteredOnce /\ UnpaidMeansNoMoney
IndInv == MoneyInv /\ TransferOnly /\ LockedMeansUnpaid
=============================================================================
