--------------------------- MODULE DeliveryJourney ---------------------------
(***************************************************************************)
(* The journey of one order, composed with the ledger that pays for it:    *)
(* owners move the Delivery row and check the handoff code, the customer   *)
(* changes the collector, photographs a rental and confirms, and a cancel  *)
(* gives the goods back.  Every handler is a Read step that keeps the row  *)
(* it found; those that look again inside their READ COMMITTED transaction *)
(* before they write have a Check step; then a Commit step writes, or a    *)
(* Refused step ends the handler.                                          *)
(*                                                                         *)
(* Courier details, photos and notes are data: the handlers that require   *)
(* them are taken to be given them.                                        *)
(***************************************************************************)
EXTENDS SaleLedger

CONSTANTS
    Owners, Customers,   \* journey handlers that may be in flight, by who calls them
    HasRental            \* the order holds a rental line

ASSUME HasRentalAssumption == HasRental \in BOOLEAN
ASSUME ActorsAssumption == Owners \cap Customers = {}

VARIABLES
    method,              \* Delivery.journeyMethod
    codeIssued,          \* Delivery.handoffCodeIssuedAt is set
    handedOff,           \* Delivery.handedOffAt is set
    dispatched, received,    \* the rental line's rentalDispatchedAt, rentalReceivedAt
    saleStatus,          \* Sale.status
    restoredAt,          \* Sale.inventoryRestoredAt is set
    restocks,            \* how often the order's goods went back to stock
    jreq                 \* the journey handlers in flight and what each has read

journeyRow == <<method, codeIssued, handedOff>>
rentalRow == <<dispatched, received>>
cancelVars == <<saleStatus, restoredAt, restocks>>
journeyVars == <<journeyRow, rentalRow, cancelVars, jreq>>
ledgerOnly == <<saleVars, entryVars, proofVars, rentalReturned, req>>
allVars == <<vars, journeyVars>>

Methods == {"SHOP_DELIVERY", "CUSTOMER_PICKUP", "CUSTOMER_RIDER"}
PickupMethods == {"CUSTOMER_PICKUP", "CUSTOMER_RIDER"}
Handlers == Owners \cup Customers

JourneyRequest ==
    [op : {"idle", "update", "switch", "handoff", "confirm", "receive"},
     checked : BOOLEAN, to : DeliveryStatus \cup Methods \cup {"none"},
     status : DeliveryStatus \cup {"none"}, method : Methods \cup {"none"},
     codeIssued : BOOLEAN, handedOff : BOOLEAN]

NoHandler == [op |-> "idle", checked |-> FALSE, to |-> "none", status |-> "none",
              method |-> "none", codeIssued |-> FALSE, handedOff |-> FALSE]

Row(op, to) == [op |-> op, checked |-> FALSE, to |-> to, status |-> delivery,
                method |-> method, codeIssued |-> codeIssued, handedOff |-> handedOff]

JourneyRows ==
    /\ delivery \in DeliveryStatus
    /\ method \in Methods /\ codeIssued \in BOOLEAN /\ handedOff \in BOOLEAN
    /\ dispatched \in BOOLEAN /\ received \in BOOLEAN
    /\ saleStatus \in {"COMPLETED", "CANCELED"} /\ restoredAt \in BOOLEAN /\ restocks \in Nat
    /\ jreq \in [Handlers -> JourneyRequest]

JourneyTypeOK == TypeOK /\ JourneyRows

JourneyInit ==
    /\ Init /\ delivery # "NONE"
    /\ method \in Methods
    /\ codeIssued = FALSE /\ handedOff = FALSE
    /\ dispatched = FALSE /\ received = FALSE
    /\ saleStatus = "COMPLETED" /\ restoredAt = FALSE /\ restocks = 0
    /\ jreq = [q \in Handlers |-> NoHandler]

-----------------------------------------------------------------------------
transitions ==
    [AWAITING_PAYMENT |-> {"CANCELED"},
     PREPARING        |-> {"READY_FOR_PICKUP", "IN_TRANSIT", "ISSUE", "CANCELED"},
     READY_FOR_PICKUP |-> {"IN_TRANSIT", "DELIVERED", "ISSUE", "CANCELED"},
     IN_TRANSIT       |-> {"DELIVERED", "ISSUE", "CANCELED"},
     DELIVERED        |-> {"ISSUE"},
     CONFIRMED        |-> {},
     ISSUE            |-> {"PREPARING", "IN_TRANSIT", "DELIVERED", "CANCELED"},
     CANCELED         |-> {}]

\* What a method allows of a status it has a row for (beside ISSUE and CANCELED);
\* a status without a row is left to transitions.
methodTransitions ==
    [SHOP_DELIVERY   |-> [PREPARING |-> {"READY_FOR_PICKUP"},
                          READY_FOR_PICKUP |-> {"IN_TRANSIT"}, IN_TRANSIT |-> {"DELIVERED"}],
     CUSTOMER_PICKUP |-> [PREPARING |-> {"READY_FOR_PICKUP"}, READY_FOR_PICKUP |-> {}],
     CUSTOMER_RIDER  |-> [PREPARING |-> {"READY_FOR_PICKUP"},
                          READY_FOR_PICKUP |-> {"IN_TRANSIT"}, IN_TRANSIT |-> {}]]

\* Every check DeliveryService.update makes of the status asked for.
MayMove(from, to, m) ==
    /\ to # from =>
           /\ to \in transitions[from]
           /\ from \in DOMAIN methodTransitions[m] =>
                  to \in methodTransitions[m][from] \cup {"ISSUE", "CANCELED"}
    /\ m = "CUSTOMER_PICKUP" => to \notin {"IN_TRANSIT", "DELIVERED"}
    /\ m = "CUSTOMER_RIDER" => to # "DELIVERED"

customerHandoffCodeAvailable(m, status) ==
    \/ m = "CUSTOMER_PICKUP" /\ status = "READY_FOR_PICKUP"
    \/ m = "SHOP_DELIVERY" /\ status \in {"IN_TRANSIT", "DELIVERED"}

\* A handler keeps the row it read, marks what it checked, and ends.
ReadRow(q, op, to) ==
    /\ jreq[q] = NoHandler
    /\ jreq' = [jreq EXCEPT ![q] = Row(op, to)]
    /\ UNCHANGED <<ledgerOnly, delivery, journeyRow, rentalRow, cancelVars>>

Checked(q) ==
    /\ jreq' = [jreq EXCEPT ![q].checked = TRUE]
    /\ UNCHANGED <<ledgerOnly, delivery, journeyRow, rentalRow, cancelVars>>

Done(q) == jreq' = [jreq EXCEPT ![q] = NoHandler]

Refused(q) ==
    /\ Done(q)
    /\ UNCHANGED <<ledgerOnly, delivery, journeyRow, rentalRow, cancelVars>>

-----------------------------------------------------------------------------
\* DeliveryService.update: the checks of the row it read ...
UpdateRead(q, to) ==
    /\ delivery = "AWAITING_PAYMENT" => to \in {"AWAITING_PAYMENT", "CANCELED"}
    /\ MayMove(delivery, to, method)
    /\ ReadRow(q, "update", to)

\* ... for a cancel, the balance read at the start of the transaction ...
CancelCheck(q) ==
    /\ jreq[q].op = "update" /\ jreq[q].to = "CANCELED" /\ ~jreq[q].checked
    /\ IF amountPaid = 0 THEN Checked(q) ELSE Refused(q)

\* cancelSaleAndRestoreInventory: inventoryRestoredAt lets one caller restock.
RestoredEveryTime == TRUE            \* mutant: the stamp not looked at
RestockOnce == ~restoredAt

CancelSale ==
    /\ saleStatus' = "CANCELED" /\ restoredAt' = TRUE
    /\ restocks' = IF RestockOnce THEN restocks + 1 ELSE restocks

\* The stamps update adds, computed from the row it read.
RiderNotStamped(row) == handedOff    \* mutant: the rider's handoff not recorded
HandedOffAfter(row) ==
    handedOff \/ (row.method = "CUSTOMER_RIDER" /\ row.to = "IN_TRANSIT" /\ ~row.handedOff)

CodeIssuedAfter(row) ==
    codeIssued \/ (customerHandoffCodeAvailable(row.method, row.to) /\ ~row.codeIssued)

\* ... and its write, by id: the row is not compared with what was read.
UpdateCommit(q) ==
    LET row == jreq[q]
    IN  /\ row.op = "update"
        /\ row.to = "CANCELED" => row.checked
        /\ delivery' = row.to
        /\ codeIssued' = CodeIssuedAfter(row)
        /\ handedOff' = HandedOffAfter(row)
        /\ dispatched' = (dispatched \/ (HasRental /\ row.to = "IN_TRANSIT"))
        /\ IF row.to = "CANCELED" THEN CancelSale ELSE UNCHANGED cancelVars
        /\ Done(q)
        /\ UNCHANGED <<ledgerOnly, method, received>>

-----------------------------------------------------------------------------
\* DeliveryService.switchPickupMethod: a compare-and-swap on status and method.
CollectableStatus == {"AWAITING_PAYMENT", "PREPARING", "READY_FOR_PICKUP"}
Collectable == delivery \in CollectableStatus /\ ~handedOff

SwitchRead(q, m) ==
    /\ method \in PickupMethods /\ m \in PickupMethods
    /\ Collectable
    /\ ReadRow(q, "switch", m)

RowUncompared(row) == TRUE           \* mutant: the row written by id
RowCurrent(row) == delivery = row.status /\ method = row.method /\ ~handedOff

SwitchCommit(q) ==
    LET row == jreq[q]
    IN  /\ row.op = "switch"
        /\ RowCurrent(row)
        /\ method' = row.to
        /\ codeIssued' = (row.to = "CUSTOMER_PICKUP" /\ row.status = "READY_FOR_PICKUP")
        /\ Done(q)
        /\ UNCHANGED <<ledgerOnly, delivery, handedOff, rentalRow, cancelVars>>

SwitchConflict(q) == jreq[q].op = "switch" /\ ~RowCurrent(jreq[q]) /\ Refused(q)

-----------------------------------------------------------------------------
\* The two ways to complete a delivery: the owner enters the handoff code
\* (confirmHandoff), or the customer confirms (confirm).
HandoffRead(q) ==
    /\ \/ method = "CUSTOMER_PICKUP" /\ delivery = "READY_FOR_PICKUP"
       \/ method = "SHOP_DELIVERY" /\ delivery = "DELIVERED"
    /\ codeIssued
    /\ ReadRow(q, "handoff", "CONFIRMED")

ConfirmRead(q) ==
    /\ delivery = IF method = "CUSTOMER_RIDER" THEN "IN_TRANSIT" ELSE "DELIVERED"
    /\ ReadRow(q, "confirm", "CONFIRMED")

\* assertPaymentSettled, read inside the transaction before its write.
PhotoNotAsked == TRUE                \* mutant: a rental needs no receipt photo
RentalPhotographed == HasRental => received

assertPaymentSettled == RentalPhotographed /\ paymentStatus = "PAID" /\ amountPaid >= total

CompleteCheck(q) ==
    /\ jreq[q].op \in {"handoff", "confirm"} /\ ~jreq[q].checked
    /\ IF assertPaymentSettled THEN Checked(q) ELSE Refused(q)

\* delivery.update where status is the one read and the sale is PAID
StatusOnly(row) == delivery = row.status    \* mutant: the sale not compared
Completable(row) == delivery = row.status /\ paymentStatus = "PAID"

CompleteCommit(q) ==
    LET row == jreq[q]
    IN  /\ row.op \in {"handoff", "confirm"} /\ row.checked
        /\ Completable(row)
        /\ delivery' = "CONFIRMED"
        /\ handedOff' = (handedOff \/ row.op = "handoff")
        /\ Done(q)
        /\ UNCHANGED <<ledgerOnly, method, codeIssued, rentalRow, cancelVars>>

CompleteConflict(q) ==
    /\ jreq[q].op \in {"handoff", "confirm"} /\ jreq[q].checked
    /\ ~Completable(jreq[q])
    /\ Refused(q)

-----------------------------------------------------------------------------
\* DeliveryService.receiveRental (rentalForCustomer, then its SERIALIZABLE
\* transaction, whose reads of the delivery and the sale come first).
ReceiveRead(q) ==
    /\ HasRental /\ ~received
    /\ delivery = CASE method = "CUSTOMER_PICKUP" -> "READY_FOR_PICKUP"
                     [] method = "CUSTOMER_RIDER" -> "IN_TRANSIT"
                     [] OTHER -> "DELIVERED"
    /\ saleStatus # "CANCELED" /\ paymentStatus = "PAID"
    /\ ReadRow(q, "receive", "none")

ReceiveCheck(q) ==
    /\ jreq[q].op = "receive" /\ ~jreq[q].checked
    /\ IF delivery = jreq[q].status /\ saleStatus # "CANCELED" /\ paymentStatus = "PAID"
       THEN Checked(q) ELSE Refused(q)

ReceiveCommit(q) ==
    /\ jreq[q].op = "receive" /\ jreq[q].checked
    /\ received' = TRUE
    /\ Done(q)
    /\ UNCHANGED <<ledgerOnly, delivery, journeyRow, dispatched, cancelVars>>

\* returnRental with its own guards: handed out, and no fee on a canceled order.
JourneyReturnRental(fee) ==
    /\ HasRental /\ (dispatched \/ received)
    /\ fee > 0 => saleStatus # "CANCELED"
    /\ ReturnRental(fee)
    /\ UNCHANGED journeyVars

OwnerStep(q) ==
    \/ \E to \in DeliveryStatus : UpdateRead(q, to)
    \/ CancelCheck(q)
    \/ UpdateCommit(q)
    \/ HandoffRead(q)

CustomerStep(q) ==
    \/ \E m \in PickupMethods : SwitchRead(q, m)
    \/ SwitchCommit(q)
    \/ SwitchConflict(q)
    \/ ConfirmRead(q)
    \/ ReceiveRead(q)
    \/ ReceiveCheck(q)
    \/ ReceiveCommit(q)

JourneyNext ==
    \/ HandlerStep /\ UNCHANGED journeyVars
    \/ \E fee \in Fees : JourneyReturnRental(fee)
    \/ \E q \in Owners : OwnerStep(q)
    \/ \E q \in Customers : CustomerStep(q)
    \/ \E q \in Handlers : CompleteCheck(q) \/ CompleteCommit(q) \/ CompleteConflict(q)

JourneySpec == JourneyInit /\ [][JourneyNext]_allVars

-----------------------------------------------------------------------------
\* The goods of an order go back to stock exactly when its sale is canceled, and
\* once, although a canceled journey may be canceled again.
RestockedOnce ==
    /\ restocks = IF saleStatus = "CANCELED" THEN 1 ELSE 0
    /\ delivery = "CANCELED" => saleStatus = "CANCELED"

\* docs/RENTALS.md: a rental's receipt photo comes "before final confirmation".
ReceivedBeforeConfirmed == HasRental /\ delivery = "CONFIRMED" => received

\* A customer-rider order is confirmed only after the merchant's handoff,
\* although the customer may change the collector while the owner dispatches.
RiderConfirmedAfterHandoff ==
    delivery = "CONFIRMED" /\ method = "CUSTOMER_RIDER" => handedOff

\* An order becomes CONFIRMED only at a moment its sale is fully paid: what
\* completeDelivery compares is PAID alone, and proofs are reviewed meanwhile.
\* Stated for one owner call at a time, and not for a transfer order whose rental
\* is back already (a review may write PAID from the total before its late fee).
ConfirmedWhenSettled ==
    [][TotalsKept /\ delivery' = "CONFIRMED" /\ delivery # "CONFIRMED" =>
           paymentStatus = "PAID" /\ amountPaid >= total]_allVars

\* "Pickup method can no longer be changed after handoff."
MethodFixedAfterHandoff == [][method' # method => Collectable]_allVars

\* docs/PAYMENT_EVIDENCE.md: "refunds never unlock fulfilment".  A locked order
\* moves on only with money coming in.
OnlyPaymentUnlocks ==
    [][delivery = "AWAITING_PAYMENT" /\ delivery' \notin {"AWAITING_PAYMENT", "CANCELED"} =>
           paidIn' > paidIn]_allVars

\* delivery.service.spec.ts: "blocks cancellation until every recorded payment
\* has been refunded".
CancelOnlyUnpaid ==
    [][saleStatus' = "CANCELED" /\ saleStatus # "CANCELED" => amountPaid = 0]_allVars

-----------------------------------------------------------------------------
(* The strengthening that makes the first three inductive.                 *)

\* What stays true of a row that a handler read, whatever happened since.
ReadSound(row) ==
    /\ row.op # "idle" => (row.method = "SHOP_DELIVERY" <=> method = "SHOP_DELIVERY")
    /\ row.handedOff => handedOff
    /\ row.op = "update" =>
           /\ MayMove(row.status, row.to, row.method)
           /\ row.to \in DeliveryStatus /\ row.method \in Methods
           /\ row.to = "CONFIRMED" =>
                  RentalPhotographed /\ (method # "SHOP_DELIVERY" => handedOff)
    /\ row.op = "switch" => row.to \in PickupMethods /\ row.method \in PickupMethods
                           /\ row.status \in CollectableStatus
    /\ row.op \in {"handoff", "confirm"} /\ row.checked => RentalPhotographed
    /\ row.op = "confirm" =>
           IF row.method = "CUSTOMER_RIDER" THEN handedOff ELSE row.status = "DELIVERED"

ReadsSound == \A q \in Handlers : ReadSound(jreq[q])

\* Which statuses each way of collecting can be in.
MethodReached ==
    /\ delivery = "IN_TRANSIT" /\ method = "CUSTOMER_RIDER" => handedOff
    /\ delivery = "DELIVERED" => method = "SHOP_DELIVERY"
    /\ delivery = "CONFIRMED" /\ method # "SHOP_DELIVERY" => handedOff

JourneyInv ==
    /\ JourneyRows
    /\ RestockedOnce /\ (restoredAt <=> saleStatus = "CANCELED")
    /\ ReceivedBeforeConfirmed
    /\ ReadsSound /\ MethodReached
=============================================================================
