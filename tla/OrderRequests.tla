--------------------------- MODULE OrderRequests ---------------------------
(***************************************************************************)
(* Order requests, from the customer's submission to the sale: the owner's *)
(* status changes and proposed terms, the customer's answers and           *)
(* cancellation, the two ways a request becomes a sale (convertRequest and *)
(* a sale recorded by hand with sourceRequestId), the promotion            *)
(* reservations a request holds, and the stock its sale takes.             *)
(*                                                                         *)
(* All requests ask for one offered product of one shop.  A request has a  *)
(* line for each of up to two variants of it.  createRequest and           *)
(* convertRequest run whole in a SERIALIZABLE transaction; the other       *)
(* handlers read the request first and write it later by id.               *)
(***************************************************************************)
EXTENDS Naturals, FiniteSets

CONSTANTS
    Requests, Customers,
    Orders,            \* what a request may ask for: pairs of line quantities
    Changes,           \* ids of a request's term changes, in creation order (a bound)
    Owners, Buyers,    \* handlers of the shop's and of the customers' calls
    ClaimLimit, PerCustomerLimit,   \* of the promotion
    InitialStock,
    Crashes,           \* a handler may stop between its two writes
    NoCustomer

ASSUME OrdersAssumption == Orders \subseteq (Nat \ {0}) \X Nat
ASSUME BoundsAssumption ==
    /\ ClaimLimit \in Nat /\ PerCustomerLimit \in Nat /\ InitialStock \in Nat
    /\ IsFiniteSet(Requests) /\ Changes \subseteq Nat
    /\ Crashes \in BOOLEAN
ASSUME NamesAssumption ==
    NoCustomer \notin Customers /\ Owners \cap Buyers = {}

VARIABLES
    status, customer, order,   \* the OrderRequest rows
    change,      \* OrderRequestTermChange rows, by request and id
    claim,       \* the request's PromotionReservation: lapsed when expiresAt has passed
    sale,        \* the sale with this sourceRequestId; canceled once it is restored
    stock,       \* Product.stockCount
    op           \* the calls in flight

requestVars == <<status, customer, order>>
vars == <<requestVars, change, claim, sale, stock, op>>

OrderRequestStatus == {"SENT", "ACCEPTED", "NEEDS_CHANGES", "CONVERTED", "CANCELED"}
Cancelable == {"SENT", "ACCEPTED", "NEEDS_CHANGES"}
Resolved == {"ACCEPTED", "DECLINED", "SUPERSEDED"}

Claim == [state : {"NONE", "RESERVED", "REDEEMED", "RELEASED", "EXPIRED"},
          lapsed : BOOLEAN, units : Nat]
NoClaim == [state |-> "NONE", lapsed |-> FALSE, units |-> 0]

Sale == [state : {"none", "open", "canceled"}, units : Nat]
NoSale == [state |-> "none", units |-> 0]

Handlers == Owners \cup Buyers
Idle == [pc |-> "idle"]
Op == {Idle}
      \cup [pc : {"update"}, q : Requests, to : OrderRequestStatus]
      \cup [pc : {"supersede", "propose", "cancel", "release"}, q : Requests]
      \cup [pc : {"sale"}, q : Requests, units : Nat \ {0}]
      \cup [pc : {"answer"}, q : Requests, id : Changes,
            decision : {"ACCEPTED", "DECLINED"}]

TypeOK ==
    /\ status \in [Requests -> OrderRequestStatus \cup {"NONE"}]
    /\ customer \in [Requests -> Customers \cup {NoCustomer}]
    /\ order \in [Requests -> Orders \cup {<<0, 0>>}]
    /\ change \in [Requests -> [Changes -> Resolved \cup {"PENDING", "NONE"}]]
    /\ claim \in [Requests -> Claim] /\ sale \in [Requests -> Sale]
    /\ stock \in Nat
    /\ op \in [Handlers -> Op]

Init ==
    /\ status = [q \in Requests |-> "NONE"]
    /\ customer = [q \in Requests |-> NoCustomer]
    /\ order = [q \in Requests |-> <<0, 0>>]
    /\ change = [q \in Requests |-> [i \in Changes |-> "NONE"]]
    /\ claim = [q \in Requests |-> NoClaim] /\ sale = [q \in Requests |-> NoSale]
    /\ stock = InitialStock
    /\ op = [h \in Handlers |-> Idle]

Begin(h, o) == op[h] = Idle /\ op' = [op EXCEPT ![h] = o]
Finish(h) == op' = [op EXCEPT ![h] = Idle]

-----------------------------------------------------------------------------
\* PromotionsService

Held(q) == claim[q].state = "RESERVED" /\ ~claim[q].lapsed
Counts(q) == claim[q].state = "REDEEMED" \/ Held(q)

Counted == {q \in Requests : Counts(q)}
CountedFor(k) == {q \in Counted : customer[q] = k}

UnitsOf(held, S) == UNION {{q} \X (1 .. held[q].units) : q \in S}
claimedQuantity(S) == Cardinality(UnitsOf(claim, S))

OfferedUnredeemed(k, n) ==                   \* mutant: redeemed claims not counted
    /\ claimedQuantity({q \in Requests : Held(q)}) + n <= ClaimLimit
    /\ claimedQuantity({q \in CountedFor(k) : Held(q)}) + n <= PerCustomerLimit

\* quote, for each line before any of them is reserved
Offered(k, n) ==
    /\ claimedQuantity(Counted) + n <= ClaimLimit
    /\ claimedQuantity(CountedFor(k)) + n <= PerCustomerLimit

LineUnits(k, n) == IF Offered(k, n) THEN n ELSE 0
PromotionUnits(k, o) == LineUnits(k, o[1]) + LineUnits(k, o[2])

\* quote first marks the reservations that have run out.
Swept == [q \in Requests |->
             IF claim[q].state = "RESERVED" /\ claim[q].lapsed
             THEN [claim[q] EXCEPT !.state = "EXPIRED"] ELSE claim[q]]

ReleaseNothing(q) == UNCHANGED claim         \* mutant: the reservation kept
releaseForRequest(q) ==
    claim' = [claim EXCEPT ![q].state = IF @ = "RESERVED" THEN "RELEASED" ELSE @]

redeemForRequest(q) ==
    claim' = [claim EXCEPT ![q].state = IF Held(q) THEN "REDEEMED" ELSE @]

\* 48 hours after the reservation
Lapse(q) ==
    /\ Held(q)
    /\ claim' = [claim EXCEPT ![q].lapsed = TRUE]
    /\ UNCHANGED <<requestVars, change, sale, stock, op>>

-----------------------------------------------------------------------------
\* createRequest (and a cart's submit), one SERIALIZABLE transaction
createRequest(q, k, o) ==
    /\ status[q] = "NONE"
    /\ o[1] <= stock /\ o[2] <= stock
    /\ status' = [status EXCEPT ![q] = "SENT"]
    /\ customer' = [customer EXCEPT ![q] = k]
    /\ order' = [order EXCEPT ![q] = o]
    /\ claim' = [Swept EXCEPT ![q] =
                    IF PromotionUnits(k, o) > 0
                    THEN [state |-> "RESERVED", lapsed |-> FALSE, units |-> PromotionUnits(k, o)]
                    ELSE NoClaim]
    /\ UNCHANGED <<change, sale, stock, op>>

\* updateRequest: the owner may name any status; only CONVERTED is refused, and
\* that on the row read before the transaction.
UpdateRead(h, q, to) ==
    /\ status[q] \notin {"NONE", "CONVERTED"}
    /\ Begin(h, [pc |-> "update", q |-> q, to |-> to])
    /\ UNCHANGED <<requestVars, change, claim, sale, stock>>

UpdateWrite(h) ==
    LET q == op[h].q
    IN  /\ op[h].pc = "update"
        /\ status' = [status EXCEPT ![q] = op[h].to]
        /\ IF op[h].to = "CANCELED" THEN releaseForRequest(q) ELSE UNCHANGED claim
        /\ Finish(h)
        /\ UNCHANGED <<customer, order, change, sale, stock>>

\* requestTermsChange: its transaction supersedes what is pending, then creates
\* the new proposal; another owner's transaction can run between the two.
TermsRead(h, q) ==
    /\ status[q] \notin {"NONE", "CANCELED", "CONVERTED"}
    /\ \E i \in Changes : change[q][i] = "NONE"
    /\ Begin(h, [pc |-> "supersede", q |-> q])
    /\ UNCHANGED <<requestVars, change, claim, sale, stock>>

Unsuperseded(q) == change[q]                 \* mutant: the older proposal left open
Superseded(q) == [i \in Changes |-> IF change[q][i] = "PENDING" THEN "SUPERSEDED" ELSE change[q][i]]

TermsSupersede(h) ==
    LET q == op[h].q
    IN  /\ op[h].pc = "supersede"
        /\ change' = [change EXCEPT ![q] = Superseded(q)]
        /\ op' = [op EXCEPT ![h] = [pc |-> "propose", q |-> q]]
        /\ UNCHANGED <<requestVars, claim, sale, stock>>

TermsPropose(h, i) ==
    LET q == op[h].q
    IN  /\ op[h].pc = "propose"
        /\ \A j \in Changes : (change[q][j] = "NONE") <=> (j >= i)
        /\ change' = [change EXCEPT ![q][i] = "PENDING"]
        /\ status' = [status EXCEPT ![q] = "NEEDS_CHANGES"]
        /\ Finish(h)
        /\ UNCHANGED <<customer, order, claim, sale, stock>>

-----------------------------------------------------------------------------
\* applyTermsResponse: the customer answers the newest pending proposal.
AnswerRead(h, q, i, decision) ==
    /\ status[q] = "NEEDS_CHANGES"
    /\ change[q][i] = "PENDING" /\ \A j \in Changes : change[q][j] = "PENDING" => j <= i
    /\ Begin(h, [pc |-> "answer", q |-> q, id |-> i, decision |-> decision])
    /\ UNCHANGED <<requestVars, change, claim, sale, stock>>

AnyAnswerable(q, i) == TRUE                  \* mutant: the change updated by id alone
Answerable(q, i) == change[q][i] = "PENDING"

AnswerWrite(h) ==
    LET q == op[h].q
    IN  /\ op[h].pc = "answer"
        /\ Answerable(q, op[h].id)
        /\ change' = [change EXCEPT ![q][op[h].id] = op[h].decision]
        /\ status' = [status EXCEPT ![q] = "SENT"]
        /\ Finish(h)
        /\ UNCHANGED <<customer, order, claim, sale, stock>>

\* cancelRequestByToken: a compare-and-swap, then the release outside it
CancelRead(h, q) ==
    /\ status[q] \notin {"NONE", "CONVERTED", "CANCELED"} /\ sale[q] = NoSale
    /\ Begin(h, [pc |-> "cancel", q |-> q])
    /\ UNCHANGED <<requestVars, change, claim, sale, stock>>

CancelWrite(h) ==
    LET q == op[h].q
    IN  /\ op[h].pc = "cancel"
        /\ status[q] \in Cancelable
        /\ status' = [status EXCEPT ![q] = "CANCELED"]
        /\ op' = [op EXCEPT ![h] = [pc |-> "release", q |-> q]]
        /\ UNCHANGED <<customer, order, change, claim, sale, stock>>

CancelRelease(h) ==
    /\ op[h].pc = "release"
    /\ releaseForRequest(op[h].q)
    /\ Finish(h)
    /\ UNCHANGED <<requestVars, change, sale, stock>>

-----------------------------------------------------------------------------
\* SalesService.create: consumeSaleInventory takes all lines or none, and a
\* request has one sale (sourceRequestId is unique).
SoldAnyway(q, n) == sale[q] = NoSale         \* mutant: the stock not compared
Sellable(q, n) == sale[q] = NoSale /\ n <= stock

consumeSaleInventory(n) == stock' = stock - n

createSale(q, n) ==
    /\ sale' = [sale EXCEPT ![q] = [state |-> "open", units |-> n]]
    /\ consumeSaleInventory(n)
    /\ status' = [status EXCEPT ![q] = "CONVERTED"]

\* convertRequest, one SERIALIZABLE transaction
convertRequest(q) ==
    LET n == order[q][1] + order[q][2]
    IN  /\ status[q] \in {"SENT", "ACCEPTED"}
        /\ Sellable(q, n)
        /\ createSale(q, n)
        /\ redeemForRequest(q)
        /\ UNCHANGED <<customer, order, change, op>>

\* POST /sales with a sourceRequestId: the request is read before the transaction.
SaleRead(h, q, n) ==
    /\ status[q] \notin {"NONE", "CONVERTED", "CANCELED"}
    /\ Begin(h, [pc |-> "sale", q |-> q, units |-> n])
    /\ UNCHANGED <<requestVars, change, claim, sale, stock>>

SaleWrite(h) ==
    LET q == op[h].q
    IN  /\ op[h].pc = "sale"
        /\ Sellable(q, op[h].units)
        /\ createSale(q, op[h].units)
        /\ Finish(h)
        /\ UNCHANGED <<customer, order, change, claim>>

\* cancelSaleAndRestoreInventory, by the sale's journey, and again by a retry
RestoreAlways(q) == TRUE                     \* mutant: inventoryRestoredAt not compared
Restorable(q) == sale[q].state = "open"

CancelSale(q) ==
    /\ sale[q].state # "none"
    /\ sale' = [sale EXCEPT ![q].state = "canceled"]
    /\ stock' = IF Restorable(q) THEN stock + sale[q].units ELSE stock
    /\ UNCHANGED <<requestVars, change, claim, op>>

\* The write finds its condition false (the change answered, the request no
\* longer cancelable, the stock gone, a sale already there), or the handler stops;
\* inside its transaction that leaves nothing.
Refused(h) ==
    \/ op[h].pc = "answer" /\ ~Answerable(op[h].q, op[h].id)
    \/ op[h].pc = "cancel" /\ status[op[h].q] \notin Cancelable
    \/ op[h].pc = "sale" /\ ~Sellable(op[h].q, op[h].units)

Stop(h) ==
    /\ op[h] # Idle
    /\ Refused(h) \/ (Crashes /\ op[h].pc # "propose")
    /\ Finish(h)
    /\ UNCHANGED <<requestVars, change, claim, sale, stock>>

-----------------------------------------------------------------------------
OwnerStep(h) ==
    \/ \E q \in Requests :
           \/ \E to \in OrderRequestStatus : UpdateRead(h, q, to)
           \/ TermsRead(h, q)
           \/ \E o \in Orders : SaleRead(h, q, o[1] + o[2])
    \/ UpdateWrite(h) \/ TermsSupersede(h) \/ SaleWrite(h)
    \/ \E i \in Changes : TermsPropose(h, i)

BuyerStep(h) ==
    \/ \E q \in Requests :
           \/ CancelRead(h, q)
           \/ \E i \in Changes, decision \in {"ACCEPTED", "DECLINED"} :
                  AnswerRead(h, q, i, decision)
    \/ AnswerWrite(h) \/ CancelWrite(h) \/ CancelRelease(h)

Next ==
    \/ \E q \in Requests :
           \/ \E k \in Customers, o \in Orders : createRequest(q, k, o)
           \/ convertRequest(q) \/ CancelSale(q) \/ Lapse(q)
    \/ \E h \in Owners : OwnerStep(h)
    \/ \E h \in Buyers : BuyerStep(h)
    \/ \E h \in Handlers : Stop(h)

Spec == Init /\ [][Next]_vars

-----------------------------------------------------------------------------
\* The promotion is never claimed past its limits, however reservations lapse,
\* are released and redeemed around new requests (single-line requests).
LimitKept ==
    /\ claimedQuantity(Counted) <= ClaimLimit
    /\ \A k \in Customers : claimedQuantity(CountedFor(k)) <= PerCustomerLimit

OpenSales == {q \in Requests : sale[q].state = "open"}

\* Every unit is in stock or in one open sale: concurrent sales of a request take
\* it once, and a cancellation repeated gives it back once.
GoodsAccounted == stock + Cardinality(UnitsOf(sale, OpenSales)) = InitialStock

\* What makes the two inductive: a request not yet made holds nothing.
NewHoldsNothing ==
    \A q \in Requests : status[q] = "NONE" => claim[q] = NoClaim /\ sale[q] = NoSale

RequestInv == TypeOK /\ NewHoldsNothing /\ GoodsAccounted

\* A request that is canceled holds no promotion unit back, once the call that
\* canceled it has run to its end.
CanceledReleases ==
    \A q \in Requests :
        status[q] = "CANCELED" /\ claim[q].state = "RESERVED" =>
            \E h \in Buyers : op[h] = [pc |-> "release", q |-> q]

\* With one owner call at a time a request has at most one open proposal, so the
\* customer answers the proposal the shop made last.
OneOpenProposal ==
    \A q \in Requests : \A i, j \in Changes :
        change[q][i] = "PENDING" /\ change[q][j] = "PENDING" => i = j

\* What makes it inductive: nothing is pending between the two writes of a proposal.
ProposalsClear ==
    \A h \in Owners : op[h].pc = "propose" =>
        \A i \in Changes : change[op[h].q][i] # "PENDING"

\* An answer stands: neither a second answer nor a later proposal rewrites it.
AnsweredOnce ==
    [][\A q \in Requests, i \in Changes :
           change[q][i] \in Resolved => change'[q][i] = change[q][i]]_vars

\* updateRequest: "Converted requests cannot be changed"
ConvertedStays ==
    [][\A q \in Requests : status[q] = "CONVERTED" => status'[q] = "CONVERTED"]_vars
=============================================================================
