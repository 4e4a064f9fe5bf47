--------------------------- MODULE RentalCapacity ---------------------------
(***************************************************************************)
(* The rental bookings of one product.  A sale books up to two periods of  *)
(* it; its units are handed out by a dispatch or a receipt photo, come     *)
(* back when the owner records the return, and are given up when the sale  *)
(* is canceled before that.  The owner may change how many units there     *)
(* are.                                                                    *)
(*                                                                         *)
(* Booking and editing run in SERIALIZABLE transactions that both write    *)
(* the product row, so each is one step.  A journey update reads the       *)
(* journey first and writes it later by id; a receipt checks the order and *)
(* then writes the item, and a READ COMMITTED cancel may come between.     *)
(*                                                                         *)
(* Payments may settle or refund an order at any time (SaleLedger), so the *)
(* conditions on what is paid restrict no order of these steps.  The       *)
(* capacity test is stated here by what it promises; RentalBooking does it *)
(* as the code does.                                                       *)
(***************************************************************************)
EXTENDS Naturals, FiniteSets

CONSTANTS
    Sales,
    Owners,        \* handlers of journey updates
    Editors,       \* handlers of product edits
    Customers,     \* handlers of receipt photos
    Horizon,       \* bound: the last instant
    Capacities,    \* unit counts an owner may enter
    Orders         \* what a sale may book: its first line and its second, or NoLine

ASSUME BoundsAssumption ==
    /\ IsFiniteSet(Sales) /\ Horizon \in Nat
    /\ Capacities \subseteq Nat \ {0}
ASSUME NamesAssumption ==
    Owners \cap Editors = {} /\ Owners \cap Customers = {} /\ Editors \cap Customers = {}

VARIABLES
    now,
    capacity,      \* Product.stockCount
    item,          \* the rental SaleItem rows, by sale and line
    canceled,      \* Sale.status = "CANCELED"
    journey,       \* Delivery.status, as far as it concerns the rental
    op             \* the calls in flight

vars == <<now, capacity, item, canceled, journey, op>>

Times == 0 .. Horizon
Items == Sales \X {1, 2}

Line == [quantity : Nat, start : Times, end : Times]
Booking == [quantity : Nat, start : Times, end : Times,
            out : BOOLEAN,        \* rentalDispatchedAt or rentalReceivedAt is set
            returned : BOOLEAN]   \* rentalReturnedAt is set
NoLine == [quantity |-> 0, start |-> 0, end |-> 0]
rentalPeriod(line) == line.start < line.end
IsRequested(line) == line \in Line /\ line.quantity > 0 /\ rentalPeriod(line)

ASSUME OrdersAssumption ==
    \A o \in Orders : IsRequested(o[1]) /\ (IsRequested(o[2]) \/ o[2] = NoLine)

Booked(line) == [quantity |-> line.quantity, start |-> line.start, end |-> line.end,
                 out |-> FALSE, returned |-> FALSE]
NoBooking == Booked(NoLine)

\* The statuses an update may write, OPEN standing for those that leave the
\* rental alone; a journey is then CANCELED or not.
Target == {"OPEN", "IN_TRANSIT", "CANCELED"}
Journey == {"NONE", "OPEN", "CANCELED"}

Handlers == Owners \cup Editors \cup Customers
Idle == [pc |-> "idle"]
Op == {Idle}
      \cup [pc : {"update"}, sale : Sales, to : Target]
      \cup [pc : {"edit"}, count : Capacities, read : Capacities]
      \cup [pc : {"receive"}, item : Items]

TypeOK ==
    /\ now \in Times /\ capacity \in Capacities
    /\ item \in [Items -> Booking]
    /\ canceled \in [Sales -> BOOLEAN]
    /\ journey \in [Sales -> Journey]
    /\ op \in [Handlers -> Op]

Init ==
    /\ now = 0 /\ capacity \in Capacities
    /\ item = [i \in Items |-> NoBooking]
    /\ canceled = [s \in Sales |-> FALSE]
    /\ journey = [s \in Sales |-> "NONE"]
    /\ op = [h \in Handlers |-> Idle]

Begin(h, o) == op[h] = Idle /\ op' = [op EXCEPT ![h] = o]
Finish(h) == op' = [op EXCEPT ![h] = Idle]

Tick == now < Horizon /\ now' = now + 1 /\ UNCHANGED <<capacity, item, canceled, journey, op>>

-----------------------------------------------------------------------------
(* common/rental                                                           *)

\* A unit stays committed until it is returned, or given up before it left.
GivenUp(rows, i) == canceled[i[1]] /\ ~rows[i].out
CommittedIn(rows) == {i \in Items : rows[i].quantity > 0 /\ ~rows[i].returned /\ ~GivenUp(rows, i)}

\* Endpoints are exclusive; units out past their end may be out at any time.
Overdue(b) == b.out /\ b.end < now
Covers(b, t) == b.start <= t /\ (t < b.end \/ Overdue(b))

UnitsOf(rows, S) == UNION {{i} \X (1 .. rows[i].quantity) : i \in S}
OutAt(rows, t) == {i \in CommittedIn(rows) : Covers(rows[i], t)}
InUse(rows, t) == Cardinality(UnitsOf(rows, OutAt(rows, t)))

\* reserveRentalCapacity for one line, after the lines in rows
Fits(rows, line) ==
    \A t \in Times : line.start <= t /\ t < line.end =>
        InUse(rows, t) + line.quantity <= capacity

Upcoming(line) == line.start >= now

\* SalesService.create: its lines one after the other, in one transaction
AfterFirst(s, l1) == [item EXCEPT ![<<s, 1>>] = Booked(l1)]

BothFit(s, l1, l2) ==
    Fits(item, l1) /\ (l2 # NoLine => Fits(AfterFirst(s, l1), l2))

PlaceConsuming(s, l1, l2) ==                 \* mutant: a rental consumes stock as a sale does
    /\ journey[s] = "NONE" /\ Upcoming(l1)
    /\ item' = AfterFirst(s, l1) /\ journey' = [journey EXCEPT ![s] = "OPEN"]
    /\ capacity' = capacity - l1.quantity
    /\ UNCHANGED <<now, canceled, op>>

Place(s, l1, l2) ==
    /\ journey[s] = "NONE"
    /\ Upcoming(l1) /\ (l2 # NoLine => Upcoming(l2))
    /\ item' = [AfterFirst(s, l1) EXCEPT ![<<s, 2>>] = Booked(l2)]
    /\ journey' = [journey EXCEPT ![s] = "OPEN"]
    /\ UNCHANGED <<now, capacity, canceled, op>>

Reserve(s, l1, l2) == Place(s, l1, l2) /\ BothFit(s, l1, l2)

-----------------------------------------------------------------------------
(* DeliveryService                                                         *)

\* update: a canceled journey moves no more; the row is then written by id.
UpdateRead(h, s, to) ==
    /\ journey[s] # "NONE"
    /\ journey[s] = "CANCELED" => to = "CANCELED"
    /\ Begin(h, [pc |-> "update", sale |-> s, to |-> to])
    /\ UNCHANGED <<now, capacity, item, canceled, journey>>

UpdateCommit(h) ==
    /\ op[h].pc = "update"
    /\ LET s == op[h].sale  to == op[h].to
       IN  /\ journey' = [journey EXCEPT ![s] = IF to = "CANCELED" THEN "CANCELED" ELSE "OPEN"]
           /\ item' = [i \in Items |->
                         IF to = "IN_TRANSIT" /\ i[1] = s /\ item[i].quantity > 0
                         THEN [item[i] EXCEPT !.out = TRUE] ELSE item[i]]
           /\ canceled' = [canceled EXCEPT ![s] = @ \/ to = "CANCELED"]
    /\ Finish(h)
    /\ UNCHANGED <<now, capacity>>

\* receiveRental
ReceiveCheck(h, i) ==
    /\ item[i].quantity > 0
    /\ journey[i[1]] # "CANCELED" /\ ~canceled[i[1]]
    /\ Begin(h, [pc |-> "receive", item |-> i])
    /\ UNCHANGED <<now, capacity, item, canceled, journey>>

ReceiveCommit(h) ==
    /\ op[h].pc = "receive"
    /\ item' = [item EXCEPT ![op[h].item].out = TRUE]
    /\ Finish(h)
    /\ UNCHANGED <<now, capacity, canceled, journey>>

returnRental(i) ==
    /\ item[i].out /\ ~item[i].returned
    /\ item' = [item EXCEPT ![i].returned = TRUE]
    /\ UNCHANGED <<now, capacity, canceled, journey, op>>

-----------------------------------------------------------------------------
(* ProductsService.update                                                  *)

EditRead(h, n) ==
    /\ Begin(h, [pc |-> "edit", count |-> n, read |-> capacity])
    /\ UNCHANGED <<now, capacity, item, canceled, journey>>

ReducibleAnyway(edit) == TRUE                \* mutant: committed bookings not counted
Reducible(edit) == edit.count >= edit.read \/ CommittedIn(item) = {}

EditCommit(h) ==
    /\ op[h].pc = "edit"
    /\ capacity' = IF Reducible(op[h]) THEN op[h].count ELSE capacity
    /\ Finish(h)
    /\ UNCHANGED <<now, item, canceled, journey>>

-----------------------------------------------------------------------------
Others ==
    \/ Tick
    \/ \E h \in Owners : UpdateCommit(h) \/ \E s \in Sales, to \in Target : UpdateRead(h, s, to)
    \/ \E h \in Customers : ReceiveCommit(h) \/ \E i \in Items : ReceiveCheck(h, i)
    \/ \E i \in Items : returnRental(i)
    \/ \E h \in Editors : EditCommit(h) \/ \E n \in Capacities : EditRead(h, n)

Next ==
    \/ \E s \in Sales, o \in Orders : Reserve(s, o[1], o[2])
    \/ Others

Spec == Init /\ [][Next]_vars

-----------------------------------------------------------------------------
\* docs/RENTALS.md, common/rental: at no instant are more units promised to
\* orders that stand than the product has, whatever is canceled, handed out,
\* returned early or re-counted in between, with one product edit at a time.
Promised(t) ==
    {i \in Items : /\ item[i].quantity > 0 /\ ~item[i].returned /\ ~canceled[i[1]]
                   /\ item[i].start <= t /\ t < item[i].end}
NeverOversold == \A t \in Times : Cardinality(UnitsOf(item, Promised(t))) <= capacity

\* "An overdue item already handed over stays unavailable until its return is
\* recorded": no new booking relies on units that are out past their end, or
\* that left with an order canceled since.
HandedOutCounted ==
    [][\A i \in Items : item[i].quantity = 0 /\ item'[i].quantity > 0 =>
           \A t \in Times : item'[i].start <= t /\ t < item'[i].end =>
               InUse(item', t) <= capacity]_vars
=============================================================================
