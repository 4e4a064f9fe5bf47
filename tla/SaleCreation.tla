---------------------------- MODULE SaleCreation ----------------------------
(***************************************************************************)
(* Recording sales: the owner's create and a request's conversion, each    *)
(* perhaps sent more than once with the same idempotency key, the stock    *)
(* they take and a cancel gives back, and the product edits that replace   *)
(* the rows the stock is kept in.                                          *)
(*                                                                         *)
(* create looks for an earlier sale, the request and the product before    *)
(* its SERIALIZABLE transaction, and looks for the sale again when a       *)
(* unique index refuses its own.  convertRequest and a product edit are    *)
(* one SERIALIZABLE transaction each.                                      *)
(*                                                                         *)
(* One product with one variant: its stock is the variant's count when     *)
(* that is set, else the product's.  Row 0 is the product, the others are  *)
(* the variant rows in the order edits create them.                        *)
(***************************************************************************)
EXTENDS Naturals, FiniteSets

CONSTANTS
    Sales, Calls,
    Keys, NoKey,           \* idempotency keys
    Sources, NoSource,     \* order requests
    Intents,               \* what clients ask for: a key, a request, units
    Counts,                \* stock counts an owner may enter
    MaxEdits               \* bound

Intent == [key : Keys \cup {NoKey}, source : Sources \cup {NoSource}, units : Nat \ {0}]

ASSUME NamesAssumption == NoKey \notin Keys /\ NoSource \notin Sources
ASSUME BoundsAssumption == Counts \subseteq Nat /\ MaxEdits \in Nat /\ IsFiniteSet(Sales)

\* A client makes a key for one form: a key is not reused for another request.
ASSUME IntentsAssumption ==
    /\ Intents \subseteq Intent
    /\ \A i, j \in Intents : i.key # NoKey /\ i.key = j.key => i.source = j.source

VARIABLES
    sale,        \* the Sale rows and the stock claim of their line
    request,     \* OrderRequest.status
    live,        \* the product's variant row
    tracked,     \* that row has a stockCount
    stock,       \* stockCount of row 0 and of the variant rows
    edits,       \* edits so far
    op,          \* the create calls in flight
    answers      \* what was answered: intents and the sale returned

vars == <<sale, request, live, tracked, stock, edits, op, answers>>
stockVars == <<live, tracked, stock, edits>>

Rows == 0 .. MaxEdits + 1

Sale == [state : {"none", "open", "canceled"}, restored : BOOLEAN,
         key : Keys \cup {NoKey}, source : Sources \cup {NoSource},
         row : Rows, units : Nat]
NoSale == [state |-> "none", restored |-> FALSE, key |-> NoKey, source |-> NoSource,
           row |-> 0, units |-> 0]

Idle == [pc |-> "idle"]
Op == {Idle}
      \cup [pc : {"create"}, intent : Intents, row : Rows, variant : Rows]
      \cup [pc : {"recover"}, intent : Intents]

TypeOK ==
    /\ sale \in [Sales -> Sale]
    /\ request \in [Sources -> {"OPEN", "CONVERTED", "CANCELED"}]
    /\ edits \in 0 .. MaxEdits /\ live \in 1 .. edits + 1 /\ tracked \in BOOLEAN
    /\ stock \in [Rows -> Nat]
    /\ op \in [Calls -> Op]
    /\ answers \subseteq Intents \X Sales

Init ==
    /\ sale = [s \in Sales |-> NoSale]
    /\ request = [q \in Sources |-> "OPEN"]
    /\ live = 1 /\ tracked \in BOOLEAN
    /\ stock \in {[r \in Rows |-> IF r <= 1 THEN n ELSE 0] : n \in Counts}
    /\ edits = 0
    /\ op = [c \in Calls |-> Idle]
    /\ answers = {}

Exists(s) == sale[s].state # "none"
OfKey(k) == {s \in Sales : Exists(s) /\ k # NoKey /\ sale[s].key = k}
OfSource(q) == {s \in Sales : Exists(s) /\ q # NoSource /\ sale[s].source = q}

Answer(i, s) == answers' = answers \cup {<<i, s>>}
Finish(c) == op' = [op EXCEPT ![c] = Idle]

-----------------------------------------------------------------------------
(* common/sale-inventory                                                   *)

SoldFrom == IF tracked THEN live ELSE 0

\* The conditional updates of consumeSaleInventory: a deleted row matches none.
ConsumableAnyway(row, n) == row \in {0, live}       \* mutant: the count not compared
Consumable(row, n) == row \in {0, live} /\ stock[row] >= n

\* A deleted variant is gone from the sale's line (onDelete: SetNull).
RestoreAgain(s) == TRUE                             \* mutant: inventoryRestoredAt not looked at
Restorable(s) == ~sale[s].restored

cancelSaleAndRestoreInventory(s) ==
    /\ Exists(s)
    /\ sale' = [sale EXCEPT ![s].state = "canceled", ![s].restored = TRUE]
    /\ stock' = [stock EXCEPT ![sale[s].row] =
                    IF Restorable(s) /\ sale[s].row \in {0, live} THEN @ + sale[s].units ELSE @]
    /\ UNCHANGED <<request, live, tracked, edits, op, answers>>

-----------------------------------------------------------------------------
(* SalesService.create                                                     *)

Open(q) == q # NoSource => request[q] = "OPEN"

\* An earlier sale of the key is the answer; else the request and the product
\* are read.
CreateReplay(i) ==
    /\ \E s \in OfKey(i.key) : Answer(i, s)
    /\ UNCHANGED <<sale, request, stockVars, op>>

CreateRead(c, i) ==
    /\ op[c] = Idle
    /\ OfKey(i.key) = {} /\ Open(i.source)
    /\ op' = [op EXCEPT ![c] = [pc |-> "create", intent |-> i, row |-> SoldFrom,
                                      variant |-> live]]
    /\ UNCHANGED <<sale, request, stockVars, answers>>

\* The unique indexes on the key and on the request.
DuplicatesOfKey(i) == OfKey(i.key)                  \* mutant: no index on the request
Duplicates(i) == OfKey(i.key) \cup OfSource(i.source)

\* The transaction's writes.
Record(s, i, row) ==
    /\ ~Exists(s)
    /\ Consumable(row, i.units)
    /\ Duplicates(i) = {}
    /\ sale' = [sale EXCEPT ![s] = [state |-> "open", restored |-> FALSE, key |-> i.key,
                                    source |-> i.source, row |-> row, units |-> i.units]]
    /\ stock' = [stock EXCEPT ![row] = @ - i.units]
    /\ request' = [q \in Sources |-> IF q = i.source THEN "CONVERTED" ELSE request[q]]
    /\ Answer(i, s)
    /\ UNCHANGED <<live, tracked, edits>>

CreateWrite(c, s) ==
    /\ op[c].pc = "create"
    /\ op[c].variant = live              \* the line's foreign key, checked after the indexes
    /\ Record(s, op[c].intent, op[c].row)
    /\ Finish(c)

\* P2002, and the sale that was there first
CreateRefused(c) ==
    /\ op[c].pc = "create"
    /\ Consumable(op[c].row, op[c].intent.units)
    /\ Duplicates(op[c].intent) # {}
    /\ op' = [op EXCEPT ![c] = [pc |-> "recover", intent |-> op[c].intent]]
    /\ UNCHANGED <<sale, request, stockVars, answers>>

CreateRecover(c) ==
    /\ op[c].pc = "recover"
    /\ \E s \in Duplicates(op[c].intent) : Answer(op[c].intent, s)
    /\ Finish(c)
    /\ UNCHANGED <<sale, request, stockVars>>

\* Out of stock, a serialization failure, or the process stops.
Stop(c) ==
    /\ op[c] # Idle
    /\ Finish(c)
    /\ UNCHANGED <<sale, request, stockVars, answers>>

-----------------------------------------------------------------------------
(* ShopsService.convertRequest, ProductsService.update, and the customer's *)
(* own cancel of a request (OrderRequests)                                 *)

ConvertAgain(i) ==
    /\ \E s \in OfSource(i.source) : Answer(i, s)
    /\ UNCHANGED <<sale, request, stockVars, op>>

Convert(i, s) ==
    /\ i.source # NoSource
    /\ OfSource(i.source) = {} /\ request[i.source] = "OPEN"
    /\ OfKey(i.key) = {}
    /\ Record(s, i, SoldFrom)
    /\ UNCHANGED op

CancelRequest(q) ==
    /\ request[q] = "OPEN"
    /\ request' = [request EXCEPT ![q] = "CANCELED"]
    /\ UNCHANGED <<sale, stockVars, op, answers>>

\* dto.stockCount
EditCount(n) ==
    /\ edits < MaxEdits
    /\ stock' = [stock EXCEPT ![0] = n]
    /\ edits' = edits + 1
    /\ UNCHANGED <<sale, request, live, tracked, op, answers>>

\* dto.variants: the rows are deleted and created anew
EditVariants(n, counts) ==
    /\ edits < MaxEdits
    /\ live' = live + 1
    /\ tracked' = counts
    /\ stock' = [stock EXCEPT ![live + 1] = n]
    /\ edits' = edits + 1
    /\ UNCHANGED <<sale, request, op, answers>>

-----------------------------------------------------------------------------
CallStep(c) ==
    \/ \E i \in Intents : CreateRead(c, i)
    \/ \E s \in Sales : CreateWrite(c, s)
    \/ CreateRefused(c)
    \/ CreateRecover(c)
    \/ Stop(c)

Next ==
    \/ \E c \in Calls : CallStep(c)
    \/ \E i \in Intents : CreateReplay(i) \/ ConvertAgain(i) \/ \E s \in Sales : Convert(i, s)
    \/ \E s \in Sales : cancelSaleAndRestoreInventory(s)
    \/ \E q \in Sources : CancelRequest(q)
    \/ \E n \in Counts : EditCount(n) \/ \E counts \in BOOLEAN : EditVariants(n, counts)

Spec == Init /\ [][Next]_vars

-----------------------------------------------------------------------------
\* docs/API_CONTRACT.md, "Idempotency-Key is accepted when creating a sale and
\* converting a public request": however often, by whichever path and however
\* interleaved a form is sent, its answers all name one sale, and so do the
\* answers to any two forms for one order request.
AnsweredAlike ==
    \A a, b \in answers :
        \/ a[1].key = b[1].key /\ a[1].key # NoKey
        \/ a[1].source = b[1].source /\ a[1].source # NoSource
        => a[2] = b[2]

\* Between the owner's counts, the units on the rows goods are sold from and
\* those of the orders that stand add up: each sale takes its units once, and
\* gives them back once however often it is canceled.
OpenOn(row) == {s \in Sales : sale[s].state = "open" /\ sale[s].row = row}
UnitsOf(rows, S) == UNION {{s} \X (1 .. rows[s].units) : s \in S}
HeldFrom(row) == Cardinality(UnitsOf(sale, OpenOn(row)))

StockFollowsSales ==
    [][edits' = edits => \A row \in {0, live} :
           stock'[row] + HeldFrom(row)' = stock[row] + HeldFrom(row)]_vars

\* sale-inventory.spec.ts, "restores consumed stock once when a sale is
\* canceled": the units of a canceled sale are for sale again.
CancelRestores ==
    [][\A s \in Sales : sale[s].state = "open" /\ sale'[s].state = "canceled" =>
           stock'[0] + stock'[live'] = stock[0] + stock[live] + sale[s].units]_vars
=============================================================================
