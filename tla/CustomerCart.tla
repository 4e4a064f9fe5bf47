---------------------------- MODULE CustomerCart ----------------------------
(***************************************************************************)
(* CartsService: the bag of one customer account and the bags of the       *)
(* devices the customer shops from, the merge of a device's bag into the   *)
(* account's, and the submit that turns the bag of each shop into an order *)
(* request of its own.                                                     *)
(*                                                                         *)
(* addItem, updateItem, updateGroup and merge read before they write;      *)
(* submit reads the bag once, and then goes through the shops one by one,  *)
(* each in a SERIALIZABLE transaction; a shop that fails does not stop     *)
(* the others.  Quantities and the set a shop's bag carries are kept;      *)
(* prices, stock, rental dates and delivery preferences only make a call   *)
(* fail.  A set is a Showcase in BUNDLE mode; a shop sells at most one.    *)
(***************************************************************************)
EXTENDS Naturals, FiniteSets

CONSTANTS
    Account, Devices,          \* the account's bag; each device's first bag
    Shops, Products, ShopOf,   \* ShopOf: the shop of a product
    InSet,                     \* products of their shop's set
    MaxQuantity,               \* 100 in the code
    Additions, Edits,          \* bounds: quantities asked for by addItem and updateItem
    Keys,                      \* idempotency keys of submits
    Requests,                  \* order request rows
    Handlers,                  \* HTTP calls in flight
    MaxCalls                   \* bound: calls of a run

ASSUME NamesAssumption == Account \notin Devices
ASSUME ShopsAssumption == ShopOf \in [Products -> Shops] /\ InSet \subseteq Products
ASSUME BoundsAssumption ==
    /\ MaxQuantity \in Nat \ {0} /\ Additions \subseteq 1 .. MaxQuantity /\ Edits \subseteq 1 .. MaxQuantity
    /\ MaxCalls \in Nat

VARIABLES
    items,       \* CustomerCartItem.quantity, 0 for no row
    group,       \* CustomerCartGroup: none, plain or carrying the shop's set
    abandoned,   \* devices whose bag was merged
    request,     \* OrderRequest rows the submits created
    op, calls,   \* the calls in flight, and how many there were
    answers      \* what submits answered: key, shop and request

vars == <<items, group, abandoned, request, op, calls, answers>>
bagVars == <<items, group, abandoned>>

Bags == {Account} \cup Devices
Contents == [Products -> 0 .. MaxQuantity]
Groups == [Shops -> {"none", "plain", "set"}]
Goods(shop) == {p \in Products : ShopOf[p] = shop}
SetOf(shop) == Goods(shop) \cap InSet

NoRequest == [key |-> "none"]
Request == [key : Keys, shop : Shops, lines : Contents, set : BOOLEAN]
Idle == [pc |-> "idle"]
Op == {Idle}
      \cup [pc : {"add"}, bag : Bags, product : Products, more : Additions, total : 1 .. MaxQuantity]
      \cup [pc : {"update"}, bag : Bags, product : Products, to : Edits]
      \cup [pc : {"group"}, shop : Shops]
      \cup [pc : {"merge"}, device : Devices, items : Contents, group : Groups]
      \cup [pc : {"submit"}, key : Keys, items : Contents, group : Groups, todo : SUBSET Shops]

TypeOK ==
    /\ items \in [Bags -> Contents]
    /\ group \in [Bags -> Groups]
    /\ abandoned \subseteq Devices
    /\ request \in [Requests -> Request \cup {NoRequest}]
    /\ op \in [Handlers -> Op] /\ calls \in 0 .. MaxCalls
    /\ answers \subseteq Keys \X Shops \X Requests

Init ==
    /\ items = [b \in Bags |-> [p \in Products |-> 0]]
    /\ group = [b \in Bags |-> [s \in Shops |-> "none"]]
    /\ abandoned = {}
    /\ request = [r \in Requests |-> NoRequest]
    /\ op = [h \in Handlers |-> Idle] /\ calls = 0
    /\ answers = {}

Called == calls < MaxCalls /\ calls' = calls + 1
Begin(h, call) == op[h] = Idle /\ op' = [op EXCEPT ![h] = call] /\ Called
Finish(h) == op' = [op EXCEPT ![h] = Idle] /\ UNCHANGED calls

Least(m, n) == IF m <= n THEN m ELSE n
OfSet(b, p) == group[b][ShopOf[p]] = "set" /\ p \in InSet
InUse(b) == b \notin abandoned

\* upsert of a shop's group that leaves an existing one as it is
Grouped(b, shop) == IF group[b][shop] = "none" THEN "plain" ELSE group[b][shop]

-----------------------------------------------------------------------------
(* One bag                                                                 *)

\* The quantity is computed from the row read; the upsert creates the row with
\* the quantity asked for if it is gone by then.
AddRead(h, b, p, n) ==
    /\ InUse(b)
    /\ ~OfSet(b, p)
    /\ items[b][p] + n <= MaxQuantity
    /\ Begin(h, [pc |-> "add", bag |-> b, product |-> p, more |-> n, total |-> items[b][p] + n])
    /\ UNCHANGED <<bagVars, request, answers>>

AddWrite(h) ==
    LET b == op[h].bag
        p == op[h].product
    IN  /\ op[h].pc = "add"
        /\ items' = [items EXCEPT ![b][p] = IF @ = 0 THEN op[h].more ELSE op[h].total]
        /\ group' = [group EXCEPT ![b][ShopOf[p]] = Grouped(b, ShopOf[p])]
        /\ Finish(h)
        /\ UNCHANGED <<abandoned, request, answers>>

\* One transaction: every product of the set is in the bag once, or it fails.
addBundle(b, shop) ==
    /\ InUse(b)
    /\ SetOf(shop) # {}
    /\ \A p \in SetOf(shop) : items[b][p] \in {0, 1}
    /\ items' = [items EXCEPT ![b] = [p \in Products |-> IF p \in SetOf(shop) THEN 1 ELSE @[p]]]
    /\ group' = [group EXCEPT ![b][shop] = "set"]
    /\ Called
    /\ UNCHANGED <<abandoned, request, op, answers>>

UpdateRead(h, b, p, n) ==
    /\ InUse(b)
    /\ items[b][p] > 0
    /\ n # 1 => ~OfSet(b, p)
    /\ Begin(h, [pc |-> "update", bag |-> b, product |-> p, to |-> n])
    /\ UNCHANGED <<bagVars, request, answers>>

UpdateWrite(h) ==
    LET b == op[h].bag
        p == op[h].product
    IN  /\ op[h].pc = "update"
        /\ items[b][p] > 0
        /\ items' = [items EXCEPT ![b][p] = op[h].to]
        /\ Finish(h)
        /\ UNCHANGED <<group, abandoned, request, answers>>

\* One transaction: the group goes with its last item, and is no set's any more
\* without one of the set's products.
removeItem(b, p) ==
    LET shop == ShopOf[p]
        left == \E r \in Goods(shop) \ {p} : items[b][r] > 0
    IN  /\ InUse(b)
        /\ items[b][p] > 0
        /\ items' = [items EXCEPT ![b][p] = 0]
        /\ group' = [group EXCEPT ![b][shop] =
                        IF ~left THEN "none" ELSE IF OfSet(b, p) THEN "plain" ELSE @]
        /\ Called
        /\ UNCHANGED <<abandoned, request, op, answers>>

GroupRead(h, shop) ==
    /\ \E p \in Goods(shop) : items[Account][p] > 0
    /\ Begin(h, [pc |-> "group", shop |-> shop])
    /\ UNCHANGED <<bagVars, request, answers>>

GroupWrite(h) ==
    LET shop == op[h].shop
    IN  /\ op[h].pc = "group"
        /\ group' = [group EXCEPT ![Account][shop] = Grouped(Account, shop)]
        /\ Finish(h)
        /\ UNCHANGED <<items, abandoned, request, answers>>

-----------------------------------------------------------------------------
(* merge.  A device has one ACTIVE and one ABANDONED bag at most (unique   *)
(* indexes), so the merge of a later bag of the device fails.              *)

MergeRead(h, d) ==
    /\ InUse(d)
    /\ Begin(h, [pc |-> "merge", device |-> d, items |-> items[d], group |-> group[d]])
    /\ UNCHANGED <<bagVars, request, answers>>

Sum(m, n) == m + n                        \* mutant: the merged quantity not capped
Capped(m, n) == Least(m + n, MaxQuantity)

MergeWrite(h) ==
    LET d == op[h].device
    IN  /\ op[h].pc = "merge"
        /\ items' = [items EXCEPT ![Account] = [p \in Products |-> Capped(@[p], op[h].items[p])]]
        /\ group' = [group EXCEPT ![Account] =
               [s \in Shops |-> IF @[s] = "none" THEN op[h].group[s] ELSE @[s]]]
        /\ abandoned' = abandoned \cup {d}
        /\ Finish(h)
        /\ UNCHANGED <<request, answers>>

-----------------------------------------------------------------------------
(* submit                                                                  *)

SubmitRead(h, key, chosen) ==
    /\ Begin(h, [pc |-> "submit", key |-> key, items |-> items[Account],
                 group |-> group[Account], todo |-> chosen])
    /\ UNCHANGED <<bagVars, request, answers>>

\* One shop of a submit is done.
ShopDone(h, shop) ==
    /\ op[h].pc = "submit" /\ shop \in op[h].todo
    /\ op' = [op EXCEPT ![h] = IF op[h].todo = {shop} THEN Idle
                               ELSE [op[h] EXCEPT !.todo = op[h].todo \ {shop}]]
    /\ UNCHANGED calls

Of(key, shop) == {r \in Requests : request[r] # NoRequest /\ request[r].key = key
                                                           /\ request[r].shop = shop}

\* A request of this key and shop is found, in the bag or not any more.
SubmitReplay(h, shop) ==
    /\ ShopDone(h, shop)
    /\ \E r \in Of(op[h].key, shop) : answers' = answers \cup {<<op[h].key, shop, r>>}
    /\ UNCHANGED <<bagVars, request>>

\* The unique index on the customer and the key.
NotIndexed(key, shop) == TRUE             \* mutant: only the lookup before the transaction
Fresh(key, shop) == Of(key, shop) = {}

\* "This set changed in your bag"
SetUnchecked(call, shop) == TRUE          \* mutant: the quantities not compared
SetWhole(call, shop) == call.group[shop] = "set" => \A p \in SetOf(shop) : call.items[p] = 1

SubmitCreate(h, shop, r) ==
    LET call == op[h]
        ordered == [p \in Products |-> IF p \in Goods(shop) THEN call.items[p] ELSE 0]
    IN  /\ ShopDone(h, shop)
        /\ call.group[shop] # "none" /\ \E p \in Goods(shop) : call.items[p] > 0
        /\ SetWhole(call, shop)
        /\ Fresh(call.key, shop)
        /\ request[r] = NoRequest
        /\ request' = [request EXCEPT ![r] = [key |-> call.key, shop |-> shop, lines |-> ordered,
                                              set |-> call.group[shop] = "set"]]
        /\ items' = [items EXCEPT ![Account] = [p \in Products |-> IF p \in Goods(shop) THEN 0 ELSE @[p]]]
        /\ group' = [group EXCEPT ![Account][shop] = "none"]
        /\ answers' = answers \cup {<<call.key, shop, r>>}
        /\ UNCHANGED abandoned

\* ok: false (something changed, unavailable, not paid for, refused by the index
\* or by the database), or a shop with nothing in the bag that was read
SubmitRefused(h, shop) ==
    /\ ShopDone(h, shop)
    /\ UNCHANGED <<bagVars, request, answers>>

\* A write finds its row gone, a merge meets an abandoned bag, or the call stops.
Stop(h) ==
    /\ op[h] # Idle
    /\ Finish(h)
    /\ UNCHANGED <<bagVars, request, answers>>

-----------------------------------------------------------------------------
Shopping(h) ==
    \/ \E b \in Bags, p \in Products :
           (\E n \in Additions : AddRead(h, b, p, n)) \/ (\E n \in Edits : UpdateRead(h, b, p, n))
    \/ AddWrite(h) \/ UpdateWrite(h)
    \/ \E s \in Shops : GroupRead(h, s)
    \/ GroupWrite(h)
    \/ \E d \in Devices : MergeRead(h, d)
    \/ MergeWrite(h)
    \/ Stop(h)

Submitting(h) ==
    \/ \E key \in Keys, chosen \in SUBSET Shops \ {{}} : SubmitRead(h, key, chosen)
    \/ \E s \in Shops : \/ SubmitReplay(h, s) \/ SubmitRefused(h, s)
                        \/ \E r \in Requests : SubmitCreate(h, s, r)

Next ==
    \/ \E h \in Handlers : Shopping(h) \/ Submitting(h)
    \/ \E b \in Bags : (\E p \in Products : removeItem(b, p)) \/ (\E s \in Shops : addBundle(b, s))

Spec == Init /\ [][Next]_vars

-----------------------------------------------------------------------------
\* carts.service.spec.ts, "replays a successful per-shop submission even after
\* that group left the cart": a submit sent again, while the first still runs or
\* after some shops failed, orders from each shop once and names that request.
SubmitOrdersOnce ==
    /\ \A r, t \in Requests : /\ request[r] # NoRequest /\ request[t] # NoRequest
                              /\ request[r].key = request[t].key /\ request[r].shop = request[t].shop
                              => r = t
    /\ \A a, b \in answers : a[1] = b[1] /\ a[2] = b[2] => a[3] = b[3]

\* The price of a set is charged for the whole set, one of each product, however
\* its bag was added to, edited and merged before the submit.
SetsOrderedWhole ==
    \A r \in Requests : request[r] # NoRequest /\ request[r].set =>
        \A p \in SetOf(request[r].shop) : request[r].lines[p] = 1

\* carts.service.ts:98, "Products inside a set stay at quantity one".  Not so: a
\* merge adds the device's quantities to those of a set in the account's bag.
SetsAtOne ==
    \A b \in Bags : \A p \in Products : OfSet(b, p) => items[b][p] = 1
=============================================================================
