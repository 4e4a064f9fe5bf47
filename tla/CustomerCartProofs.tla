------------------------- MODULE CustomerCartProofs -------------------------
(***************************************************************************)
(* Proofs about CustomerCart for any shops, products, devices, keys and    *)
(* calls in flight.  CartInv says what an answer stands for and that a key *)
(* has one request in a shop; only SubmitCreate makes a request, and it    *)
(* finds none of its key and shop.                                         *)
(***************************************************************************)
EXTENDS CustomerCart, TLAPS

-----------------------------------------------------------------------------
(* Types                                                                   *)

LEMMA CallTypes ==
    ASSUME TypeOK, NEW h \in Handlers
    PROVE  /\ op[h].pc = "add" =>
                  /\ op[h].bag \in Bags /\ op[h].product \in Products
                  /\ op[h].more \in Additions /\ op[h].total \in 1 .. MaxQuantity
           /\ op[h].pc = "update" =>
                  op[h].bag \in Bags /\ op[h].product \in Products /\ op[h].to \in Edits
           /\ op[h].pc = "group" => op[h].shop \in Shops
           /\ op[h].pc = "merge" =>
                  op[h].device \in Devices /\ op[h].items \in Contents /\ op[h].group \in Groups
           /\ op[h].pc = "submit" =>
                  /\ op[h] \in [pc : {"submit"}, key : Keys, items : Contents, group : Groups,
                                todo : SUBSET Shops]
                  /\ op[h].key \in Keys /\ op[h].items \in Contents /\ op[h].group \in Groups
                  /\ op[h].todo \in SUBSET Shops
BY DEF TypeOK, Op, Idle

\* What a bag and a call in flight are written with.
LEMMA BagTypes ==
    ASSUME TypeOK, NEW b \in Bags
    PROVE  /\ items[b] \in Contents /\ group[b] \in Groups
           /\ \A p \in Products : items[b][p] \in 0 .. MaxQuantity /\ ShopOf[p] \in Shops
           /\ \A s \in Shops : group[b][s] \in {"none", "plain", "set"}
                               /\ Grouped(b, s) \in {"none", "plain", "set"}
BY ShopsAssumption DEF TypeOK, Contents, Groups, Grouped

LEMMA ItemsWritten ==
    ASSUME TypeOK, NEW b \in Bags, NEW c \in Contents, items' = [items EXCEPT ![b] = c]
    PROVE  items' \in [Bags -> Contents]
BY DEF TypeOK

LEMMA GroupWritten ==
    ASSUME TypeOK, NEW b \in Bags, NEW g \in Groups, group' = [group EXCEPT ![b] = g]
    PROVE  group' \in [Bags -> Groups]
BY DEF TypeOK

\* A submit that goes on or ends.
LEMMA ShopDoneTypes ==
    ASSUME TypeOK, NEW h \in Handlers, NEW shop \in Shops, ShopDone(h, shop)
    PROVE  op' \in [Handlers -> Op] /\ calls' \in 0 .. MaxCalls
<1>1. /\ op[h] \in [pc : {"submit"}, key : Keys, items : Contents, group : Groups, todo : SUBSET Shops]
      /\ op[h].todo \in SUBSET Shops
    BY CallTypes DEF ShopDone
<1>2. [op[h] EXCEPT !.todo = op[h].todo \ {shop}] \in Op
    BY <1>1 DEF Op
<1>3. Idle \in Op
    BY DEF Op
<1> QED BY <1>2, <1>3 DEF ShopDone, TypeOK

LEMMA BeginTypes ==
    ASSUME TypeOK, NEW h \in Handlers, NEW o \in Op, Begin(h, o)
    PROVE  op' \in [Handlers -> Op] /\ calls' \in 0 .. MaxCalls
BY BoundsAssumption DEF TypeOK, Begin, Called

LEMMA FinishTypes ==
    ASSUME TypeOK, NEW h \in Handlers, Finish(h)
    PROVE  op' \in [Handlers -> Op] /\ calls' \in 0 .. MaxCalls
BY DEF TypeOK, Finish, Op

LEMMA InitTypes == Init => TypeOK
<1> SUFFICES ASSUME Init PROVE TypeOK
    OBVIOUS
<1>1. items \in [Bags -> Contents] /\ group \in [Bags -> Groups]
    BY BoundsAssumption DEF Init, Contents, Groups
<1>2. op \in [Handlers -> Op] /\ calls \in 0 .. MaxCalls
    BY BoundsAssumption DEF Init, Op
<1> QED BY <1>1, <1>2 DEF Init, TypeOK

\* The calls that change one bag or merge two.
LEMMA ShoppingTypes ==
    ASSUME TypeOK, NEW h \in Handlers, Shopping(h)
    PROVE  TypeOK'
<1>1. ASSUME NEW b \in Bags, NEW p \in Products, NEW n \in Additions, AddRead(h, b, p, n)
      PROVE  TypeOK'
  <2>1. items[b][p] + n \in 1 .. MaxQuantity
      BY <1>1, BagTypes, BoundsAssumption DEF AddRead
  <2>2. [pc |-> "add", bag |-> b, product |-> p, more |-> n, total |-> items[b][p] + n] \in Op
      BY <2>1 DEF Op
  <2> QED BY <1>1, <2>2, BeginTypes DEF AddRead, TypeOK, bagVars
<1>2. ASSUME NEW b \in Bags, NEW p \in Products, NEW n \in Edits, UpdateRead(h, b, p, n)
      PROVE  TypeOK'
  <2>1. [pc |-> "update", bag |-> b, product |-> p, to |-> n] \in Op
      BY DEF Op
  <2> QED BY <1>2, <2>1, BeginTypes DEF UpdateRead, TypeOK, bagVars
<1>3. CASE AddWrite(h)
  <2> DEFINE b == op[h].bag
             p == op[h].product
             q == IF items[b][p] = 0 THEN op[h].more ELSE op[h].total
             c == [items[b] EXCEPT ![p] = q]
             g == [group[b] EXCEPT ![ShopOf[p]] = Grouped(b, ShopOf[p])]
  <2>1. b \in Bags /\ p \in Products /\ op[h].more \in Additions /\ op[h].total \in 1 .. MaxQuantity
      BY <1>3, CallTypes DEF AddWrite
  <2>2. q \in 0 .. MaxQuantity
    <3>1. op[h].more \in 1 .. MaxQuantity
        BY <2>1, BoundsAssumption
    <3>2. q = op[h].more \/ q = op[h].total
        OBVIOUS
    <3> HIDE DEF q
    <3> QED BY <2>1, <3>1, <3>2, BoundsAssumption
  <2>3. items[b] \in Contents /\ group[b] \in Groups /\ ShopOf[p] \in Shops
        /\ Grouped(b, ShopOf[p]) \in {"none", "plain", "set"}
      BY <2>1, BagTypes
  <2>4. items' = [items EXCEPT ![b] = c] /\ group' = [group EXCEPT ![b] = g]
      BY <1>3, <2>1 DEF AddWrite
  <2> HIDE DEF q
  <2>5. c \in Contents /\ g \in Groups
      BY <2>2, <2>3 DEF Contents, Groups
  <2> HIDE DEF c, g
  <2>6. items' \in [Bags -> Contents] /\ group' \in [Bags -> Groups]
      BY <2>1, <2>4, <2>5, ItemsWritten, GroupWritten
  <2> QED BY <1>3, <2>6, FinishTypes DEF AddWrite, TypeOK
<1>4. CASE UpdateWrite(h)
  <2> DEFINE b == op[h].bag
             c == [items[b] EXCEPT ![op[h].product] = op[h].to]
  <2>1. b \in Bags /\ op[h].product \in Products /\ op[h].to \in 0 .. MaxQuantity
      BY <1>4, CallTypes, BoundsAssumption DEF UpdateWrite
  <2>2. items' = [items EXCEPT ![b] = c]
      BY <1>4 DEF UpdateWrite
  <2>3. c \in Contents
      BY <2>1, BagTypes DEF Contents
  <2> HIDE DEF c
  <2>4. items' \in [Bags -> Contents]
      BY <2>1, <2>2, <2>3, ItemsWritten
  <2> QED BY <1>4, <2>4, FinishTypes DEF UpdateWrite, TypeOK
<1>5. ASSUME NEW s \in Shops, GroupRead(h, s) PROVE TypeOK'
  <2>1. [pc |-> "group", shop |-> s] \in Op
      BY DEF Op
  <2> QED BY <1>5, <2>1, BeginTypes DEF GroupRead, TypeOK, bagVars
<1>6. CASE GroupWrite(h)
  <2> DEFINE s == op[h].shop
             g == [group[Account] EXCEPT ![s] = Grouped(Account, s)]
  <2>1. Account \in Bags /\ s \in Shops
      BY <1>6, CallTypes DEF GroupWrite, Bags
  <2>2. group' = [group EXCEPT ![Account] = g]
      BY <1>6 DEF GroupWrite
  <2>3. g \in Groups
      BY <2>1, BagTypes DEF Groups
  <2> HIDE DEF g
  <2>4. group' \in [Bags -> Groups]
      BY <2>1, <2>2, <2>3, GroupWritten
  <2> QED BY <1>6, <2>4, FinishTypes DEF GroupWrite, TypeOK
<1>7. ASSUME NEW d \in Devices, MergeRead(h, d) PROVE TypeOK'
  <2>1. items[d] \in Contents /\ group[d] \in Groups
      BY BagTypes DEF Bags
  <2>2. [pc |-> "merge", device |-> d, items |-> items[d], group |-> group[d]] \in Op
      BY <2>1 DEF Op
  <2> QED BY <1>7, <2>2, BeginTypes DEF MergeRead, TypeOK, bagVars
<1>8. CASE MergeWrite(h)
  <2> DEFINE c == [p \in Products |-> Capped(items[Account][p], op[h].items[p])]
             g == [s \in Shops |-> IF group[Account][s] = "none" THEN op[h].group[s]
                                   ELSE group[Account][s]]
  <2>1. /\ Account \in Bags /\ op[h].device \in Devices
        /\ op[h].items \in Contents /\ op[h].group \in Groups
      BY <1>8, CallTypes DEF MergeWrite, Bags
  <2>2. items' = [items EXCEPT ![Account] = c] /\ group' = [group EXCEPT ![Account] = g]
      BY <1>8 DEF MergeWrite
  <2>3. \A p \in Products : Capped(items[Account][p], op[h].items[p]) \in 0 .. MaxQuantity
      BY <2>1, BagTypes, BoundsAssumption DEF Contents, Capped, Least
  <2>4. c \in Contents /\ g \in Groups
      BY <2>1, <2>3, BagTypes DEF Contents, Groups
  <2> HIDE DEF c, g
  <2>5. items' \in [Bags -> Contents] /\ group' \in [Bags -> Groups]
      BY <2>1, <2>2, <2>4, ItemsWritten, GroupWritten
  <2> QED BY <1>8, <2>1, <2>5, FinishTypes DEF MergeWrite, TypeOK
<1>9. CASE Stop(h)
    BY <1>9, FinishTypes DEF Stop, TypeOK, bagVars
<1> QED BY <1>1, <1>2, <1>3, <1>4, <1>5, <1>6, <1>7, <1>8, <1>9 DEF Shopping

\* The transactions that change one bag.
LEMMA OneBagTypes ==
    ASSUME TypeOK, NEW b \in Bags,
           (\E p \in Products : removeItem(b, p)) \/ (\E s \in Shops : addBundle(b, s))
    PROVE  TypeOK'
<1>1. ASSUME NEW p \in Products, removeItem(b, p) PROVE TypeOK'
  <2> DEFINE left == \E r \in Goods(ShopOf[p]) \ {p} : items[b][r] > 0
             c == [items[b] EXCEPT ![p] = 0]
             w == IF ~left THEN "none" ELSE IF OfSet(b, p) THEN "plain" ELSE group[b][ShopOf[p]]
             g == [group[b] EXCEPT ![ShopOf[p]] = w]
  <2>1. items[b] \in Contents /\ group[b] \in Groups /\ ShopOf[p] \in Shops
        /\ w \in {"none", "plain", "set"}
      BY BagTypes
  <2>2. items' = [items EXCEPT ![b] = c] /\ group' = [group EXCEPT ![b] = g]
      BY <1>1 DEF removeItem
  <2> HIDE DEF w
  <2>3. c \in Contents /\ g \in Groups
      BY <2>1, BoundsAssumption DEF Contents, Groups
  <2> HIDE DEF c, g
  <2>4. items' \in [Bags -> Contents] /\ group' \in [Bags -> Groups]
      BY <2>2, <2>3, ItemsWritten, GroupWritten
  <2> QED BY <1>1, <2>4, BoundsAssumption DEF removeItem, Called, TypeOK
<1>2. ASSUME NEW s \in Shops, addBundle(b, s) PROVE TypeOK'
  <2> DEFINE c == [p \in Products |-> IF p \in SetOf(s) THEN 1 ELSE items[b][p]]
             g == [group[b] EXCEPT ![s] = "set"]
  <2>1. items[b] \in Contents /\ group[b] \in Groups
      BY BagTypes
  <2>2. items' = [items EXCEPT ![b] = c] /\ group' = [group EXCEPT ![b] = g]
      BY <1>2 DEF addBundle
  <2>3. c \in Contents /\ g \in Groups
      BY <2>1, BoundsAssumption DEF Contents, Groups
  <2> HIDE DEF c, g
  <2>4. items' \in [Bags -> Contents] /\ group' \in [Bags -> Groups]
      BY <2>2, <2>3, ItemsWritten, GroupWritten
  <2> QED BY <1>2, <2>4, BoundsAssumption DEF addBundle, Called, TypeOK
<1> QED BY <1>1, <1>2

\* What a submit orders.
Ordered(call, shop) == [p \in Products |-> IF p \in Goods(shop) THEN call.items[p] ELSE 0]
Row(call, shop) == [key |-> call.key, shop |-> shop, lines |-> Ordered(call, shop),
                    set |-> call.group[shop] = "set"]

LEMMA RowTypes ==
    ASSUME TypeOK, NEW h \in Handlers, NEW shop \in Shops, op[h].pc = "submit"
    PROVE  /\ Row(op[h], shop) \in Request /\ Row(op[h], shop) # NoRequest
           /\ Row(op[h], shop).key = op[h].key /\ Row(op[h], shop).shop = shop
           /\ op[h].key \in Keys /\ op[h].items \in Contents
<1>1. op[h].key \in Keys /\ op[h].items \in Contents /\ op[h].group \in Groups
    BY CallTypes
<1>2. Ordered(op[h], shop) \in Contents
    BY <1>1, BoundsAssumption DEF Ordered, Contents
<1>3. Row(op[h], shop) \in Request
    BY <1>1, <1>2 DEF Row, Request
<1>4. "shop" \in DOMAIN Row(op[h], shop) /\ "shop" \notin DOMAIN NoRequest
    BY DEF Row, NoRequest
<1> QED BY <1>1, <1>3, <1>4 DEF Row

LEMMA SubmittingTypes ==
    ASSUME TypeOK, NEW h \in Handlers, Submitting(h)
    PROVE  TypeOK'
<1>1. ASSUME NEW key \in Keys, NEW chosen \in SUBSET Shops \ {{}}, SubmitRead(h, key, chosen)
      PROVE  TypeOK'
  <2>1. items[Account] \in Contents /\ group[Account] \in Groups
      BY BagTypes DEF Bags
  <2>2. [pc |-> "submit", key |-> key, items |-> items[Account],
         group |-> group[Account], todo |-> chosen] \in Op
      BY <2>1 DEF Op
  <2> QED BY <1>1, <2>2, BeginTypes DEF SubmitRead, TypeOK, bagVars
<1>2. ASSUME NEW s \in Shops, SubmitReplay(h, s) PROVE TypeOK'
  <2>1. op[h].key \in Keys
      BY <1>2, CallTypes DEF SubmitReplay, ShopDone
  <2>2. \A r \in Of(op[h].key, s) : r \in Requests
      BY DEF Of
  <2> QED BY <1>2, <2>1, <2>2, ShopDoneTypes DEF SubmitReplay, TypeOK, bagVars
<1>3. ASSUME NEW s \in Shops, SubmitRefused(h, s) PROVE TypeOK'
    BY <1>3, ShopDoneTypes DEF SubmitRefused, TypeOK, bagVars
<1>4. ASSUME NEW s \in Shops, NEW r \in Requests, SubmitCreate(h, s, r) PROVE TypeOK'
  <2> DEFINE c == [p \in Products |-> IF p \in Goods(s) THEN 0 ELSE items[Account][p]]
             g == [group[Account] EXCEPT ![s] = "none"]
  <2>1. ShopDone(h, s) /\ op[h].pc = "submit"
      BY <1>4 DEF SubmitCreate, ShopDone
  <2>2. Account \in Bags /\ items[Account] \in Contents /\ group[Account] \in Groups
      BY BagTypes DEF Bags
  <2>3. items' = [items EXCEPT ![Account] = c] /\ group' = [group EXCEPT ![Account] = g]
      BY <1>4 DEF SubmitCreate
  <2>4. c \in Contents /\ g \in Groups
      BY <2>2, BoundsAssumption DEF Contents, Groups
  <2> HIDE DEF c, g
  <2>5. items' \in [Bags -> Contents] /\ group' \in [Bags -> Groups]
      BY <2>2, <2>3, <2>4, ItemsWritten, GroupWritten
  <2>6. request' = [request EXCEPT ![r] = Row(op[h], s)]
      BY <1>4 DEF SubmitCreate, Row, Ordered
  <2>7. request' \in [Requests -> Request \cup {NoRequest}]
      BY <2>1, <2>6, RowTypes DEF TypeOK
  <2>8. answers' = answers \cup {<<op[h].key, s, r>>} /\ op[h].key \in Keys /\ UNCHANGED abandoned
      BY <1>4, <2>1, RowTypes DEF SubmitCreate
  <2> QED BY <2>1, <2>5, <2>7, <2>8, ShopDoneTypes DEF TypeOK
<1> QED BY <1>1, <1>2, <1>3, <1>4 DEF Submitting

LEMMA TypesKept == TypeOK /\ [Next]_vars => TypeOK'
<1> SUFFICES ASSUME TypeOK, [Next]_vars PROVE TypeOK'
    OBVIOUS
<1>1. CASE UNCHANGED vars
    BY <1>1 DEF vars, TypeOK
<1> QED BY <1>1, ShoppingTypes, SubmittingTypes, OneBagTypes DEF Next

\* Bags stay within the cap, and calls, requests and answers have their types.
THEOREM types == Spec => []TypeOK
<1> QED BY InitTypes, TypesKept, PTL DEF Spec

-----------------------------------------------------------------------------
(* Requests and answers                                                    *)

\* A key orders from a shop once, and an answer names that request.
OneRequest == \A r, t \in Requests : /\ request[r] # NoRequest /\ request[t] # NoRequest
                                     /\ request[r].key = request[t].key
                                     /\ request[r].shop = request[t].shop
                                     => r = t
AnswersName == \A a \in answers : /\ a[3] \in Requests /\ request[a[3]] # NoRequest
                                  /\ request[a[3]].key = a[1] /\ request[a[3]].shop = a[2]
CartInv == TypeOK /\ OneRequest /\ AnswersName /\ SetsOrderedWhole

\* Only SubmitCreate makes a request, and only it and SubmitReplay answer.
LEMMA Untouched ==
    ASSUME TypeOK, [Next]_vars
    PROVE  \/ UNCHANGED <<request, answers>>
           \/ \E h \in Handlers, s \in Shops : SubmitReplay(h, s)
           \/ \E h \in Handlers, s \in Shops, r \in Requests : SubmitCreate(h, s, r)
<1>1. ASSUME NEW h \in Handlers, Shopping(h) PROVE UNCHANGED <<request, answers>>
    BY <1>1 DEF Shopping, AddRead, AddWrite, UpdateRead, UpdateWrite, GroupRead, GroupWrite,
                MergeRead, MergeWrite, Stop
<1>2. ASSUME NEW b \in Bags,
             (\E p \in Products : removeItem(b, p)) \/ (\E s \in Shops : addBundle(b, s))
      PROVE  UNCHANGED <<request, answers>>
    BY <1>2 DEF removeItem, addBundle
<1>3. ASSUME NEW h \in Handlers, Submitting(h)
      PROVE  \/ UNCHANGED <<request, answers>>
             \/ \E s \in Shops : SubmitReplay(h, s)
             \/ \E s \in Shops, r \in Requests : SubmitCreate(h, s, r)
    BY <1>3 DEF Submitting, SubmitRead, SubmitRefused
<1> QED BY <1>1, <1>2, <1>3 DEF Next, vars

LEMMA CartKept == CartInv /\ [Next]_vars => CartInv'
<1> SUFFICES ASSUME CartInv, [Next]_vars PROVE CartInv'
    OBVIOUS
<1> USE DEF CartInv
<1>1. TypeOK'
    BY TypesKept
<1>2. CASE UNCHANGED <<request, answers>>
    BY <1>1, <1>2 DEF OneRequest, AnswersName, SetsOrderedWhole
<1>3. ASSUME NEW h \in Handlers, NEW s \in Shops, SubmitReplay(h, s) PROVE CartInv'
  <2>1. PICK r \in Of(op[h].key, s) : answers' = answers \cup {<<op[h].key, s, r>>}
      BY <1>3 DEF SubmitReplay
  <2>2. UNCHANGED request
      BY <1>3 DEF SubmitReplay
  <2>3. AnswersName'
      BY <2>1, <2>2 DEF AnswersName, Of
  <2> QED BY <1>1, <2>2, <2>3 DEF OneRequest, SetsOrderedWhole
<1>4. ASSUME NEW h \in Handlers, NEW s \in Shops, NEW r \in Requests, SubmitCreate(h, s, r)
      PROVE  CartInv'
  <2> DEFINE row == Row(op[h], s)
  <2>1. op[h].pc = "submit" /\ request[r] = NoRequest /\ Fresh(op[h].key, s) /\ SetWhole(op[h], s)
      BY <1>4 DEF SubmitCreate, ShopDone
  <2>2. /\ request' = [request EXCEPT ![r] = row]
        /\ answers' = answers \cup {<<op[h].key, s, r>>}
      BY <1>4 DEF SubmitCreate, Row, Ordered
  <2>3. row \in Request /\ row # NoRequest /\ row.key = op[h].key /\ row.shop = s
      BY <2>1, RowTypes
  <2>4. row.set => \A p \in SetOf(s) : row.lines[p] = 1
      BY <2>1 DEF Row, Ordered, SetWhole, SetOf, Goods
  <2> HIDE DEF row
  <2>5. \A t \in Requests : request'[t] = IF t = r THEN row ELSE request[t]
      BY <2>2 DEF TypeOK
  <2>6. OneRequest'
      BY <2>1, <2>3, <2>5 DEF OneRequest, Fresh, Of
  <2>7. AnswersName'
      BY <2>1, <2>2, <2>3, <2>5 DEF AnswersName
  <2>8. SetsOrderedWhole'
      BY <2>3, <2>4, <2>5 DEF SetsOrderedWhole
  <2> QED BY <1>1, <2>6, <2>7, <2>8
<1> QED BY <1>2, <1>3, <1>4, Untouched

LEMMA cartInvariance == Spec => []CartInv
<1>1. Init => CartInv
    BY InitTypes DEF Init, CartInv, OneRequest, AnswersName, SetsOrderedWhole
<1> QED BY <1>1, CartKept, PTL DEF Spec

\* A submit sent again, or by two calls at once, orders from a shop once, and
\* every answer to its key names that order.
THEOREM ordersOnce == Spec => []SubmitOrdersOnce
<1>1. CartInv => SubmitOrdersOnce
  <2> SUFFICES ASSUME CartInv PROVE SubmitOrdersOnce
      OBVIOUS
  <2>1. \A a, b \in answers : a[1] = b[1] /\ a[2] = b[2] => a[3] = b[3]
      BY DEF CartInv, OneRequest, AnswersName
  <2> QED BY <2>1 DEF CartInv, OneRequest, SubmitOrdersOnce
<1> QED BY <1>1, cartInvariance, PTL

\* A set is ordered one of each, however its bag came about.
THEOREM setsWhole == Spec => []SetsOrderedWhole
<1>1. CartInv => SetsOrderedWhole
    BY DEF CartInv
<1> QED BY <1>1, cartInvariance, PTL
=============================================================================
