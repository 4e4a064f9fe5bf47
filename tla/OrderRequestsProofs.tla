------------------------ MODULE OrderRequestsProofs ------------------------
(***************************************************************************)
(* Proofs about OrderRequests for any number of requests, customers and    *)
(* handlers.  RequestInv is inductive; the promotion's limits follow from  *)
(* one lemma, that every step but createRequest leaves the counted units   *)
(* as they were or removes some, and from what quote checks in that step.  *)
(***************************************************************************)
EXTENDS OrderRequests, FiniteSetTheorems, TLAPS

\* The units a set of requests holds: finite, fewer for fewer requests, and
\* increased by its own units for a request added.
LEMMA UnitsFinite ==
    ASSUME NEW S, IsFiniteSet(S), NEW held, \A q \in S : held[q].units \in Nat
    PROVE  IsFiniteSet(UnitsOf(held, S)) /\ Cardinality(UnitsOf(held, S)) \in Nat
<1> DEFINE Of(q) == {q} \X (1 .. held[q].units)
           f == [q \in S |-> Of(q)]
           T == {Of(q) : q \in S}
<1>1. f \in Surjection(S, T)
    BY DEF Surjection
<1>2. IsFiniteSet(T)
    BY <1>1, FS_Surjection
<1>3. ASSUME NEW q \in S PROVE IsFiniteSet(Of(q))
  <2>1. IsFiniteSet({q})
      BY FS_Singleton
  <2>2. IsFiniteSet(1 .. held[q].units)
      BY <1>3, FS_Interval
  <2> QED BY <2>1, <2>2, FS_Product
<1>4. \A t \in T : IsFiniteSet(t)
    BY <1>3
<1>5. IsFiniteSet(UNION T)
    BY <1>2, <1>4, FS_UNION
<1> QED BY <1>5, FS_CardinalityType DEF UnitsOf

LEMMA UnitsFewer ==
    ASSUME NEW T, IsFiniteSet(T), NEW S, S \subseteq T, NEW f, NEW g,
           \A q \in T : g[q].units \in Nat,
           \A q \in S : f[q].units = g[q].units
    PROVE  /\ Cardinality(UnitsOf(f, S)) \in Nat
           /\ Cardinality(UnitsOf(f, S)) <= Cardinality(UnitsOf(g, T))
<1>1. UnitsOf(f, S) \subseteq UnitsOf(g, T)
    BY DEF UnitsOf
<1>2. IsFiniteSet(UnitsOf(g, T))
    BY UnitsFinite
<1> QED BY <1>1, <1>2, FS_Subset, FS_CardinalityType

LEMMA UnitsPlus ==
    ASSUME NEW S, IsFiniteSet(S), NEW q, q \notin S, NEW f,
           \A r \in S \cup {q} : f[r].units \in Nat
    PROVE  /\ Cardinality(UnitsOf(f, S)) \in Nat
           /\ Cardinality(UnitsOf(f, S \cup {q})) = Cardinality(UnitsOf(f, S)) + f[q].units
<1> DEFINE own == {q} \X (1 .. f[q].units)
<1>1. IsFiniteSet(UnitsOf(f, S)) /\ Cardinality(UnitsOf(f, S)) \in Nat
    BY UnitsFinite
<1>2. IsFiniteSet(1 .. f[q].units) /\ Cardinality(1 .. f[q].units) = f[q].units
  <2> DEFINE n == f[q].units
  <2>1. n \in Nat
      OBVIOUS
  <2> HIDE DEF n
  <2>2. IsFiniteSet(1 .. n) /\ Cardinality(1 .. n) = IF 1 > n THEN 0 ELSE n - 1 + 1
      BY <2>1, FS_Interval
  <2>3. IsFiniteSet(1 .. n) /\ Cardinality(1 .. n) = n
      BY <2>1, <2>2
  <2> QED BY <2>3 DEF n
<1>3. IsFiniteSet({q}) /\ Cardinality({q}) = 1
    BY FS_Singleton
<1>4. IsFiniteSet(own) /\ Cardinality(own) = f[q].units
  <2>1. IsFiniteSet(own) /\ Cardinality(own) = Cardinality({q}) * Cardinality(1 .. f[q].units)
      BY <1>2, <1>3, FS_Product
  <2>2. f[q].units \in Nat
      OBVIOUS
  <2> HIDE DEF own
  <2> QED BY <1>2, <1>3, <2>1, <2>2
<1>5. UnitsOf(f, S \cup {q}) = UnitsOf(f, S) \cup own
    BY DEF UnitsOf
<1>6. UnitsOf(f, S) \cap own = {}
    BY DEF UnitsOf
<1>7. Cardinality({}) = 0
    BY FS_EmptySet
<1> HIDE DEF own
<1>8. Cardinality(UnitsOf(f, S) \cup own)
          = Cardinality(UnitsOf(f, S)) + Cardinality(own) - Cardinality(UnitsOf(f, S) \cap own)
    BY <1>1, <1>4, FS_Union
<1>9. f[q].units \in Nat
    OBVIOUS
<1>10. Cardinality(UnitsOf(f, S \cup {q})) = Cardinality(UnitsOf(f, S)) + f[q].units - 0
    BY <1>4, <1>5, <1>6, <1>7, <1>8
<1> QED BY <1>1, <1>9, <1>10

-----------------------------------------------------------------------------
LEMMA InitRequests == Init => RequestInv
<1> SUFFICES ASSUME Init PROVE RequestInv
    OBVIOUS
<1> USE BoundsAssumption
<1>1. TypeOK
  <2>1. NoClaim \in Claim /\ NoSale \in Sale /\ Idle \in Op
      BY DEF NoClaim, Claim, NoSale, Sale, Op
  <2> QED BY <2>1 DEF Init, TypeOK
<1>2. NewHoldsNothing
    BY DEF Init, NewHoldsNothing
<1>3. GoodsAccounted
  <2>1. OpenSales = {}
      BY DEF Init, OpenSales, NoSale
  <2>2. Cardinality(UnitsOf(sale, OpenSales)) = 0
      BY <2>1, FS_EmptySet DEF UnitsOf
  <2>3. stock \in Nat /\ stock = InitialStock
      BY DEF Init
  <2> QED BY <2>2, <2>3 DEF GoodsAccounted
<1> QED BY <1>1, <1>2, <1>3 DEF RequestInv

\* A call keeps the shape of its fields from its read to its write.
LEMMA OpFields ==
    ASSUME TypeOK, NEW h \in Handlers
    PROVE  /\ op[h].pc # "idle" => op[h].q \in Requests
           /\ op[h].pc = "update" => op[h].to \in OrderRequestStatus
           /\ op[h].pc = "sale" => op[h].units \in Nat \ {0}
           /\ op[h].pc = "answer" => op[h].id \in Changes /\ op[h].decision \in {"ACCEPTED", "DECLINED"}
BY DEF TypeOK, Op, Idle

\* A reservation moves between its states and stays a reservation.
LEMMA ClaimMoves ==
    ASSUME NEW c \in Claim, NEW s \in {"RESERVED", "REDEEMED", "RELEASED", "EXPIRED"}
    PROVE  [c EXCEPT !.state = s] \in Claim
BY DEF Claim

LEMMA ReleaseTypes ==
    ASSUME TypeOK, NEW q \in Requests, releaseForRequest(q)
    PROVE  claim' \in [Requests -> Claim]
<1> DEFINE new == [claim[q] EXCEPT !.state = IF claim[q].state = "RESERVED" THEN "RELEASED" ELSE claim[q].state]
<1>1. claim \in [Requests -> Claim] /\ claim[q] \in Claim
    BY DEF TypeOK
<1>2. new \in Claim
    BY <1>1 DEF Claim
<1>3. claim' = [claim EXCEPT ![q] = new]
    BY <1>1 DEF releaseForRequest
<1> HIDE DEF new
<1> QED BY <1>1, <1>2, <1>3

LEMMA TypesKept == TypeOK /\ [Next]_vars => TypeOK'
<1> SUFFICES ASSUME TypeOK, [Next]_vars PROVE TypeOK'
    OBVIOUS
<1> USE BoundsAssumption, OrdersAssumption
<1>1. CASE UNCHANGED vars
    BY <1>1 DEF vars, requestVars, TypeOK
<1>2. ASSUME NEW q \in Requests, NEW k \in Customers, NEW o \in Orders, createRequest(q, k, o)
      PROVE  TypeOK'
  <2>1. PromotionUnits(k, o) \in Nat
      BY DEF PromotionUnits, LineUnits
  <2>2. claim' \in [Requests -> Claim]
    <3> DEFINE new == IF PromotionUnits(k, o) > 0
                      THEN [state |-> "RESERVED", lapsed |-> FALSE, units |-> PromotionUnits(k, o)]
                      ELSE NoClaim
    <3>1. new \in Claim
        BY <2>1 DEF Claim, NoClaim
    <3>2. \A r \in Requests : claim[r] \in Claim /\ [claim[r] EXCEPT !.state = "EXPIRED"] \in Claim
      <4> SUFFICES ASSUME NEW r \in Requests
                   PROVE  claim[r] \in Claim /\ [claim[r] EXCEPT !.state = "EXPIRED"] \in Claim
          OBVIOUS
      <4>1. claim[r] \in Claim
          BY DEF TypeOK
      <4> QED BY <4>1, ClaimMoves
    <3>3. Swept \in [Requests -> Claim]
        BY <3>2 DEF Swept
    <3>4. claim' = [Swept EXCEPT ![q] = new]
        BY <1>2 DEF createRequest
    <3> HIDE DEF new
    <3> QED BY <3>1, <3>3, <3>4
  <2> QED BY <1>2, <2>2 DEF createRequest, TypeOK, OrderRequestStatus
<1>3. ASSUME NEW q \in Requests, convertRequest(q) PROVE TypeOK'
  <2> DEFINE n == order[q][1] + order[q][2]
  <2>1. n \in Nat /\ n <= stock /\ stock' = stock - n
      BY <1>3 DEF convertRequest, Sellable, createSale, consumeSaleInventory, TypeOK
  <2> HIDE DEF n
  <2>2. stock' \in Nat
      BY <2>1 DEF TypeOK
  <2>3. sale' \in [Requests -> Sale]
      BY <1>3, <2>1 DEF convertRequest, createSale, TypeOK, Sale, n
  <2>4. claim' \in [Requests -> Claim]
      BY <1>3 DEF convertRequest, redeemForRequest, TypeOK, Claim
  <2> QED BY <1>3, <2>2, <2>3, <2>4 DEF convertRequest, createSale, TypeOK, OrderRequestStatus
<1>4. ASSUME NEW q \in Requests, CancelSale(q) PROVE TypeOK'
    BY <1>4 DEF CancelSale, TypeOK, Sale, requestVars
<1>5. ASSUME NEW q \in Requests, Lapse(q) PROVE TypeOK'
    BY <1>5 DEF Lapse, TypeOK, Claim, requestVars
<1>6. ASSUME NEW h \in Owners, OwnerStep(h) PROVE TypeOK'
  <2>0. h \in Handlers
      BY DEF Handlers
  <2>1. ASSUME NEW q \in Requests, NEW to \in OrderRequestStatus, UpdateRead(h, q, to) PROVE TypeOK'
      BY <2>0, <2>1 DEF UpdateRead, Begin, TypeOK, Op, requestVars
  <2>2. ASSUME NEW q \in Requests, TermsRead(h, q) PROVE TypeOK'
      BY <2>0, <2>2 DEF TermsRead, Begin, TypeOK, Op, requestVars
  <2>3. ASSUME NEW q \in Requests, NEW o \in Orders, SaleRead(h, q, o[1] + o[2]) PROVE TypeOK'
    <3>1. o[1] + o[2] \in Nat \ {0}
        OBVIOUS
    <3> QED BY <2>0, <2>3, <3>1 DEF SaleRead, Begin, TypeOK, Op, requestVars
  <2>4. ASSUME UpdateWrite(h) PROVE TypeOK'
    <3>1. op[h].q \in Requests /\ op[h].to \in OrderRequestStatus
        BY <2>0, <2>4, OpFields DEF UpdateWrite
    <3>2. claim' \in [Requests -> Claim]
        BY <2>4, <3>1, ReleaseTypes DEF UpdateWrite, TypeOK
    <3> QED BY <2>0, <2>4, <3>1, <3>2 DEF UpdateWrite, Finish, TypeOK, Op
  <2>5. ASSUME TermsSupersede(h) PROVE TypeOK'
    <3>1. op[h].q \in Requests
        BY <2>0, <2>5, OpFields DEF TermsSupersede
    <3>2. Superseded(op[h].q) \in [Changes -> Resolved \cup {"PENDING", "NONE"}]
        BY <3>1 DEF Superseded, TypeOK, Resolved
    <3> QED BY <2>0, <2>5, <3>1, <3>2 DEF TermsSupersede, TypeOK, Op, requestVars
  <2>6. ASSUME SaleWrite(h) PROVE TypeOK'
    <3>1. op[h].q \in Requests /\ op[h].units \in Nat
        BY <2>0, <2>6, OpFields DEF SaleWrite
    <3>2. stock' \in Nat /\ sale' \in [Requests -> Sale]
        BY <2>6, <3>1 DEF SaleWrite, Sellable, createSale, consumeSaleInventory, TypeOK, Sale
    <3> QED BY <2>0, <2>6, <3>1, <3>2 DEF SaleWrite, createSale, Finish, TypeOK, Op, OrderRequestStatus
  <2>7. ASSUME NEW i \in Changes, TermsPropose(h, i) PROVE TypeOK'
    <3>1. op[h].q \in Requests
        BY <2>0, <2>7, OpFields DEF TermsPropose
    <3> QED BY <2>0, <2>7, <3>1 DEF TermsPropose, Finish, TypeOK, Op, OrderRequestStatus
  <2> QED BY <1>6, <2>1, <2>2, <2>3, <2>4, <2>5, <2>6, <2>7 DEF OwnerStep
<1>7. ASSUME NEW h \in Buyers, BuyerStep(h) PROVE TypeOK'
  <2>0. h \in Handlers
      BY DEF Handlers
  <2>1. ASSUME NEW q \in Requests, CancelRead(h, q) PROVE TypeOK'
      BY <2>0, <2>1 DEF CancelRead, Begin, TypeOK, Op, requestVars
  <2>2. ASSUME NEW q \in Requests, NEW i \in Changes, NEW d \in {"ACCEPTED", "DECLINED"}, AnswerRead(h, q, i, d)
        PROVE  TypeOK'
      BY <2>0, <2>2 DEF AnswerRead, Begin, TypeOK, Op, requestVars
  <2>3. ASSUME AnswerWrite(h) PROVE TypeOK'
    <3>1. op[h].q \in Requests /\ op[h].id \in Changes /\ op[h].decision \in Resolved
        BY <2>0, <2>3, OpFields DEF AnswerWrite, Resolved
    <3> QED BY <2>0, <2>3, <3>1 DEF AnswerWrite, Finish, TypeOK, Op, OrderRequestStatus
  <2>4. ASSUME CancelWrite(h) PROVE TypeOK'
    <3>1. op[h].q \in Requests
        BY <2>0, <2>4, OpFields DEF CancelWrite
    <3> QED BY <2>0, <2>4, <3>1 DEF CancelWrite, TypeOK, Op, OrderRequestStatus
  <2>5. ASSUME CancelRelease(h) PROVE TypeOK'
    <3>1. op[h].q \in Requests
        BY <2>0, <2>5, OpFields DEF CancelRelease
    <3>2. claim' \in [Requests -> Claim]
        BY <2>5, <3>1, ReleaseTypes DEF CancelRelease
    <3> QED BY <2>0, <2>5, <3>2 DEF CancelRelease, Finish, TypeOK, Op, requestVars
  <2> QED BY <1>7, <2>1, <2>2, <2>3, <2>4, <2>5 DEF BuyerStep
<1>8. ASSUME NEW h \in Handlers, Stop(h) PROVE TypeOK'
    BY <1>8 DEF Stop, Finish, TypeOK, Op, requestVars
<1> QED BY <1>1, <1>2, <1>3, <1>4, <1>5, <1>6, <1>7, <1>8 DEF Next
-----------------------------------------------------------------------------
LEMMA RequestsFinite ==
    ASSUME NEW S \in SUBSET Requests
    PROVE  IsFiniteSet(S)
BY BoundsAssumption, FS_Subset

\* A sale made takes its units out of the stock.
LEMMA SaleAccounted ==
    ASSUME TypeOK, GoodsAccounted, NEW q \in Requests, NEW n \in Nat,
           Sellable(q, n), createSale(q, n)
    PROVE  GoodsAccounted'
<1>1. sale \in [Requests -> Sale] /\ sale' = [sale EXCEPT ![q] = [state |-> "open", units |-> n]]
    BY DEF TypeOK, createSale
<1>2. q \notin OpenSales /\ OpenSales' = OpenSales \cup {q}
    BY <1>1 DEF OpenSales, Sellable, NoSale
<1>3. \A r \in Requests : sale[r].units \in Nat
    BY <1>1 DEF Sale
<1>4. \A r \in OpenSales \cup {q} : sale'[r].units \in Nat
    BY <1>1, <1>3 DEF OpenSales
<1>5. UnitsOf(sale', OpenSales) = UnitsOf(sale, OpenSales)
  <2>1. \A r \in OpenSales : sale'[r] = sale[r]
      BY <1>1, <1>2 DEF OpenSales
  <2> QED BY <2>1 DEF UnitsOf
<1>6. IsFiniteSet(OpenSales)
    BY RequestsFinite DEF OpenSales
<1>7. sale'[q].units = n
    BY <1>1
<1> DEFINE taken == Cardinality(UnitsOf(sale, OpenSales))
<1>8. taken \in Nat /\ Cardinality(UnitsOf(sale', OpenSales')) = taken + n
    BY <1>2, <1>4, <1>5, <1>6, <1>7, UnitsPlus
<1>9. stock \in Nat /\ n <= stock /\ stock' = stock - n /\ stock + taken = InitialStock
    BY DEF TypeOK, Sellable, createSale, consumeSaleInventory, GoodsAccounted
<1> HIDE DEF taken
<1> QED BY <1>8, <1>9 DEF GoodsAccounted

\* A cancellation gives the units of an open sale back, and of no other.
LEMMA RestoreAccounted ==
    ASSUME TypeOK, GoodsAccounted, NEW q \in Requests, CancelSale(q)
    PROVE  GoodsAccounted'
<1>1. sale \in [Requests -> Sale] /\ sale' = [sale EXCEPT ![q].state = "canceled"]
    BY DEF TypeOK, CancelSale
<1>2. \A r \in Requests : sale[r].units \in Nat
    BY <1>1 DEF Sale
<1> DEFINE rest == OpenSales \ {q}
<1>3. OpenSales' = rest /\ UnitsOf(sale', rest) = UnitsOf(sale, rest)
  <2>1. OpenSales' = rest
      BY <1>1 DEF OpenSales
  <2>2. \A r \in rest : sale'[r] = sale[r]
      BY <1>1 DEF OpenSales
  <2> QED BY <2>1, <2>2 DEF UnitsOf
<1>4. CASE Restorable(q)
  <2>1. OpenSales = rest \cup {q} /\ q \notin rest
      BY <1>4 DEF OpenSales, Restorable
  <2>2. IsFiniteSet(rest) /\ \A r \in rest \cup {q} : sale[r].units \in Nat
      BY <1>2, RequestsFinite DEF OpenSales
  <2> DEFINE left == Cardinality(UnitsOf(sale, rest))
  <2>3. left \in Nat /\ Cardinality(UnitsOf(sale, OpenSales)) = left + sale[q].units
    <3> HIDE DEF rest
    <3> QED BY <2>1, <2>2, UnitsPlus
  <2>4. Cardinality(UnitsOf(sale', OpenSales')) = left
      BY <1>3
  <2>5. stock' = stock + sale[q].units /\ stock \in Nat /\ sale[q].units \in Nat
      BY <1>2, <1>4 DEF CancelSale, TypeOK
  <2> HIDE DEF left
  <2> QED BY <2>3, <2>4, <2>5 DEF GoodsAccounted
<1>5. CASE ~Restorable(q)
  <2>1. rest = OpenSales
      BY <1>5 DEF OpenSales, Restorable
  <2>2. stock' = stock
      BY <1>5 DEF CancelSale
  <2> QED BY <1>3, <2>1, <2>2 DEF GoodsAccounted
<1> QED BY <1>4, <1>5

LEMMA GoodsUntouched ==
    ASSUME GoodsAccounted, UNCHANGED <<sale, stock>>
    PROVE  GoodsAccounted'
BY DEF GoodsAccounted, OpenSales, UnitsOf

LEMMA GoodsKept == TypeOK /\ GoodsAccounted /\ [Next]_vars => GoodsAccounted'
<1> SUFFICES ASSUME TypeOK, GoodsAccounted, [Next]_vars PROVE GoodsAccounted'
    OBVIOUS
<1> USE OrdersAssumption
<1>1. CASE UNCHANGED vars
    BY <1>1, GoodsUntouched DEF vars
<1>2. ASSUME NEW q \in Requests, NEW k \in Customers, NEW o \in Orders, createRequest(q, k, o)
      PROVE  GoodsAccounted'
    BY <1>2, GoodsUntouched DEF createRequest
<1>3. ASSUME NEW q \in Requests, convertRequest(q) PROVE GoodsAccounted'
  <2> DEFINE n == order[q][1] + order[q][2]
  <2>1. n \in Nat
      BY DEF TypeOK
  <2>2. Sellable(q, n) /\ createSale(q, n)
      BY <1>3 DEF convertRequest
  <2> HIDE DEF n
  <2> QED BY <2>1, <2>2, SaleAccounted
<1>4. ASSUME NEW q \in Requests, CancelSale(q) PROVE GoodsAccounted'
    BY <1>4, RestoreAccounted
<1>5. ASSUME NEW q \in Requests, Lapse(q) PROVE GoodsAccounted'
    BY <1>5, GoodsUntouched DEF Lapse
<1>6. ASSUME NEW h \in Owners, OwnerStep(h) PROVE GoodsAccounted'
  <2>1. CASE SaleWrite(h)
    <3>1. h \in Handlers /\ op[h].q \in Requests /\ op[h].units \in Nat
        BY <2>1, OpFields DEF SaleWrite, Handlers
    <3> QED BY <2>1, <3>1, SaleAccounted DEF SaleWrite
  <2>2. CASE ~SaleWrite(h)
      BY <1>6, <2>2, GoodsUntouched
         DEF OwnerStep, UpdateRead, UpdateWrite, TermsRead, TermsSupersede, TermsPropose, SaleRead
  <2> QED BY <2>1, <2>2
<1>7. ASSUME NEW h \in Buyers, BuyerStep(h) PROVE GoodsAccounted'
    BY <1>7, GoodsUntouched
       DEF BuyerStep, AnswerRead, AnswerWrite, CancelRead, CancelWrite, CancelRelease
<1>8. ASSUME NEW h \in Handlers, Stop(h) PROVE GoodsAccounted'
    BY <1>8, GoodsUntouched DEF Stop
<1> QED BY <1>1, <1>2, <1>3, <1>4, <1>5, <1>6, <1>7, <1>8 DEF Next

LEMMA NewStaysEmpty == TypeOK /\ NewHoldsNothing /\ [Next]_vars => NewHoldsNothing'
<1> SUFFICES ASSUME TypeOK, NewHoldsNothing, [Next]_vars PROVE NewHoldsNothing'
    OBVIOUS
<1> USE DEF NewHoldsNothing
<1>1. CASE UNCHANGED vars
    BY <1>1 DEF vars, requestVars
<1>2. ASSUME NEW q \in Requests, NEW k \in Customers, NEW o \in Orders, createRequest(q, k, o)
      PROVE  NewHoldsNothing'
  <2>1. \A r \in Requests : status'[r] = "NONE" => r # q /\ status[r] = "NONE"
      BY <1>2 DEF createRequest, TypeOK
  <2>2. \A r \in Requests : claim[r] = NoClaim => Swept[r] = NoClaim
      BY DEF Swept, NoClaim
  <2>3. \A r \in Requests : r # q => claim'[r] = Swept[r]
      BY <1>2 DEF createRequest, Swept
  <2> QED BY <1>2, <2>1, <2>2, <2>3 DEF createRequest
<1>3. ASSUME NEW q \in Requests, convertRequest(q) PROVE NewHoldsNothing'
    BY <1>3 DEF convertRequest, createSale, redeemForRequest, TypeOK
<1>4. ASSUME NEW q \in Requests, CancelSale(q) PROVE NewHoldsNothing'
    BY <1>4 DEF CancelSale, TypeOK, requestVars, NoSale
<1>5. ASSUME NEW q \in Requests, Lapse(q) PROVE NewHoldsNothing'
  <2>1. claim[q] # NoClaim
      BY <1>5 DEF Lapse, Held, NoClaim
  <2>2. \A r \in Requests : r # q => claim'[r] = claim[r]
      BY <1>5 DEF Lapse, TypeOK
  <2> QED BY <1>5, <2>1, <2>2 DEF Lapse, requestVars
<1>6. ASSUME NEW h \in Owners, OwnerStep(h) PROVE NewHoldsNothing'
  <2>0. h \in Handlers
      BY DEF Handlers
  <2>1. ASSUME UpdateWrite(h) PROVE NewHoldsNothing'
    <3>1. op[h].q \in Requests /\ op[h].to \in OrderRequestStatus
        BY <2>0, <2>1, OpFields DEF UpdateWrite
    <3> QED BY <2>1, <3>1 DEF UpdateWrite, releaseForRequest, TypeOK, OrderRequestStatus
  <2>2. ASSUME SaleWrite(h) PROVE NewHoldsNothing'
    <3>1. op[h].q \in Requests
        BY <2>0, <2>2, OpFields DEF SaleWrite
    <3> QED BY <2>2, <3>1 DEF SaleWrite, createSale, TypeOK
  <2>3. ASSUME NEW i \in Changes, TermsPropose(h, i) PROVE NewHoldsNothing'
    <3>1. op[h].q \in Requests
        BY <2>0, <2>3, OpFields DEF TermsPropose
    <3> QED BY <2>3, <3>1 DEF TermsPropose, TypeOK
  <2>4. CASE UNCHANGED <<status, claim, sale>>
      BY <2>4
  <2> QED BY <1>6, <2>1, <2>2, <2>3, <2>4
          DEF OwnerStep, UpdateRead, TermsRead, TermsSupersede, SaleRead, requestVars
<1>7. ASSUME NEW h \in Buyers, BuyerStep(h) PROVE NewHoldsNothing'
  <2>0. h \in Handlers
      BY DEF Handlers
  <2>1. ASSUME AnswerWrite(h) PROVE NewHoldsNothing'
    <3>1. op[h].q \in Requests
        BY <2>0, <2>1, OpFields DEF AnswerWrite
    <3> QED BY <2>1, <3>1 DEF AnswerWrite, TypeOK
  <2>2. ASSUME CancelWrite(h) PROVE NewHoldsNothing'
    <3>1. op[h].q \in Requests
        BY <2>0, <2>2, OpFields DEF CancelWrite
    <3> QED BY <2>2, <3>1 DEF CancelWrite, TypeOK
  <2>3. ASSUME CancelRelease(h) PROVE NewHoldsNothing'
    <3>1. op[h].q \in Requests
        BY <2>0, <2>3, OpFields DEF CancelRelease
    <3>2. claim[op[h].q] = NoClaim => claim'[op[h].q] = NoClaim
        BY <2>3, <3>1 DEF CancelRelease, releaseForRequest, TypeOK, NoClaim
    <3>3. \A r \in Requests : r # op[h].q => claim'[r] = claim[r]
        BY <2>3, <3>1 DEF CancelRelease, releaseForRequest, TypeOK
    <3> QED BY <2>3, <3>2, <3>3 DEF CancelRelease, requestVars
  <2>4. CASE UNCHANGED <<status, claim, sale>>
      BY <2>4
  <2> QED BY <1>7, <2>1, <2>2, <2>3, <2>4 DEF BuyerStep, AnswerRead, CancelRead, requestVars
<1>8. ASSUME NEW h \in Handlers, Stop(h) PROVE NewHoldsNothing'
    BY <1>8 DEF Stop, requestVars
<1> QED BY <1>1, <1>2, <1>3, <1>4, <1>5, <1>6, <1>7, <1>8 DEF Next

\* Every state has its types, keeps new requests empty and accounts for the goods.
THEOREM RequestInvariance == Spec => []RequestInv
<1>1. RequestInv /\ [Next]_vars => RequestInv'
    BY TypesKept, NewStaysEmpty, GoodsKept DEF RequestInv
<1> QED BY InitRequests, <1>1, PTL DEF Spec

\* Every row, sale and call in flight keeps its type.
THEOREM types == Spec => []TypeOK
<1>1. RequestInv => TypeOK
    BY DEF RequestInv
<1> QED BY RequestInvariance, <1>1, PTL

\* No unit is sold twice or given back twice: convertRequest, a sale recorded by
\* hand, their concurrent repeats and the sale's cancellation keep the stock exact.
THEOREM goods == Spec => []GoodsAccounted
<1>1. RequestInv => GoodsAccounted
    BY DEF RequestInv
<1> QED BY RequestInvariance, <1>1, PTL

-----------------------------------------------------------------------------
\* The promotion's limits, for requests of one line (SingleLine).

\* No step but createRequest adds a counted unit: the limits stay kept.
LEMMA LimitFewer ==
    ASSUME TypeOK, LimitKept, Counted' \subseteq Counted,
           \A q \in Counted' : claim'[q].units = claim[q].units /\ customer'[q] = customer[q]
    PROVE  LimitKept'
<1>1. \A q \in Requests : claim[q].units \in Nat
    BY DEF TypeOK, Claim
<1>2. IsFiniteSet(Counted) /\ \A k \in Customers : IsFiniteSet(CountedFor(k))
    BY RequestsFinite DEF Counted, CountedFor
<1>3. ClaimLimit \in Nat /\ PerCustomerLimit \in Nat
    BY BoundsAssumption
<1>4. claimedQuantity(Counted)' <= ClaimLimit
  <2>1. /\ Cardinality(UnitsOf(claim', Counted')) \in Nat
        /\ Cardinality(UnitsOf(claim', Counted')) <= Cardinality(UnitsOf(claim, Counted))
      BY <1>1, <1>2, UnitsFewer DEF Counted
  <2>2. Cardinality(UnitsOf(claim, Counted)) \in Nat
      BY <1>1, <1>2, UnitsFinite DEF Counted
  <2> QED BY <1>3, <2>1, <2>2 DEF LimitKept, claimedQuantity
<1>5. ASSUME NEW k \in Customers PROVE claimedQuantity(CountedFor(k))' <= PerCustomerLimit
  <2> DEFINE S == CountedFor(k)'
             T == CountedFor(k)
  <2>1. S \subseteq T /\ IsFiniteSet(T) /\ T \subseteq Requests
      BY <1>2 DEF CountedFor, Counted
  <2>2. \A q \in S : claim'[q].units = claim[q].units
      BY DEF CountedFor
  <2> HIDE DEF S, T
  <2>3. /\ Cardinality(UnitsOf(claim', S)) \in Nat
        /\ Cardinality(UnitsOf(claim', S)) <= Cardinality(UnitsOf(claim, T))
      BY <1>1, <2>1, <2>2, UnitsFewer
  <2>4. Cardinality(UnitsOf(claim, T)) \in Nat
      BY <1>1, <2>1, UnitsFinite
  <2>5. Cardinality(UnitsOf(claim, T)) <= PerCustomerLimit
      BY DEF LimitKept, claimedQuantity, T
  <2>6. Cardinality(UnitsOf(claim', S)) <= PerCustomerLimit
      BY <1>3, <2>3, <2>4, <2>5
  <2> QED BY <2>6 DEF claimedQuantity, S
<1> QED BY <1>4, <1>5 DEF LimitKept

\* createRequest adds to a set of counted requests within a bound what quote
\* found to fit, or nothing.
LEMMA UnitsAdded ==
    ASSUME TypeOK, NEW S \in SUBSET Counted, NEW q \in Requests, q \notin S,
           NEW held, held[q].units \in Nat,
           \A r \in S : held[r].units = claim[r].units,
           NEW L \in Nat, claimedQuantity(S) + held[q].units <= L
    PROVE  Cardinality(UnitsOf(held, S \cup {q})) <= L
<1>1. \A r \in S : claim[r].units \in Nat
    BY DEF TypeOK, Claim, Counted
<1>2. IsFiniteSet(S)
    BY RequestsFinite DEF Counted
<1>3. UnitsOf(held, S) = UnitsOf(claim, S)
    BY DEF UnitsOf
<1>4. /\ Cardinality(UnitsOf(held, S)) \in Nat
      /\ Cardinality(UnitsOf(held, S \cup {q})) = Cardinality(UnitsOf(held, S)) + held[q].units
    BY <1>1, <1>2, UnitsPlus
<1> QED BY <1>3, <1>4 DEF claimedQuantity

LEMMA LimitOnCreate ==
    ASSUME \A o \in Orders : o[2] = 0, TypeOK, NewHoldsNothing, LimitKept,
           NEW q \in Requests, NEW k \in Customers, NEW o \in Orders, createRequest(q, k, o)
    PROVE  LimitKept'
<1> DEFINE n == PromotionUnits(k, o)
           new == IF n > 0 THEN [state |-> "RESERVED", lapsed |-> FALSE, units |-> n] ELSE NoClaim
<1>0. LineUnits(k, o[1]) \in Nat /\ LineUnits(k, o[2]) = 0
    BY OrdersAssumption DEF LineUnits
<1>1. n \in Nat /\ n = LineUnits(k, o[1])
    BY <1>0 DEF PromotionUnits
<1>2. n > 0 => Offered(k, n)
    BY <1>1 DEF LineUnits
<1>3. claim' = [Swept EXCEPT ![q] = new]
    BY DEF createRequest
<1> HIDE DEF n
<1>4. q \notin Counted
    BY DEF NewHoldsNothing, createRequest, Counted, Counts, Held, NoClaim
<1>5. \A r \in Requests \ {q} : claim'[r] = Swept[r] /\ customer'[r] = customer[r]
    BY <1>3 DEF Swept, createRequest, TypeOK
<1>6. claim'[q] = new /\ customer'[q] = k
    BY <1>3 DEF Swept, createRequest, TypeOK
<1>7. \A r \in Requests \ {q} :
          /\ r \in Counted' => r \in Counted
          /\ r \in Counted => r \in Counted' /\ claim'[r].units = claim[r].units
  <2> SUFFICES ASSUME NEW r \in Requests \ {q}
               PROVE  /\ r \in Counted' => r \in Counted
                      /\ r \in Counted => r \in Counted' /\ claim'[r].units = claim[r].units
      OBVIOUS
  <2>1. claim[r] \in Claim /\ claim'[r] = Swept[r]
      BY <1>5 DEF TypeOK
  <2>2. CASE claim[r].state = "RESERVED" /\ claim[r].lapsed
    <3>1. claim'[r].state = "EXPIRED"
        BY <2>1, <2>2 DEF Swept, Claim
    <3> QED BY <2>2, <3>1 DEF Counted, Counts, Held
  <2>3. CASE ~(claim[r].state = "RESERVED" /\ claim[r].lapsed)
    <3>1. claim'[r] = claim[r]
        BY <2>1, <2>3 DEF Swept
    <3> QED BY <3>1 DEF Counted, Counts, Held
  <2> QED BY <2>2, <2>3
<1>8. CASE n > 0
  <2>1. new.units = n /\ new.state = "RESERVED" /\ ~new.lapsed
      BY <1>8
  <2> HIDE DEF new
  <2>2. Counted' = Counted \cup {q}
      BY <1>6, <1>7, <2>1 DEF Counted, Counts, Held
  <2>3. CountedFor(k)' = CountedFor(k) \cup {q}
      BY <1>4, <1>5, <1>6, <2>2 DEF CountedFor, Counted
  <2>4. \A c \in Customers : c # k => CountedFor(c)' = CountedFor(c)
      BY <1>4, <1>5, <1>6, <2>2 DEF CountedFor, Counted
  <2>5. /\ claim'[q].units = n
        /\ \A r \in Counted : claim'[r].units = claim[r].units
      BY <1>4, <1>6, <1>7, <2>1 DEF Counted
  <2>6. ClaimLimit \in Nat /\ PerCustomerLimit \in Nat
      BY BoundsAssumption
  <2>7. claimedQuantity(Counted)' <= ClaimLimit
    <3>1. claimedQuantity(Counted) + claim'[q].units <= ClaimLimit
        BY <1>2, <1>8, <2>5 DEF Offered
    <3>2. Cardinality(UnitsOf(claim', Counted \cup {q})) <= ClaimLimit
        BY <1>1, <1>4, <2>5, <2>6, <3>1, UnitsAdded
    <3> QED BY <2>2, <3>2 DEF claimedQuantity
  <2>8. ASSUME NEW c \in Customers PROVE claimedQuantity(CountedFor(c))' <= PerCustomerLimit
    <3> DEFINE S == CountedFor(c)
    <3>1. S \subseteq Counted /\ q \notin S
        BY <1>4 DEF CountedFor
    <3>2. CASE c = k
      <4>1. claimedQuantity(S) + claim'[q].units <= PerCustomerLimit
          BY <1>2, <1>8, <2>5, <3>2 DEF Offered
      <4>2. CountedFor(c)' = S \cup {q}
          BY <2>3, <3>2
      <4> HIDE DEF S
      <4>3. Cardinality(UnitsOf(claim', S \cup {q})) <= PerCustomerLimit
          BY <1>1, <2>5, <2>6, <3>1, <4>1, UnitsAdded
      <4> QED BY <4>2, <4>3 DEF claimedQuantity
    <3>3. CASE c # k
      <4>1. CountedFor(c)' = S
          BY <2>4, <3>3
      <4>2. UnitsOf(claim', S) = UnitsOf(claim, S)
          BY <2>5, <3>1 DEF UnitsOf
      <4> QED BY <4>1, <4>2 DEF LimitKept, claimedQuantity
    <3> QED BY <3>2, <3>3
  <2> QED BY <2>7, <2>8 DEF LimitKept
<1>9. CASE ~(n > 0)
  <2>1. claim'[q].state = "NONE"
      BY <1>6, <1>9 DEF NoClaim
  <2>2. Counted' \subseteq Counted /\ q \notin Counted'
      BY <1>7, <2>1 DEF Counted, Counts, Held
  <2>3. \A r \in Counted' : claim'[r].units = claim[r].units /\ customer'[r] = customer[r]
      BY <1>5, <1>7, <2>2 DEF Counted
  <2> QED BY <2>2, <2>3, LimitFewer
<1> QED BY <1>8, <1>9

\* What a step other than createRequest does to a reservation.
LEMMA ClaimsOnlyFade ==
    ASSUME TypeOK, NEW q \in Requests,
           \/ UNCHANGED claim
           \/ releaseForRequest(q)
           \/ redeemForRequest(q)
           \/ claim' = [claim EXCEPT ![q].lapsed = TRUE]
    PROVE  /\ Counted' \subseteq Counted
           /\ \A r \in Requests : claim'[r].units = claim[r].units
<1>1. \A r \in Requests : claim[r] \in Claim
    BY DEF TypeOK
<1>2. \A r \in Requests : r # q => claim'[r] = claim[r]
    BY DEF TypeOK, releaseForRequest, redeemForRequest
<1>3. claim'[q].units = claim[q].units
    BY <1>1 DEF TypeOK, Claim, releaseForRequest, redeemForRequest
<1>4. Counts(q)' => Counts(q)
    BY <1>1 DEF TypeOK, Claim, Counts, Held, releaseForRequest, redeemForRequest
<1>5. \A r \in Requests : r # q => (Counts(r)' => Counts(r))
    BY <1>2 DEF Counts, Held
<1> QED BY <1>2, <1>3, <1>4, <1>5 DEF Counted

LEMMA LimitOnFade ==
    ASSUME TypeOK, LimitKept, UNCHANGED customer, NEW q \in Requests,
           \/ UNCHANGED claim
           \/ releaseForRequest(q)
           \/ redeemForRequest(q)
           \/ claim' = [claim EXCEPT ![q].lapsed = TRUE]
    PROVE  LimitKept'
<1>1. /\ Counted' \subseteq Counted
      /\ \A r \in Requests : claim'[r].units = claim[r].units
    BY ClaimsOnlyFade
<1>2. Counted' \subseteq Requests
    BY DEF Counted
<1> QED BY <1>1, <1>2, LimitFewer

LEMMA LimitUntouched ==
    ASSUME LimitKept, UNCHANGED <<customer, claim>>
    PROVE  LimitKept'
BY DEF LimitKept, claimedQuantity, CountedFor, Counted, Counts, Held, UnitsOf

LEMMA InitLimit == Init => LimitKept
<1> SUFFICES ASSUME Init PROVE LimitKept
    OBVIOUS
<1>1. Counted = {} /\ \A k \in Customers : CountedFor(k) = {}
    BY DEF Init, Counted, CountedFor, Counts, Held, NoClaim
<1>2. claimedQuantity({}) = 0
    BY FS_EmptySet DEF claimedQuantity, UnitsOf
<1> QED BY <1>1, <1>2, BoundsAssumption DEF LimitKept

\* The promotion is never claimed past its limits by requests of one line: every
\* unit counted by quote was found to fit when it was reserved, and none returns.
THEOREM limits ==
    ASSUME \A o \in Orders : o[2] = 0
    PROVE  Spec => []LimitKept
<1>1. LimitKept /\ RequestInv /\ [Next]_vars => LimitKept'
  <2> SUFFICES ASSUME LimitKept, RequestInv, [Next]_vars PROVE LimitKept'
      OBVIOUS
  <2> USE DEF RequestInv
  <2>1. CASE UNCHANGED vars
      BY <2>1, LimitUntouched DEF vars, requestVars
  <2>2. ASSUME NEW q \in Requests, NEW k \in Customers, NEW o \in Orders, createRequest(q, k, o)
        PROVE  LimitKept'
      BY <2>2, LimitOnCreate
  <2>3. ASSUME NEW q \in Requests, convertRequest(q) PROVE LimitKept'
      BY <2>3, LimitOnFade DEF convertRequest
  <2>4. ASSUME NEW q \in Requests, CancelSale(q) PROVE LimitKept'
      BY <2>4, LimitUntouched DEF CancelSale, requestVars
  <2>5. ASSUME NEW q \in Requests, Lapse(q) PROVE LimitKept'
      BY <2>5, LimitOnFade DEF Lapse, requestVars
  <2>6. ASSUME NEW h \in Owners, OwnerStep(h) PROVE LimitKept'
    <3>1. ASSUME UpdateWrite(h) PROVE LimitKept'
      <4>1. op[h].q \in Requests
          BY <3>1, OpFields DEF UpdateWrite, Handlers
      <4> QED BY <3>1, <4>1, LimitOnFade DEF UpdateWrite
    <3>2. CASE ~UpdateWrite(h)
        BY <2>6, <3>2, LimitUntouched
           DEF OwnerStep, UpdateRead, TermsRead, TermsSupersede, TermsPropose, SaleRead, SaleWrite, requestVars
    <3> QED BY <3>1, <3>2
  <2>7. ASSUME NEW h \in Buyers, BuyerStep(h) PROVE LimitKept'
    <3>1. ASSUME CancelRelease(h) PROVE LimitKept'
      <4>1. op[h].q \in Requests
          BY <3>1, OpFields DEF CancelRelease, Handlers
      <4> QED BY <3>1, <4>1, LimitOnFade DEF CancelRelease, requestVars
    <3>2. CASE ~CancelRelease(h)
        BY <2>7, <3>2, LimitUntouched
           DEF BuyerStep, AnswerRead, AnswerWrite, CancelRead, CancelWrite, requestVars
    <3> QED BY <3>1, <3>2
  <2>8. ASSUME NEW h \in Handlers, Stop(h) PROVE LimitKept'
      BY <2>8, LimitUntouched DEF Stop, requestVars
  <2> QED BY <2>1, <2>2, <2>3, <2>4, <2>5, <2>6, <2>7, <2>8 DEF Next
<1> QED BY InitLimit, RequestInvariance, <1>1, PTL DEF Spec

-----------------------------------------------------------------------------
\* An answer stands, with any number of owners' and customers' calls in flight.
THEOREM answers == Spec => AnsweredOnce
<1> DEFINE Stands == \A q \in Requests, i \in Changes :
                         change[q][i] \in Resolved => change'[q][i] = change[q][i]
<1>1. TypeOK /\ [Next]_vars => Stands
  <2> SUFFICES ASSUME TypeOK, [Next]_vars PROVE Stands
      OBVIOUS
  <2>1. CASE UNCHANGED change
      BY <2>1
  <2>2. ASSUME NEW h \in Owners, TermsSupersede(h) PROVE Stands
    <3>1. op[h].q \in Requests
        BY <2>2, OpFields DEF TermsSupersede, Handlers
    <3> QED BY <2>2, <3>1 DEF TermsSupersede, Superseded, TypeOK, Resolved
  <2>3. ASSUME NEW h \in Owners, NEW i \in Changes, TermsPropose(h, i) PROVE Stands
    <3>1. op[h].q \in Requests
        BY <2>3, OpFields DEF TermsPropose, Handlers
    <3>2. change[op[h].q][i] = "NONE"
        BY <2>3, BoundsAssumption DEF TermsPropose
    <3> QED BY <2>3, <3>1, <3>2 DEF TermsPropose, TypeOK, Resolved
  <2>4. ASSUME NEW h \in Buyers, AnswerWrite(h) PROVE Stands
    <3>1. op[h].q \in Requests /\ op[h].id \in Changes
        BY <2>4, OpFields DEF AnswerWrite, Handlers
    <3> QED BY <2>4, <3>1 DEF AnswerWrite, Answerable, TypeOK, Resolved
  <2> QED BY <2>1, <2>2, <2>3, <2>4
          DEF Next, OwnerStep, BuyerStep, vars, createRequest, convertRequest, CancelSale, Lapse,
              UpdateRead, UpdateWrite, TermsRead, SaleRead, SaleWrite, AnswerRead, CancelRead,
              CancelWrite, CancelRelease, Stop
<1> QED BY types, <1>1, PTL DEF Spec, AnsweredOnce

\* When calls run to their end, a canceled request holds no promotion unit back:
\* cancelRequestByToken's release follows its status change, updateRequest's is
\* with it.
THEOREM releases ==
    ASSUME Crashes = FALSE
    PROVE  Spec => []CanceledReleases
<1>1. Init => CanceledReleases
    BY DEF Init, CanceledReleases, NoClaim
<1>2. CanceledReleases /\ TypeOK /\ [Next]_vars => CanceledReleases'
  <2> SUFFICES ASSUME CanceledReleases, TypeOK, [Next]_vars PROVE CanceledReleases'
      OBVIOUS
  <2> USE DEF CanceledReleases
  <2>1. CASE UNCHANGED vars
      BY <2>1 DEF vars, requestVars
  <2>2. ASSUME NEW q \in Requests, NEW k \in Customers, NEW o \in Orders, createRequest(q, k, o)
        PROVE  CanceledReleases'
    <3>1. status'[q] = "SENT" /\ \A r \in Requests : r # q => status'[r] = status[r]
        BY <2>2 DEF createRequest, TypeOK
    <3>2. \A r \in Requests : r # q /\ claim'[r].state = "RESERVED" => claim[r].state = "RESERVED"
      <4> SUFFICES ASSUME NEW r \in Requests, r # q, claim'[r].state = "RESERVED"
                   PROVE  claim[r].state = "RESERVED"
          OBVIOUS
      <4>1. claim[r] \in Claim /\ claim'[r] = Swept[r]
          BY <2>2 DEF createRequest, Swept, TypeOK
      <4> QED BY <4>1 DEF Swept, Claim
    <3> QED BY <2>2, <3>1, <3>2 DEF createRequest
  <2>3. ASSUME NEW q \in Requests, convertRequest(q) PROVE CanceledReleases'
      BY <2>3 DEF convertRequest, createSale, redeemForRequest, TypeOK
  <2>4. ASSUME NEW q \in Requests, CancelSale(q) PROVE CanceledReleases'
      BY <2>4 DEF CancelSale, requestVars
  <2>5. ASSUME NEW q \in Requests, Lapse(q) PROVE CanceledReleases'
    <3>1. \A r \in Requests : claim'[r].state = claim[r].state
      <4> SUFFICES ASSUME NEW r \in Requests PROVE claim'[r].state = claim[r].state
          OBVIOUS
      <4>1. claim[r] \in Claim
          BY DEF TypeOK
      <4> QED BY <2>5, <4>1 DEF Lapse, TypeOK, Claim
    <3> QED BY <2>5, <3>1 DEF Lapse, requestVars
  <2>6. ASSUME NEW h \in Owners, OwnerStep(h) PROVE CanceledReleases'
    <3>0. h \in Handlers /\ h \notin Buyers
        BY NamesAssumption DEF Handlers
    <3>1. \A b \in Buyers : op'[b] = op[b]
        BY <2>6, <3>0 DEF OwnerStep, UpdateRead, UpdateWrite, TermsRead, TermsSupersede,
               TermsPropose, SaleRead, SaleWrite, Begin, Finish, TypeOK, Handlers
    <3>2. ASSUME UpdateWrite(h) PROVE CanceledReleases'
      <4>1. op[h].q \in Requests
          BY <3>0, <3>2, OpFields DEF UpdateWrite
      <4>2. claim \in [Requests -> Claim] /\ status \in [Requests -> OrderRequestStatus \cup {"NONE"}]
          BY DEF TypeOK
      <4>3. op[h].to = "CANCELED" => claim'[op[h].q].state # "RESERVED"
          BY <3>2, <4>1, <4>2 DEF UpdateWrite, releaseForRequest, Claim
      <4>4. \A r \in Requests : r # op[h].q => claim'[r] = claim[r]
          BY <3>2, <4>1, <4>2 DEF UpdateWrite, releaseForRequest
      <4> QED BY <3>1, <3>2, <4>1, <4>2, <4>3, <4>4 DEF UpdateWrite
    <3>3. ASSUME SaleWrite(h) PROVE CanceledReleases'
      <4>1. op[h].q \in Requests
          BY <3>0, <3>3, OpFields DEF SaleWrite
      <4>2. \A r \in Requests : status'[r] = "CANCELED" => status[r] = "CANCELED"
          BY <3>3, <4>1 DEF SaleWrite, createSale, TypeOK
      <4>3. UNCHANGED claim
          BY <3>3 DEF SaleWrite
      <4> QED BY <3>1, <4>2, <4>3
    <3>4. ASSUME NEW i \in Changes, TermsPropose(h, i) PROVE CanceledReleases'
      <4>1. op[h].q \in Requests
          BY <3>0, <3>4, OpFields DEF TermsPropose
      <4>2. \A r \in Requests : status'[r] = "CANCELED" => status[r] = "CANCELED"
          BY <3>4, <4>1 DEF TermsPropose, TypeOK
      <4>3. UNCHANGED claim
          BY <3>4 DEF TermsPropose
      <4> QED BY <3>1, <4>2, <4>3
    <3>5. CASE UNCHANGED <<status, claim>>
        BY <3>1, <3>5
    <3> QED BY <2>6, <3>2, <3>3, <3>4, <3>5
            DEF OwnerStep, UpdateRead, TermsRead, TermsSupersede, SaleRead, requestVars
  <2>7. ASSUME NEW h \in Buyers, BuyerStep(h) PROVE CanceledReleases'
    <3>0. h \in Handlers
        BY DEF Handlers
    <3>1. \A b \in Buyers : b # h => op'[b] = op[b]
        BY <2>7, <3>0 DEF BuyerStep, AnswerRead, AnswerWrite, CancelRead, CancelWrite,
               CancelRelease, Begin, Finish, TypeOK, Handlers
    <3>2. ASSUME AnswerWrite(h) PROVE CanceledReleases'
      <4>1. op[h].q \in Requests /\ op[h].pc # "release"
          BY <3>0, <3>2, OpFields DEF AnswerWrite
      <4>2. \A r \in Requests : status'[r] = "CANCELED" => status[r] = "CANCELED"
          BY <3>2, <4>1 DEF AnswerWrite, TypeOK
      <4>3. UNCHANGED claim
          BY <3>2 DEF AnswerWrite
      <4> QED BY <3>1, <4>1, <4>2, <4>3
    <3>3. ASSUME CancelWrite(h) PROVE CanceledReleases'
      <4>1. op[h].q \in Requests /\ op'[h] = [pc |-> "release", q |-> op[h].q]
          BY <3>0, <3>3, OpFields DEF CancelWrite, TypeOK
      <4> QED BY <3>0, <3>1, <3>3, <4>1 DEF CancelWrite, TypeOK
    <3>4. ASSUME CancelRelease(h) PROVE CanceledReleases'
      <4>1. op[h].q \in Requests /\ claim \in [Requests -> Claim]
          BY <3>0, <3>4, OpFields DEF CancelRelease, TypeOK
      <4>2. claim'[op[h].q].state # "RESERVED"
          BY <3>4, <4>1 DEF CancelRelease, releaseForRequest, Claim
      <4>3. \A r \in Requests : r # op[h].q => claim'[r] = claim[r]
          BY <3>4, <4>1 DEF CancelRelease, releaseForRequest
      <4> QED BY <3>1, <3>4, <4>2, <4>3 DEF CancelRelease, requestVars
    <3>5. CASE UNCHANGED <<status, claim>> /\ op[h] = Idle
        BY <3>1, <3>5 DEF Idle
    <3> QED BY <2>7, <3>2, <3>3, <3>4, <3>5
            DEF BuyerStep, AnswerRead, CancelRead, Begin, requestVars
  <2>8. ASSUME NEW h \in Handlers, Stop(h) PROVE CanceledReleases'
    <3>1. op[h].pc # "release" /\ \A b \in Handlers : b # h => op'[b] = op[b]
        BY <2>8 DEF Stop, Refused, Finish, TypeOK
    <3> QED BY <2>8, <3>1 DEF Stop, requestVars, Handlers
  <2> QED BY <2>1, <2>2, <2>3, <2>4, <2>5, <2>6, <2>7, <2>8 DEF Next
<1> QED BY <1>1, <1>2, types, PTL DEF Spec

-----------------------------------------------------------------------------
\* With one owner call at a time a request has at most one open proposal: the
\* owner's transaction creates one only when it has closed the earlier ones.
THEOREM proposals ==
    ASSUME \A g, h \in Owners : g = h
    PROVE  Spec => []OneOpenProposal
<1> DEFINE Inv == OneOpenProposal /\ ProposalsClear
<1>1. Init => Inv
    BY DEF Init, OneOpenProposal, ProposalsClear, Idle, Handlers
<1>2. Inv /\ TypeOK /\ [Next]_vars => Inv'
  <2> SUFFICES ASSUME Inv, TypeOK, [Next]_vars PROVE Inv'
      OBVIOUS
  <2> USE DEF OneOpenProposal, ProposalsClear
  <2>1. ASSUME UNCHANGED change, \A h \in Owners : op'[h].pc = "propose" => op'[h] = op[h] PROVE Inv'
      BY <2>1
  <2>2. ASSUME NEW h \in Owners, TermsSupersede(h) PROVE Inv'
    <3>1. op[h].q \in Requests
        BY <2>2, OpFields DEF TermsSupersede, Handlers
    <3>2. \A i \in Changes : change'[op[h].q][i] # "PENDING"
        BY <2>2, <3>1 DEF TermsSupersede, Superseded, TypeOK
    <3>3. \A q \in Requests : q # op[h].q => change'[q] = change[q]
        BY <2>2, <3>1 DEF TermsSupersede, TypeOK
    <3>4. op'[h].q = op[h].q
        BY <2>2 DEF TermsSupersede, TypeOK, Handlers
    <3> QED BY <3>2, <3>3, <3>4
  <2>3. ASSUME NEW h \in Owners, NEW i \in Changes, TermsPropose(h, i) PROVE Inv'
    <3>1. op[h].q \in Requests /\ op[h].pc = "propose"
        BY <2>3, OpFields DEF TermsPropose, Handlers
    <3>2. change \in [Requests -> [Changes -> Resolved \cup {"PENDING", "NONE"}]]
        BY DEF TypeOK
    <3>3. \A j \in Changes : j # i => change'[op[h].q][j] # "PENDING"
        BY <2>3, <3>1, <3>2 DEF TermsPropose
    <3>4. \A q \in Requests : q # op[h].q => change'[q] = change[q]
        BY <2>3, <3>2 DEF TermsPropose
    <3>5. op'[h] = Idle
        BY <2>3 DEF TermsPropose, Finish, TypeOK, Handlers
    <3> QED BY <3>3, <3>4, <3>5 DEF Idle
  <2>4. ASSUME NEW h \in Buyers, AnswerWrite(h) PROVE Inv'
    <3>1. op[h].q \in Requests /\ op[h].id \in Changes /\ op[h].decision \in {"ACCEPTED", "DECLINED"}
        BY <2>4, OpFields DEF AnswerWrite, Handlers
    <3>2. \A q \in Requests, i \in Changes : change'[q][i] = "PENDING" => change[q][i] = "PENDING"
        BY <2>4, <3>1 DEF AnswerWrite, TypeOK
    <3>3. \A g \in Owners : op'[g] = op[g]
        BY <2>4, NamesAssumption DEF AnswerWrite, Finish, TypeOK, Handlers
    <3>4. \A g \in Owners : op[g].pc = "propose" => op[g].q \in Requests
        BY OpFields DEF Handlers
    <3> QED BY <3>2, <3>3, <3>4
  <2>5. CASE UNCHANGED vars
      BY <2>1, <2>5 DEF vars
  <2>6. ASSUME NEW q \in Requests,
               \/ \E k \in Customers, o \in Orders : createRequest(q, k, o)
               \/ convertRequest(q) \/ CancelSale(q) \/ Lapse(q)
        PROVE  Inv'
      BY <2>1, <2>6 DEF createRequest, convertRequest, CancelSale, Lapse
  <2>7. ASSUME NEW h \in Owners, OwnerStep(h) PROVE Inv'
    <3>1. CASE \/ UpdateWrite(h) \/ SaleWrite(h)
               \/ \E q \in Requests :
                      \/ \E to \in OrderRequestStatus : UpdateRead(h, q, to)
                      \/ TermsRead(h, q)
                      \/ \E o \in Orders : SaleRead(h, q, o[1] + o[2])
        BY <2>1, <3>1 DEF UpdateRead, UpdateWrite, TermsRead, SaleRead, SaleWrite, Begin, Finish,
                          Idle, TypeOK, Handlers
    <3> QED BY <2>2, <2>3, <2>7, <3>1 DEF OwnerStep
  <2>8. ASSUME NEW h \in Buyers, BuyerStep(h) PROVE Inv'
    <3>1. CASE ~AnswerWrite(h)
        BY <2>1, <2>8, <3>1, NamesAssumption
           DEF BuyerStep, AnswerRead, CancelRead, CancelWrite, CancelRelease, Begin, Finish,
               Idle, TypeOK, Handlers
    <3> QED BY <2>4, <3>1
  <2>9. ASSUME NEW h \in Handlers, Stop(h) PROVE Inv'
      BY <2>1, <2>9 DEF Stop, Finish, Idle, TypeOK, Handlers
  <2> QED BY <2>5, <2>6, <2>7, <2>8, <2>9 DEF Next
<1>3. Inv => OneOpenProposal
    OBVIOUS
<1> QED BY <1>1, <1>2, <1>3, types, PTL DEF Spec

-----------------------------------------------------------------------------
\* A request is settled when it is converted and no call that may still write
\* its status by id was in flight when it was: an update, a proposal or an
\* answer read before the conversion.
Settled(q) ==
    /\ status[q] = "CONVERTED"
    /\ \A h \in Handlers :
           op[h].pc \in {"update", "supersede", "propose", "answer"} => op[h].q # q

\* Calls still to come cannot pick the request up: each refuses a converted row.
LEMMA SettledKept ==
    ASSUME TypeOK, [Next]_vars, NEW q \in Requests, Settled(q)
    PROVE  Settled(q)'
<1> USE DEF Settled
<1>1. ASSUME NEW h \in Handlers, Finish(h), status'[q] = "CONVERTED" PROVE Settled(q)'
    BY <1>1 DEF Finish, TypeOK, Idle
<1>2. ASSUME NEW h \in Handlers, NEW o, Begin(h, o), status'[q] = "CONVERTED",
             o.pc \in {"update", "supersede", "propose", "answer"} => o.q # q
      PROVE  Settled(q)'
    BY <1>2 DEF Begin, TypeOK
<1>3. ASSUME NEW r \in Requests, status' = [status EXCEPT ![r] = "CONVERTED"]
      PROVE  status'[q] = "CONVERTED"
    BY <1>3 DEF TypeOK
<1>4. ASSUME NEW h \in Owners, OwnerStep(h) PROVE Settled(q)'
  <2>0. h \in Handlers
      BY DEF Handlers
  <2>1. ASSUME NEW r \in Requests, NEW to \in OrderRequestStatus, UpdateRead(h, r, to) PROVE Settled(q)'
      BY <1>2, <2>0, <2>1 DEF UpdateRead, requestVars
  <2>2. ASSUME NEW r \in Requests, TermsRead(h, r) PROVE Settled(q)'
      BY <1>2, <2>0, <2>2 DEF TermsRead, requestVars
  <2>3. ASSUME NEW r \in Requests, NEW n, SaleRead(h, r, n) PROVE Settled(q)'
      BY <1>2, <2>0, <2>3 DEF SaleRead, requestVars
  <2>4. ASSUME UpdateWrite(h) PROVE Settled(q)'
    <3>1. op[h].q # q /\ op[h].q \in Requests
        BY <2>0, <2>4, OpFields DEF UpdateWrite
    <3> QED BY <1>1, <2>0, <2>4, <3>1 DEF UpdateWrite, TypeOK
  <2>5. ASSUME TermsSupersede(h) PROVE Settled(q)'
    <3>1. op[h].q # q
        BY <2>0, <2>5 DEF TermsSupersede
    <3> QED BY <2>0, <2>5, <3>1 DEF TermsSupersede, requestVars, TypeOK
  <2>6. ASSUME SaleWrite(h) PROVE Settled(q)'
    <3>1. op[h].q \in Requests /\ status' = [status EXCEPT ![op[h].q] = "CONVERTED"] /\ Finish(h)
        BY <2>0, <2>6, OpFields DEF SaleWrite, createSale
    <3> QED BY <1>1, <1>3, <2>0, <3>1
  <2>7. ASSUME NEW i \in Changes, TermsPropose(h, i) PROVE Settled(q)'
    <3>1. op[h].q # q /\ op[h].q \in Requests
        BY <2>0, <2>7, OpFields DEF TermsPropose
    <3> QED BY <1>1, <2>0, <2>7, <3>1 DEF TermsPropose, TypeOK
  <2> QED BY <1>4, <2>1, <2>2, <2>3, <2>4, <2>5, <2>6, <2>7 DEF OwnerStep
<1>5. ASSUME NEW h \in Buyers, BuyerStep(h) PROVE Settled(q)'
  <2>0. h \in Handlers
      BY DEF Handlers
  <2>1. ASSUME NEW r \in Requests, CancelRead(h, r) PROVE Settled(q)'
      BY <1>2, <2>0, <2>1 DEF CancelRead, requestVars
  <2>2. ASSUME NEW r \in Requests, NEW i \in Changes, NEW d, AnswerRead(h, r, i, d) PROVE Settled(q)'
      BY <1>2, <2>0, <2>2 DEF AnswerRead, requestVars
  <2>3. ASSUME AnswerWrite(h) PROVE Settled(q)'
    <3>1. op[h].q # q /\ op[h].q \in Requests
        BY <2>0, <2>3, OpFields DEF AnswerWrite
    <3> QED BY <1>1, <2>0, <2>3, <3>1 DEF AnswerWrite, TypeOK
  <2>4. ASSUME CancelWrite(h) PROVE Settled(q)'
    <3>1. op[h].q # q /\ op[h].q \in Requests
        BY <2>0, <2>4, OpFields DEF CancelWrite, Cancelable
    <3> QED BY <2>0, <2>4, <3>1 DEF CancelWrite, TypeOK
  <2>5. ASSUME CancelRelease(h) PROVE Settled(q)'
      BY <1>1, <2>0, <2>5 DEF CancelRelease, requestVars
  <2> QED BY <1>5, <2>1, <2>2, <2>3, <2>4, <2>5 DEF BuyerStep
<1>6. ASSUME NEW h \in Handlers, Stop(h) PROVE Settled(q)'
    BY <1>1, <1>6 DEF Stop, requestVars
<1>7. ASSUME NEW r \in Requests, NEW k \in Customers, NEW o \in Orders, createRequest(r, k, o)
      PROVE  Settled(q)'
    BY <1>7 DEF createRequest, TypeOK
<1>8. ASSUME NEW r \in Requests, convertRequest(r) \/ CancelSale(r) \/ Lapse(r) PROVE Settled(q)'
  <2>1. op' = op /\ (status' = status \/ status' = [status EXCEPT ![r] = "CONVERTED"])
      BY <1>8 DEF convertRequest, createSale, CancelSale, Lapse, requestVars
  <2> QED BY <1>3, <2>1
<1>9. CASE UNCHANGED vars
    BY <1>9 DEF vars, requestVars
<1> QED BY <1>4, <1>5, <1>6, <1>7, <1>8, <1>9 DEF Next

\* "Converted requests cannot be changed" holds of every request that no write
\* was in flight on when it was converted, for good and whatever is called later:
\* the disagreement MCConvertedStays finds needs a call that read the request
\* before the conversion.
THEOREM settledStays ==
    Spec => [][\A q \in Requests : Settled(q) => Settled(q)']_vars
<1>1. TypeOK /\ [Next]_vars => \A q \in Requests : Settled(q) => Settled(q)'
    BY SettledKept
<1> QED BY types, <1>1, PTL DEF Spec
=============================================================================
