------------------------- MODULE SaleCreationProofs -------------------------
(***************************************************************************)
(* Proofs about SaleCreation for any sales, calls, forms and edits.  A     *)
(* Sale row has the key and the request of some form (Provenance); what is *)
(* answered names a row of the form's request, or of its key when it has   *)
(* no request (AnswerSound); and the unique indexes do the rest.  What a   *)
(* sale takes and a cancel gives back is counted exactly (RecordMoves,     *)
(* CancelMoves).                                                           *)
(***************************************************************************)
EXTENDS SaleCreation, FiniteSetTheorems, TLAPS

\* Every row is some form's, and no two rows share a key or a request.
Provenance == \A s \in Sales : Exists(s) =>
    \E i \in Intents : sale[s].key = i.key /\ sale[s].source = i.source
Unique == \A s, t \in Sales :
    /\ Exists(s) /\ Exists(t)
    /\ \/ sale[s].key # NoKey /\ sale[s].key = sale[t].key
       \/ sale[s].source # NoSource /\ sale[s].source = sale[t].source
    => s = t

AnswerSound == \A a \in answers :
    /\ Exists(a[2]) /\ sale[a[2]].source = a[1].source
    /\ a[1].source = NoSource => sale[a[2]].key = a[1].key

RestoredWithCancel == \A s \in Sales : sale[s].restored <=> sale[s].state = "canceled"

SaleInv == TypeOK /\ Provenance /\ Unique /\ AnswerSound /\ RestoredWithCancel

LEMMA InitSales == Init => SaleInv
<1> SUFFICES ASSUME Init PROVE SaleInv
    OBVIOUS
<1>1. NoSale \in Sale
    BY BoundsAssumption DEF NoSale, Sale, Rows
<1>2. Idle \in Op
    BY DEF Op
<1>3. stock \in [Rows -> Nat]
    BY BoundsAssumption DEF Init
<1>4. TypeOK
    BY <1>1, <1>2, <1>3, BoundsAssumption DEF Init, TypeOK, Rows
<1> QED BY <1>4 DEF Init, SaleInv, Provenance, Unique, AnswerSound, RestoredWithCancel, Exists, NoSale

\* What a call in flight has kept.
LEMMA CallTypes ==
    ASSUME TypeOK, NEW c \in Calls
    PROVE  /\ op[c].pc \in {"create", "recover"} => op[c].intent \in Intents
           /\ op[c].pc = "create" => op[c].row \in Rows
BY DEF TypeOK, Op, Idle

LEMMA IntentTypes ==
    ASSUME NEW i \in Intents
    PROVE  /\ i.key \in Keys \cup {NoKey} /\ i.source \in Sources \cup {NoSource}
           /\ i.units \in Nat /\ i.units > 0
BY IntentsAssumption DEF Intent

\* The rows a lookup finds for a form are of its request.
LEMMA FoundSound ==
    ASSUME Provenance, NEW i \in Intents, NEW s \in Duplicates(i)
    PROVE  /\ s \in Sales /\ Exists(s) /\ sale[s].source = i.source
           /\ i.source = NoSource => sale[s].key = i.key
<1>1. s \in Sales /\ Exists(s)
    BY DEF Duplicates, OfKey, OfSource
<1>2. CASE s \in OfKey(i.key)
  <2>1. sale[s].key = i.key /\ i.key # NoKey
      BY <1>2 DEF OfKey
  <2>2. PICK j \in Intents : sale[s].key = j.key /\ sale[s].source = j.source
      BY <1>1 DEF Provenance
  <2> QED BY <1>1, <2>1, <2>2, IntentsAssumption
<1>3. CASE s \in OfSource(i.source)
    BY <1>1, <1>3 DEF OfSource
<1> QED BY <1>2, <1>3 DEF Duplicates

\* The transaction's writes keep the invariant.
LEMMA RecordKeeps ==
    ASSUME SaleInv, NEW s \in Sales, NEW i \in Intents, NEW row \in Rows, Record(s, i, row)
    PROVE  /\ sale' \in [Sales -> Sale] /\ request' \in [Sources -> {"OPEN", "CONVERTED", "CANCELED"}]
           /\ stock' \in [Rows -> Nat] /\ answers' \subseteq Intents \X Sales
           /\ Provenance' /\ Unique' /\ AnswerSound' /\ RestoredWithCancel'
<1> DEFINE new == [state |-> "open", restored |-> FALSE, key |-> i.key,
                   source |-> i.source, row |-> row, units |-> i.units]
<1>1. new \in Sale
    BY IntentTypes DEF Sale
<1>2. /\ sale' = [sale EXCEPT ![s] = new] /\ sale \in [Sales -> Sale]
      /\ ~Exists(s) /\ Duplicates(i) = {}
    BY DEF Record, SaleInv, TypeOK
<1>3. /\ new.state = "open" /\ ~new.restored /\ new.key = i.key /\ new.source = i.source
    OBVIOUS
<1> HIDE DEF new
<1>4. /\ sale' \in [Sales -> Sale] /\ sale'[s] = new
      /\ \A t \in Sales : t # s => sale'[t] = sale[t]
    BY <1>1, <1>2
<1>5. stock' \in [Rows -> Nat]
  <2>1. stock \in [Rows -> Nat] /\ stock[row] >= i.units /\ i.units \in Nat
      BY IntentTypes DEF Record, Consumable, SaleInv, TypeOK
  <2>2. stock' = [stock EXCEPT ![row] = stock[row] - i.units]
      BY <2>1 DEF Record
  <2>3. stock[row] - i.units \in Nat
      BY <2>1
  <2> QED BY <2>1, <2>2, <2>3
<1>6. request' \in [Sources -> {"OPEN", "CONVERTED", "CANCELED"}]
    BY DEF Record, SaleInv, TypeOK
<1>7. answers' = answers \cup {<<i, s>>} /\ answers \subseteq Intents \X Sales
    BY DEF Record, Answer, SaleInv, TypeOK
<1>8. Provenance'
    BY <1>3, <1>4 DEF Provenance, Exists, SaleInv
<1>9. Unique'
  <2>1. \A t \in Sales : Exists(t) =>
            /\ i.key # NoKey => sale[t].key # i.key
            /\ i.source # NoSource => sale[t].source # i.source
      BY <1>2 DEF Duplicates, OfKey, OfSource
  <2> QED BY <1>3, <1>4, <2>1 DEF Unique, Exists, SaleInv
<1>10. AnswerSound'
  <2>1. \A a \in answers : a[2] \in Sales /\ a[2] # s
      BY <1>2, <1>7 DEF AnswerSound, SaleInv
  <2>2. \A a \in answers : sale'[a[2]] = sale[a[2]]
      BY <1>4, <2>1
  <2> QED BY <1>3, <1>4, <1>7, <2>2 DEF AnswerSound, Exists, SaleInv
<1>11. RestoredWithCancel'
    BY <1>3, <1>4 DEF RestoredWithCancel, SaleInv
<1> QED BY <1>4, <1>5, <1>6, <1>7, <1>8, <1>9, <1>10, <1>11

\* A cancel changes neither what a row is nor whether it is there.
LEMMA CancelKeeps ==
    ASSUME SaleInv, NEW s \in Sales, cancelSaleAndRestoreInventory(s)
    PROVE  SaleInv'
<1> DEFINE new == [sale[s] EXCEPT !.state = "canceled", !.restored = TRUE]
           row == sale[s].row
           n == IF Restorable(s) /\ row \in {0, live} THEN stock[row] + sale[s].units ELSE stock[row]
<1>1. sale[s] \in Sale /\ Exists(s) /\ sale \in [Sales -> Sale] /\ stock \in [Rows -> Nat]
    BY DEF SaleInv, TypeOK, cancelSaleAndRestoreInventory
<1>2. sale' = [sale EXCEPT ![s] = new]
    BY <1>1 DEF cancelSaleAndRestoreInventory
<1>3. /\ new \in Sale /\ new.state = "canceled" /\ new.restored
      /\ new.key = sale[s].key /\ new.source = sale[s].source
    BY <1>1 DEF Sale
<1>4. row \in Rows /\ n \in Nat
    BY <1>1 DEF Sale
<1>5. stock' = [stock EXCEPT ![row] = n]
    BY <1>1 DEF cancelSaleAndRestoreInventory
<1> HIDE DEF new, row, n
<1>6. /\ sale' \in [Sales -> Sale] /\ sale'[s] = new
      /\ \A t \in Sales : t # s => sale'[t] = sale[t]
    BY <1>1, <1>2, <1>3
<1>7. stock' \in [Rows -> Nat]
    BY <1>1, <1>4, <1>5
<1>8. TypeOK'
    BY <1>6, <1>7 DEF SaleInv, TypeOK, cancelSaleAndRestoreInventory
<1>9. \A t \in Sales : /\ Exists(t)' <=> Exists(t)
                       /\ sale'[t].key = sale[t].key /\ sale'[t].source = sale[t].source
    BY <1>1, <1>3, <1>6 DEF Exists
<1>10. Provenance' /\ Unique'
    BY <1>9 DEF Provenance, Unique, SaleInv
<1>11. AnswerSound'
  <2>1. answers' = answers /\ answers \subseteq Intents \X Sales
      BY DEF cancelSaleAndRestoreInventory, SaleInv, TypeOK
  <2> QED BY <1>9, <2>1 DEF AnswerSound, SaleInv
<1>12. RestoredWithCancel'
    BY <1>3, <1>6 DEF RestoredWithCancel, SaleInv
<1> QED BY <1>8, <1>10, <1>11, <1>12 DEF SaleInv

\* A lookup's answer is sound.
LEMMA AnswerKeeps ==
    ASSUME SaleInv, UNCHANGED sale, NEW i \in Intents, NEW s \in Duplicates(i), Answer(i, s)
    PROVE  /\ answers' \subseteq Intents \X Sales
           /\ Provenance' /\ Unique' /\ AnswerSound' /\ RestoredWithCancel'
<1>1. /\ s \in Sales /\ Exists(s) /\ sale[s].source = i.source
      /\ i.source = NoSource => sale[s].key = i.key
    BY FoundSound DEF SaleInv
<1>2. answers' = answers \cup {<<i, s>>} /\ answers \subseteq Intents \X Sales
    BY DEF Answer, SaleInv, TypeOK
<1>3. AnswerSound'
    BY <1>1, <1>2 DEF AnswerSound, Exists, SaleInv
<1>4. Provenance' /\ Unique' /\ RestoredWithCancel'
    BY DEF Provenance, Unique, RestoredWithCancel, Exists, SaleInv
<1> QED BY <1>1, <1>2, <1>3, <1>4

LEMMA SalesKept == SaleInv /\ [Next]_vars => SaleInv'
<1> SUFFICES ASSUME SaleInv, [Next]_vars PROVE SaleInv'
    OBVIOUS
<1> USE DEF SaleInv
<1>1. ASSUME UNCHANGED <<sale, answers>>, TypeOK' PROVE SaleInv'
    BY <1>1 DEF Provenance, Unique, AnswerSound, RestoredWithCancel, Exists
<1>2. ASSUME NEW c \in Calls, NEW i \in Intents, CreateRead(c, i) PROVE SaleInv'
  <2>1. SoldFrom \in Rows /\ live \in Rows
      BY BoundsAssumption DEF SoldFrom, TypeOK, Rows
  <2>2. [pc |-> "create", intent |-> i, row |-> SoldFrom, variant |-> live] \in Op
      BY <2>1 DEF Op
  <2>3. TypeOK'
      BY <1>2, <2>2 DEF CreateRead, TypeOK, stockVars
  <2> QED BY <1>1, <1>2, <2>3 DEF CreateRead
<1>3. ASSUME NEW c \in Calls, NEW s \in Sales, CreateWrite(c, s) PROVE SaleInv'
  <2>1. op[c].intent \in Intents /\ op[c].row \in Rows
      BY <1>3, CallTypes DEF CreateWrite
  <2>2. /\ sale' \in [Sales -> Sale] /\ request' \in [Sources -> {"OPEN", "CONVERTED", "CANCELED"}]
        /\ stock' \in [Rows -> Nat] /\ answers' \subseteq Intents \X Sales
        /\ Provenance' /\ Unique' /\ AnswerSound' /\ RestoredWithCancel'
      BY <1>3, <2>1, RecordKeeps DEF CreateWrite
  <2>3. op' \in [Calls -> Op]
      BY <1>3 DEF CreateWrite, Finish, TypeOK, Op
  <2>4. UNCHANGED <<live, tracked, edits>>
      BY <1>3 DEF CreateWrite, Record
  <2> QED BY <2>2, <2>3, <2>4 DEF TypeOK
<1>4. ASSUME NEW c \in Calls, CreateRefused(c) PROVE SaleInv'
  <2>1. [pc |-> "recover", intent |-> op[c].intent] \in Op
      BY <1>4, CallTypes DEF CreateRefused, Op
  <2>2. TypeOK'
      BY <1>4, <2>1 DEF CreateRefused, TypeOK, stockVars
  <2> QED BY <1>1, <1>4, <2>2 DEF CreateRefused
<1>5. ASSUME NEW c \in Calls, CreateRecover(c) PROVE SaleInv'
  <2>1. op[c].intent \in Intents
      BY <1>5, CallTypes DEF CreateRecover
  <2>2. PICK s \in Duplicates(op[c].intent) : Answer(op[c].intent, s)
      BY <1>5 DEF CreateRecover
  <2>3. UNCHANGED sale
      BY <1>5 DEF CreateRecover
  <2>4. /\ answers' \subseteq Intents \X Sales
        /\ Provenance' /\ Unique' /\ AnswerSound' /\ RestoredWithCancel'
      BY <2>1, <2>2, <2>3, AnswerKeeps
  <2>5. op' \in [Calls -> Op]
      BY <1>5 DEF CreateRecover, Finish, TypeOK, Op
  <2> QED BY <1>5, <2>4, <2>5 DEF CreateRecover, TypeOK, stockVars
<1>6. ASSUME NEW c \in Calls, Stop(c) PROVE SaleInv'
  <2>1. TypeOK'
      BY <1>6 DEF Stop, Finish, TypeOK, Op, stockVars
  <2> QED BY <1>1, <1>6, <2>1 DEF Stop
<1>7. ASSUME NEW i \in Intents, CreateReplay(i) \/ ConvertAgain(i) PROVE SaleInv'
  <2>1. PICK s \in Duplicates(i) : Answer(i, s)
      BY <1>7 DEF CreateReplay, ConvertAgain, Duplicates
  <2>2. UNCHANGED <<sale, request, stockVars, op>>
      BY <1>7 DEF CreateReplay, ConvertAgain
  <2>3. /\ answers' \subseteq Intents \X Sales
        /\ Provenance' /\ Unique' /\ AnswerSound' /\ RestoredWithCancel'
      BY <2>1, <2>2, AnswerKeeps
  <2> QED BY <2>2, <2>3 DEF TypeOK, stockVars
<1>8. ASSUME NEW i \in Intents, NEW s \in Sales, Convert(i, s) PROVE SaleInv'
  <2>1. SoldFrom \in Rows
      BY BoundsAssumption DEF SoldFrom, TypeOK, Rows
  <2>2. /\ sale' \in [Sales -> Sale] /\ request' \in [Sources -> {"OPEN", "CONVERTED", "CANCELED"}]
        /\ stock' \in [Rows -> Nat] /\ answers' \subseteq Intents \X Sales
        /\ Provenance' /\ Unique' /\ AnswerSound' /\ RestoredWithCancel'
      BY <1>8, <2>1, RecordKeeps DEF Convert
  <2>3. UNCHANGED <<live, tracked, edits, op>>
      BY <1>8 DEF Convert, Record
  <2> QED BY <2>2, <2>3 DEF TypeOK
<1>9. ASSUME NEW s \in Sales, cancelSaleAndRestoreInventory(s) PROVE SaleInv'
    BY <1>9, CancelKeeps
<1>10. ASSUME NEW q \in Sources, CancelRequest(q) PROVE SaleInv'
  <2>1. TypeOK'
      BY <1>10 DEF CancelRequest, TypeOK, stockVars
  <2> QED BY <1>1, <1>10, <2>1 DEF CancelRequest
<1>11. ASSUME NEW n \in Counts, EditCount(n) PROVE SaleInv'
  <2>1. n \in Nat /\ edits + 1 \in 0 .. MaxEdits /\ live \in 1 .. edits + 2
      BY <1>11, BoundsAssumption DEF EditCount, TypeOK
  <2>2. stock' \in [Rows -> Nat]
      BY <1>11, <2>1 DEF EditCount, TypeOK
  <2>3. UNCHANGED <<sale, request, live, tracked, op, answers>> /\ edits' = edits + 1
      BY <1>11 DEF EditCount
  <2>4. TypeOK'
      BY <2>1, <2>2, <2>3 DEF TypeOK
  <2> QED BY <1>1, <2>3, <2>4
<1>12. ASSUME NEW n \in Counts, NEW counts \in BOOLEAN, EditVariants(n, counts)
       PROVE  SaleInv'
  <2>1. n \in Nat /\ edits + 1 \in 0 .. MaxEdits /\ live + 1 \in 1 .. edits + 2 /\ live + 1 \in Rows
      BY <1>12, BoundsAssumption DEF EditVariants, TypeOK, Rows
  <2>2. TypeOK'
      BY <1>12, <2>1 DEF EditVariants, TypeOK
  <2> QED BY <1>1, <1>12, <2>2 DEF EditVariants
<1>13. CASE UNCHANGED vars
  <2>1. TypeOK'
      BY <1>13 DEF vars, stockVars, TypeOK
  <2> QED BY <1>1, <1>13, <2>1 DEF vars
<1> QED BY <1>2, <1>3, <1>4, <1>5, <1>6, <1>7, <1>8, <1>9, <1>10, <1>11, <1>12, <1>13
       DEF Next, CallStep
-----------------------------------------------------------------------------
\* Every variable keeps its type: in particular no interleaving of sales,
\* conversions, cancels and edits takes a stock count below zero.
THEOREM types == Spec => []TypeOK
<1>1. Spec => []SaleInv
    BY InitSales, SalesKept, PTL DEF Spec
<1> QED BY <1>1, PTL DEF SaleInv

\* However often and by whichever path a form is sent, one sale answers it:
\* the answers' rows share a key or a request, and the indexes allow one.
THEOREM answeredAlike == Spec => []AnsweredAlike
<1>1. SaleInv => AnsweredAlike
  <2> SUFFICES ASSUME SaleInv, NEW a \in answers, NEW b \in answers,
                      \/ a[1].key = b[1].key /\ a[1].key # NoKey
                      \/ a[1].source = b[1].source /\ a[1].source # NoSource
               PROVE  a[2] = b[2]
      BY DEF AnsweredAlike
  <2>1. /\ a[1] \in Intents /\ a[2] \in Sales /\ Exists(a[2])
        /\ b[1] \in Intents /\ b[2] \in Sales /\ Exists(b[2])
      BY DEF SaleInv, TypeOK, AnswerSound
  <2>2. /\ sale[a[2]].source = a[1].source /\ (a[1].source = NoSource => sale[a[2]].key = a[1].key)
        /\ sale[b[2]].source = b[1].source /\ (b[1].source = NoSource => sale[b[2]].key = b[1].key)
      BY DEF SaleInv, AnswerSound
  <2>3. a[1].source = b[1].source
      BY <2>1, IntentsAssumption
  <2> QED BY <2>1, <2>2, <2>3 DEF SaleInv, Unique
<1>2. Spec => []SaleInv
    BY InitSales, SalesKept, PTL DEF Spec
<1> QED BY <1>1, <1>2, PTL

-----------------------------------------------------------------------------
\* The units of a set of sales: finite, and a sale adds its own.
LEMMA UnitsFinite ==
    ASSUME NEW S, IsFiniteSet(S), NEW rows, \A s \in S : rows[s].units \in Nat
    PROVE  IsFiniteSet(UnitsOf(rows, S)) /\ Cardinality(UnitsOf(rows, S)) \in Nat
<1> DEFINE Of(s) == {s} \X (1 .. rows[s].units)
           f == [s \in S |-> Of(s)]
           T == {Of(s) : s \in S}
<1>1. f \in Surjection(S, T)
    BY DEF Surjection
<1>2. IsFiniteSet(T)
    BY <1>1, FS_Surjection
<1>3. ASSUME NEW s \in S PROVE IsFiniteSet(Of(s))
  <2>1. IsFiniteSet({s})
      BY FS_Singleton
  <2>2. IsFiniteSet(1 .. rows[s].units)
      BY <1>3, FS_Interval
  <2> QED BY <2>1, <2>2, FS_Product
<1>4. \A t \in T : IsFiniteSet(t)
    BY <1>3
<1>5. IsFiniteSet(UNION T)
    BY <1>2, <1>4, FS_UNION
<1> QED BY <1>5, FS_CardinalityType DEF UnitsOf

LEMMA UnitsAdd ==
    ASSUME NEW S, IsFiniteSet(S), NEW s, s \notin S, NEW n \in Nat, NEW rows, NEW after,
           \A t \in S : rows[t].units \in Nat /\ after[t].units = rows[t].units,
           after[s].units = n
    PROVE  /\ Cardinality(UnitsOf(rows, S)) \in Nat
           /\ Cardinality(UnitsOf(after, S \cup {s})) = Cardinality(UnitsOf(rows, S)) + n
<1> DEFINE own == {s} \X (1 .. n)
<1>1. IsFiniteSet(UnitsOf(rows, S)) /\ Cardinality(UnitsOf(rows, S)) \in Nat
    BY UnitsFinite
<1>2. IsFiniteSet(1 .. n) /\ Cardinality(1 .. n) = n
  <2>1. IsFiniteSet(1 .. n) /\ Cardinality(1 .. n) = IF 1 > n THEN 0 ELSE n - 1 + 1
      BY FS_Interval
  <2> QED BY <2>1
<1>3. IsFiniteSet({s}) /\ Cardinality({s}) = 1
    BY FS_Singleton
<1>4. IsFiniteSet(own) /\ Cardinality(own) = n
  <2>1. IsFiniteSet(own) /\ Cardinality(own) = Cardinality({s}) * Cardinality(1 .. n)
      BY <1>2, <1>3, FS_Product
  <2> HIDE DEF own
  <2> QED BY <1>2, <1>3, <2>1
<1>5. UnitsOf(after, S \cup {s}) = UnitsOf(rows, S) \cup own
    BY DEF UnitsOf
<1>6. UnitsOf(rows, S) \cap own = {}
    BY DEF UnitsOf
<1> HIDE DEF own
<1>7. Cardinality(UnitsOf(rows, S) \cup own)
          = Cardinality(UnitsOf(rows, S)) + Cardinality(own) - Cardinality(UnitsOf(rows, S) \cap own)
    BY <1>1, <1>4, FS_Union
<1>8. Cardinality(UnitsOf(rows, S) \cap own) = 0
    BY <1>6, FS_EmptySet
<1> DEFINE k == Cardinality(UnitsOf(rows, S))
<1>9. Cardinality(UnitsOf(rows, S) \cup own) = k + n - 0 /\ k \in Nat
    BY <1>1, <1>4, <1>7, <1>8
<1> HIDE DEF k
<1>10. Cardinality(UnitsOf(rows, S) \cup own) = k + n
    BY <1>9
<1> QED BY <1>5, <1>9, <1>10 DEF k

LEMMA OpenFinite ==
    ASSUME NEW row
    PROVE  OpenOn(row) \subseteq Sales /\ IsFiniteSet(OpenOn(row))
<1>1. OpenOn(row) \subseteq Sales
    BY DEF OpenOn
<1> QED BY <1>1, BoundsAssumption, FS_Subset

\* Recording a sale moves its units from the row's stock to the orders that stand.
LEMMA RecordMoves ==
    ASSUME SaleInv, NEW s \in Sales, NEW i \in Intents, NEW from \in Rows, Record(s, i, from),
           NEW row \in Rows
    PROVE  stock'[row] + HeldFrom(row)' = stock[row] + HeldFrom(row)
<1> DEFINE new == [state |-> "open", restored |-> FALSE, key |-> i.key,
                   source |-> i.source, row |-> from, units |-> i.units]
           after == [sale EXCEPT ![s] = new]
<1>1. /\ sale \in [Sales -> Sale] /\ stock \in [Rows -> Nat] /\ sale' = after
      /\ stock[from] >= i.units /\ i.units \in Nat /\ sale[s].state = "none"
    BY IntentTypes DEF SaleInv, TypeOK, Record, Consumable, Exists
<1>2. stock' = [stock EXCEPT ![from] = stock[from] - i.units]
    BY <1>1 DEF Record
<1>3. new.state = "open" /\ new.row = from /\ new.units = i.units
    OBVIOUS
<1> HIDE DEF new
<1>4. after[s] = new /\ \A t \in Sales : t # s => after[t] = sale[t]
    BY <1>1
<1>5. \A t \in OpenOn(row) : t # s /\ after[t] = sale[t] /\ sale[t].units \in Nat
    BY <1>1, <1>4 DEF OpenOn, Sale
<1> HIDE DEF after
<1>6. OpenOn(row)' = OpenOn(row) \cup (IF row = from THEN {s} ELSE {})
    BY <1>1, <1>3, <1>4 DEF OpenOn
<1>7. CASE row = from
  <2> DEFINE S == OpenOn(row)
             n == i.units
  <2>1. s \notin S
      BY <1>5
  <2>2. IsFiniteSet(S)
      BY OpenFinite
  <2>3. after[s].units = n /\ n \in Nat
      BY <1>1, <1>3, <1>4
  <2>4. \A t \in S : sale[t].units \in Nat /\ after[t].units = sale[t].units
      BY <1>5
  <2> HIDE DEF S, n
  <2>5. Cardinality(UnitsOf(sale, S)) \in Nat
      BY <2>2, <2>4, UnitsFinite
  <2>6. Cardinality(UnitsOf(after, S \cup {s})) = Cardinality(UnitsOf(sale, S)) + n
      BY <2>1, <2>2, <2>3, <2>4, UnitsAdd
  <2>7. HeldFrom(row)' = HeldFrom(row) + n /\ HeldFrom(row) \in Nat
      BY <1>1, <1>6, <1>7, <2>5, <2>6 DEF HeldFrom, S
  <2>8. stock'[row] = stock[row] - n /\ stock[row] \in Nat
      BY <1>1, <1>2, <1>7 DEF n
  <2> HIDE DEF HeldFrom
  <2> QED BY <2>3, <2>7, <2>8
<1>8. CASE row # from
  <2>1. UnitsOf(after, OpenOn(row)) = UnitsOf(sale, OpenOn(row))
      BY <1>5 DEF UnitsOf
  <2>2. HeldFrom(row)' = HeldFrom(row)
      BY <1>1, <1>6, <1>8, <2>1 DEF HeldFrom
  <2> QED BY <1>1, <1>2, <1>8, <2>2
<1> QED BY <1>7, <1>8

\* The first cancel moves them back, if they came from a row that is still
\* there; a later one moves nothing.
LEMMA CancelMoves ==
    ASSUME SaleInv, NEW s \in Sales, cancelSaleAndRestoreInventory(s), NEW row \in {0, live}
    PROVE  stock'[row] + HeldFrom(row)' = stock[row] + HeldFrom(row)
<1> DEFINE new == [sale[s] EXCEPT !.state = "canceled", !.restored = TRUE]
           after == [sale EXCEPT ![s] = new]
           from == sale[s].row
           n == sale[s].units
<1>1. /\ sale \in [Sales -> Sale] /\ stock \in [Rows -> Nat] /\ sale[s] \in Sale
      /\ sale[s].state \in {"open", "canceled"}
      /\ row \in Rows /\ from \in Rows /\ n \in Nat
    BY BoundsAssumption DEF SaleInv, TypeOK, cancelSaleAndRestoreInventory, Exists, Sale, Rows
<1>2. sale' = after
    BY <1>1 DEF cancelSaleAndRestoreInventory
<1>3. stock' = [stock EXCEPT ![from] =
                    IF Restorable(s) /\ from \in {0, live} THEN stock[from] + n ELSE stock[from]]
    BY <1>1 DEF cancelSaleAndRestoreInventory
<1>4. new.state = "canceled" /\ new.row = from /\ new.units = n
    BY <1>1 DEF Sale
<1>5. Restorable(s) <=> sale[s].state = "open"
    BY <1>1 DEF Restorable, SaleInv, RestoredWithCancel
<1> HIDE DEF new
<1>6. after[s] = new /\ \A t \in Sales : t # s => after[t] = sale[t]
    BY <1>1
<1> HIDE DEF after
<1>7. OpenOn(row)' = OpenOn(row) \ {s}
    BY <1>2, <1>4, <1>6 DEF OpenOn
<1>8. \A t \in OpenOn(row) : sale[t].units \in Nat
    BY <1>1 DEF OpenOn, Sale
<1>9. OpenOn(row) \subseteq Sales
    BY OpenFinite
<1>10. CASE s \in OpenOn(row)
  <2>1. from = row /\ sale[s].state = "open"
      BY <1>10 DEF OpenOn
  <2> DEFINE S == OpenOn(row) \ {s}
  <2>2. s \notin S /\ IsFiniteSet(S) /\ S \cup {s} = OpenOn(row)
      BY <1>10, OpenFinite, FS_Subset
  <2>3. \A t \in S : after[t].units \in Nat /\ sale[t].units = after[t].units
      BY <1>6, <1>8, <1>9
  <2>4. sale[s].units = n
      OBVIOUS
  <2> HIDE DEF S, n
  <2>5. /\ Cardinality(UnitsOf(after, S)) \in Nat
        /\ Cardinality(UnitsOf(sale, S \cup {s})) = Cardinality(UnitsOf(after, S)) + n
      BY <1>1, <2>2, <2>3, <2>4, UnitsAdd
  <2>6. HeldFrom(row) = HeldFrom(row)' + n /\ HeldFrom(row)' \in Nat
      BY <1>2, <1>7, <2>2, <2>5 DEF HeldFrom, S
  <2>7. stock'[row] = stock[row] + n /\ stock[row] \in Nat
      BY <1>1, <1>3, <1>5, <2>1
  <2> HIDE DEF HeldFrom
  <2> QED BY <1>1, <2>6, <2>7
<1>11. CASE s \notin OpenOn(row)
  <2>1. UnitsOf(after, OpenOn(row)) = UnitsOf(sale, OpenOn(row))
      BY <1>6, <1>9, <1>11 DEF UnitsOf
  <2>2. OpenOn(row)' = OpenOn(row)
      BY <1>7, <1>11
  <2>3. HeldFrom(row)' = HeldFrom(row)
      BY <1>2, <2>1, <2>2 DEF HeldFrom
  <2>4. row # from \/ ~Restorable(s)
      BY <1>5, <1>11 DEF OpenOn
  <2>5. stock'[row] = stock[row]
      BY <1>1, <1>3, <2>4
  <2> QED BY <2>3, <2>5
<1> QED BY <1>10, <1>11

\* Between two counts the owner enters, every unit taken from a row that goods
\* are sold from is a unit of an order that stands.
THEOREM stockFollowsSales == Spec => StockFollowsSales
<1> DEFINE Moves == edits' = edits => \A row \in {0, live} :
                        stock'[row] + HeldFrom(row)' = stock[row] + HeldFrom(row)
<1>1. SaleInv /\ [Next]_vars => [Moves]_vars
  <2> SUFFICES ASSUME SaleInv, [Next]_vars, edits' = edits, NEW row \in {0, live}
               PROVE  stock'[row] + HeldFrom(row)' = stock[row] + HeldFrom(row)
      OBVIOUS
  <2>1. row \in Rows /\ edits \in Nat /\ SoldFrom \in Rows
      BY BoundsAssumption DEF SaleInv, TypeOK, Rows, SoldFrom
  <2>2. ASSUME UNCHANGED <<sale, stock>>
        PROVE  stock'[row] + HeldFrom(row)' = stock[row] + HeldFrom(row)
      BY <2>2 DEF HeldFrom, OpenOn
  <2>3. ASSUME NEW c \in Calls, NEW s \in Sales, CreateWrite(c, s)
        PROVE  stock'[row] + HeldFrom(row)' = stock[row] + HeldFrom(row)
    <3>1. op[c].intent \in Intents /\ op[c].row \in Rows
        BY <2>3, CallTypes DEF CreateWrite, SaleInv
    <3> QED BY <2>1, <2>3, <3>1, RecordMoves DEF CreateWrite
  <2>4. ASSUME NEW i \in Intents, NEW s \in Sales, Convert(i, s)
        PROVE  stock'[row] + HeldFrom(row)' = stock[row] + HeldFrom(row)
      BY <2>1, <2>4, RecordMoves DEF Convert
  <2>5. ASSUME NEW s \in Sales, cancelSaleAndRestoreInventory(s)
        PROVE  stock'[row] + HeldFrom(row)' = stock[row] + HeldFrom(row)
      BY <2>5, CancelMoves
  <2>6. ASSUME NEW c \in Calls,
               (\E i \in Intents : CreateRead(c, i)) \/ CreateRefused(c) \/ CreateRecover(c) \/ Stop(c)
        PROVE  UNCHANGED <<sale, stock>>
      BY <2>6 DEF CreateRead, CreateRefused, CreateRecover, Stop, stockVars
  <2>7. ASSUME NEW i \in Intents, CreateReplay(i) \/ ConvertAgain(i)
        PROVE  UNCHANGED <<sale, stock>>
      BY <2>7 DEF CreateReplay, ConvertAgain, stockVars
  <2>8. ASSUME NEW q \in Sources, CancelRequest(q) PROVE UNCHANGED <<sale, stock>>
      BY <2>8 DEF CancelRequest, stockVars
  <2>9. ASSUME NEW n \in Counts, EditCount(n) \/ \E counts \in BOOLEAN : EditVariants(n, counts)
        PROVE  FALSE
      BY <2>1, <2>9 DEF EditCount, EditVariants
  <2>10. CASE UNCHANGED vars
      BY <2>2, <2>10 DEF vars
  <2> QED BY <2>2, <2>3, <2>4, <2>5, <2>6, <2>7, <2>8, <2>9, <2>10 DEF Next, CallStep
<1>2. Spec => []SaleInv
    BY InitSales, SalesKept, PTL DEF Spec
<1> QED BY <1>1, <1>2, PTL DEF Spec, StockFollowsSales

-----------------------------------------------------------------------------
\* A sale's line names a variant row that was the product's when it was recorded.
LinesNamed == \A s \in Sales : sale[s].row <= live

LEMMA LinesNamedKept == SaleInv /\ LinesNamed /\ [Next]_vars => LinesNamed'
<1> SUFFICES ASSUME SaleInv, LinesNamed, [Next]_vars PROVE LinesNamed'
    OBVIOUS
<1>1. live \in Nat /\ \A s \in Sales : sale[s] \in Sale /\ sale[s].row \in Nat
    BY BoundsAssumption DEF SaleInv, TypeOK, Sale, Rows
<1>2. ASSUME NEW s \in Sales, NEW i \in Intents, NEW row \in {0, live}, Record(s, i, row)
      PROVE  LinesNamed'
  <2>1. \A t \in Sales : sale'[t].row = IF t = s THEN row ELSE sale[t].row
      BY <1>2 DEF Record, SaleInv, TypeOK
  <2>2. live' = live
      BY <1>2 DEF Record
  <2> QED BY <1>1, <1>2, <2>1, <2>2 DEF LinesNamed
<1>3. ASSUME NEW c \in Calls, NEW s \in Sales, CreateWrite(c, s) PROVE LinesNamed'
  <2>1. op[c].intent \in Intents /\ op[c].row \in {0, live}
      BY <1>3, CallTypes DEF CreateWrite, SaleInv, Record, Consumable
  <2> QED BY <1>2, <1>3, <2>1 DEF CreateWrite
<1>4. ASSUME NEW i \in Intents, NEW s \in Sales, Convert(i, s) PROVE LinesNamed'
  <2>1. SoldFrom \in {0, live}
      BY DEF SoldFrom
  <2> QED BY <1>2, <1>4, <2>1 DEF Convert
<1>5. ASSUME NEW s \in Sales, cancelSaleAndRestoreInventory(s) PROVE LinesNamed'
  <2>1. \A t \in Sales : sale'[t].row = sale[t].row
      BY <1>1, <1>5 DEF cancelSaleAndRestoreInventory, SaleInv, TypeOK, Sale
  <2> QED BY <1>5, <2>1 DEF cancelSaleAndRestoreInventory, LinesNamed
<1>6. ASSUME NEW n \in Counts, NEW counts \in BOOLEAN, EditVariants(n, counts) PROVE LinesNamed'
    BY <1>1, <1>6 DEF EditVariants, LinesNamed
<1>7. CASE UNCHANGED <<sale, live>>
    BY <1>7 DEF LinesNamed
<1> QED
    BY <1>3, <1>4, <1>5, <1>6, <1>7 DEF Next, CallStep, CreateRead, CreateRefused, CreateRecover, Stop,
       CreateReplay, ConvertAgain, CancelRequest, EditCount, vars, stockVars

\* sale-inventory.spec.ts, "restores consumed stock once when a sale is canceled":
\* so it is until an edit has replaced the product's variant row, whatever other
\* sales, cancels and edits of the count fall in between.
THEOREM cancelRestores ==
    Spec => [][live = 1 => \A s \in Sales : sale[s].state = "open" /\ sale'[s].state = "canceled" =>
                   stock'[0] + stock'[live'] = stock[0] + stock[live] + sale[s].units]_vars
<1> DEFINE Restores ==
      live = 1 => \A s \in Sales : sale[s].state = "open" /\ sale'[s].state = "canceled" =>
          stock'[0] + stock'[live'] = stock[0] + stock[live] + sale[s].units
<1>1. SaleInv /\ LinesNamed /\ [Next]_vars => [Restores]_vars
  <2> SUFFICES ASSUME SaleInv, LinesNamed, [Next]_vars, live = 1, NEW s \in Sales,
                      sale[s].state = "open", sale'[s].state = "canceled"
               PROVE  stock'[0] + stock'[live'] = stock[0] + stock[live] + sale[s].units
      OBVIOUS
  <2>1. /\ sale \in [Sales -> Sale] /\ stock \in [Rows -> Nat] /\ 0 \in Rows /\ live \in Rows
        /\ sale[s].units \in Nat /\ sale[s].row \in {0, live} /\ ~sale[s].restored
      BY BoundsAssumption DEF SaleInv, TypeOK, Rows, Sale, LinesNamed, RestoredWithCancel
  <2>2. ASSUME NEW t \in Sales, NEW i \in Intents, NEW row, Record(t, i, row) PROVE FALSE
    <3>1. sale'[s] = sale[s] \/ sale'[s].state = "open"
        BY <2>1, <2>2 DEF Record
    <3> QED BY <3>1
  <2>3. ASSUME NEW t \in Sales, cancelSaleAndRestoreInventory(t)
        PROVE  stock'[0] + stock'[live'] = stock[0] + stock[live] + sale[s].units
    <3>1. t = s
        BY <2>1, <2>3 DEF cancelSaleAndRestoreInventory
    <3>2. /\ stock' = [stock EXCEPT ![sale[s].row] = stock[sale[s].row] + sale[s].units]
          /\ live' = live
        BY <2>1, <2>3, <3>1 DEF cancelSaleAndRestoreInventory, Restorable
    <3> QED BY <2>1, <3>2
  <2>4. ASSUME NEW c \in Calls, NEW t \in Sales, CreateWrite(c, t) PROVE FALSE
      BY <2>2, <2>4, CallTypes DEF CreateWrite, SaleInv
  <2>5. ASSUME NEW i \in Intents, NEW t \in Sales, Convert(i, t) PROVE FALSE
      BY <2>2, <2>5 DEF Convert
  <2>6. sale' # sale
      OBVIOUS
  <2> QED
      BY <2>3, <2>4, <2>5, <2>6 DEF Next, CallStep, CreateRead, CreateRefused, CreateRecover, Stop,
         CreateReplay, ConvertAgain, CancelRequest, EditCount, EditVariants, vars
<1>2. Init => LinesNamed
    BY DEF Init, LinesNamed, NoSale
<1>3. Spec => [](SaleInv /\ LinesNamed)
    BY <1>2, InitSales, SalesKept, LinesNamedKept, PTL DEF Spec
<1> QED BY <1>1, <1>3, PTL DEF Spec
=============================================================================
