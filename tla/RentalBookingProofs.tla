------------------------- MODULE RentalBookingProofs -------------------------
(***************************************************************************)
(* Proofs about RentalCapacity and RentalBooking for any number of sales   *)
(* and handlers, any orders and any horizon.  A booked line adds at most   *)
(* its own units to those in use at an instant (UnitsMore); every other    *)
(* step takes units away from what is promised or leaves it alone          *)
(* (PromisedFades).  The sweep of the events in order meets every instant  *)
(* at which the most units are in use (UsedBelow, UsedAbove), so the test  *)
(* of the code is the test of the promise.                                 *)
(***************************************************************************)
EXTENDS RentalBooking, FiniteSetTheorems, TLAPS

\* The units of a set of lines: finite, and fewer for fewer lines.
LEMMA UnitsFinite ==
    ASSUME NEW S, IsFiniteSet(S), NEW rows, \A i \in S : rows[i].quantity \in Nat
    PROVE  IsFiniteSet(UnitsOf(rows, S)) /\ Cardinality(UnitsOf(rows, S)) \in Nat
<1> DEFINE Of(i) == {i} \X (1 .. rows[i].quantity)
           f == [i \in S |-> Of(i)]
           T == {Of(i) : i \in S}
<1>1. f \in Surjection(S, T)
    BY DEF Surjection
<1>2. IsFiniteSet(T)
    BY <1>1, FS_Surjection
<1>3. ASSUME NEW i \in S PROVE IsFiniteSet(Of(i))
  <2>1. IsFiniteSet({i})
      BY FS_Singleton
  <2>2. IsFiniteSet(1 .. rows[i].quantity)
      BY <1>3, FS_Interval
  <2> QED BY <2>1, <2>2, FS_Product
<1>4. \A t \in T : IsFiniteSet(t)
    BY <1>3
<1>5. IsFiniteSet(UNION T)
    BY <1>2, <1>4, FS_UNION
<1> QED BY <1>5, FS_CardinalityType DEF UnitsOf

LEMMA UnitsFewer ==
    ASSUME NEW T, IsFiniteSet(T), NEW S, S \subseteq T, NEW after, NEW rows,
           \A i \in T : rows[i].quantity \in Nat,
           \A i \in S : after[i].quantity = rows[i].quantity
    PROVE  /\ Cardinality(UnitsOf(after, S)) \in Nat
           /\ Cardinality(UnitsOf(after, S)) <= Cardinality(UnitsOf(rows, T))
<1>1. UnitsOf(after, S) \subseteq UnitsOf(rows, T)
    BY DEF UnitsOf
<1>2. IsFiniteSet(UnitsOf(rows, T))
    BY UnitsFinite
<1> QED BY <1>1, <1>2, FS_Subset, FS_CardinalityType

LEMMA OwnUnits ==
    ASSUME NEW i, NEW n \in Nat
    PROVE  IsFiniteSet({i} \X (1 .. n)) /\ Cardinality({i} \X (1 .. n)) = n
<1>1. IsFiniteSet(1 .. n) /\ Cardinality(1 .. n) = n
  <2>1. IsFiniteSet(1 .. n) /\ Cardinality(1 .. n) = IF 1 > n THEN 0 ELSE n - 1 + 1
      BY FS_Interval
  <2> QED BY <2>1
<1>2. IsFiniteSet({i}) /\ Cardinality({i}) = 1
    BY FS_Singleton
<1>3. /\ IsFiniteSet({i} \X (1 .. n))
      /\ Cardinality({i} \X (1 .. n)) = Cardinality({i}) * Cardinality(1 .. n)
    BY <1>1, <1>2, FS_Product
<1> QED BY <1>1, <1>2, <1>3

\* A line of n units adds at most n to the units of the others.
LEMMA UnitsMore ==
    ASSUME NEW T, IsFiniteSet(T), NEW i, NEW S, S \subseteq T \cup {i},
           NEW after, NEW rows, NEW n \in Nat,
           \A j \in T : rows[j].quantity \in Nat,
           \A j \in S \ {i} : after[j].quantity = rows[j].quantity,
           after[i].quantity = n
    PROVE  /\ Cardinality(UnitsOf(after, S)) \in Nat
           /\ Cardinality(UnitsOf(after, S)) <= Cardinality(UnitsOf(rows, T)) + n
<1> DEFINE own == {i} \X (1 .. n)
<1>1. IsFiniteSet(UnitsOf(rows, T)) /\ Cardinality(UnitsOf(rows, T)) \in Nat
    BY UnitsFinite
<1>4. IsFiniteSet(own) /\ Cardinality(own) = n
    BY OwnUnits
<1>5. UnitsOf(after, S) \subseteq UnitsOf(rows, T) \cup own
    BY DEF UnitsOf
<1> HIDE DEF own
<1>6. /\ IsFiniteSet(UnitsOf(rows, T) \cup own)
      /\ Cardinality(UnitsOf(rows, T) \cup own)
             = Cardinality(UnitsOf(rows, T)) + Cardinality(own) - Cardinality(UnitsOf(rows, T) \cap own)
    BY <1>1, <1>4, FS_Union
<1>7. Cardinality(UnitsOf(rows, T) \cap own) \in Nat
    BY <1>4, FS_Intersection, FS_CardinalityType
<1>8. /\ Cardinality(UnitsOf(after, S)) <= Cardinality(UnitsOf(rows, T) \cup own)
      /\ Cardinality(UnitsOf(after, S)) \in Nat
    BY <1>5, <1>6, FS_Subset, FS_CardinalityType
<1>9. Cardinality(UnitsOf(rows, T) \cup own) <= Cardinality(UnitsOf(rows, T)) + n
    BY <1>1, <1>4, <1>6, <1>7
<1> HIDE DEF UnitsOf
<1>10. Cardinality(UnitsOf(rows, T) \cup own) \in Nat
    BY <1>6, FS_CardinalityType
<1> QED BY <1>1, <1>8, <1>9, <1>10

LEMMA ItemsFinite == IsFiniteSet(Items)
<1>1. IsFiniteSet({1, 2})
  <2>1. IsFiniteSet({1}) /\ IsFiniteSet({2})
      BY FS_Singleton
  <2>2. IsFiniteSet({1} \cup {2})
      BY <2>1, FS_Union
  <2>3. {1, 2} = {1} \cup {2}
      OBVIOUS
  <2> QED BY <2>2, <2>3
<1>2. IsFiniteSet(Sales)
    BY BoundsAssumption
<1> QED BY <1>1, <1>2, FS_Product DEF Items

-----------------------------------------------------------------------------
(* Types                                                                   *)

LEMMA LineTypes ==
    ASSUME NEW o \in Orders
    PROVE  o[1] \in Line /\ o[2] \in Line
<1>1. NoLine \in Line
    BY BoundsAssumption DEF NoLine, Line, Times
<1> QED BY <1>1, OrdersAssumption DEF IsRequested

LEMMA BookedTypes ==
    ASSUME NEW line \in Line
    PROVE  /\ Booked(line) \in Booking /\ ~Booked(line).out
           /\ Booked(line).quantity = line.quantity
           /\ Booked(line).start = line.start /\ Booked(line).end = line.end
BY DEF Booked, Booking, Line

LEMMA InitTypes == Init => TypeOK
<1>1. NoLine \in Line
    BY BoundsAssumption DEF NoLine, Line, Times
<1>2. NoBooking \in Booking
    BY <1>1, BookedTypes DEF NoBooking
<1>3. 0 \in Times
    BY BoundsAssumption DEF Times
<1>4. Idle \in Op
    BY DEF Op
<1> QED BY <1>2, <1>3, <1>4 DEF Init, TypeOK, Journey

LEMMA CallTypes ==
    ASSUME TypeOK, NEW h \in Handlers
    PROVE  /\ op[h].pc = "update" => op[h].sale \in Sales /\ op[h].to \in Target
           /\ op[h].pc = "edit" => op[h].count \in Capacities /\ op[h].read \in Capacities
           /\ op[h].pc = "receive" => op[h].item \in Items
BY DEF TypeOK, Op, Idle

\* What a reservation writes.
LEMMA PlaceTypes ==
    ASSUME TypeOK, NEW s \in Sales, NEW o \in Orders, Place(s, o[1], o[2])
    PROVE  /\ AfterFirst(s, o[1]) \in [Items -> Booking]
           /\ item' \in [Items -> Booking]
           /\ item'[<<s, 1>>] = Booked(o[1]) /\ item'[<<s, 2>>] = Booked(o[2])
           /\ AfterFirst(s, o[1])[<<s, 1>>] = Booked(o[1])
           /\ \A i \in Items \ {<<s, 1>>} : AfterFirst(s, o[1])[i] = item[i]
           /\ \A i \in Items \ {<<s, 2>>} : item'[i] = AfterFirst(s, o[1])[i]
<1>1. Booked(o[1]) \in Booking /\ Booked(o[2]) \in Booking
    BY LineTypes, BookedTypes
<1>2. <<s, 1>> \in Items /\ <<s, 2>> \in Items /\ <<s, 1>> # <<s, 2>>
    BY DEF Items
<1>3. item \in [Items -> Booking]
    BY DEF TypeOK
<1>4. AfterFirst(s, o[1]) = [item EXCEPT ![<<s, 1>>] = Booked(o[1])]
    BY DEF AfterFirst
<1>5. item' = [AfterFirst(s, o[1]) EXCEPT ![<<s, 2>>] = Booked(o[2])]
    BY DEF Place
<1> DEFINE after == AfterFirst(s, o[1])
           b1 == Booked(o[1])
           b2 == Booked(o[2])
<1> HIDE DEF after, b1, b2
<1>6. after = [item EXCEPT ![<<s, 1>>] = b1] /\ b1 \in Booking /\ b2 \in Booking
    BY <1>1, <1>4 DEF after, b1, b2
<1>7. item' = [after EXCEPT ![<<s, 2>>] = b2]
    BY <1>5 DEF after, b2
<1>8. /\ after \in [Items -> Booking] /\ after[<<s, 1>>] = b1
      /\ \A i \in Items \ {<<s, 1>>} : after[i] = item[i]
    BY <1>2, <1>3, <1>6
<1>9. /\ item' \in [Items -> Booking] /\ item'[<<s, 2>>] = b2
      /\ \A i \in Items \ {<<s, 2>>} : item'[i] = after[i]
    BY <1>2, <1>6, <1>7, <1>8
<1>10. item'[<<s, 1>>] = b1
    BY <1>2, <1>8, <1>9
<1> QED BY <1>8, <1>9, <1>10 DEF after, b1, b2

\* Lines keep their terms in every other step, and only ever leave, return or
\* are given up.
Marked == \A i \in Items :
    /\ item'[i].quantity = item[i].quantity
    /\ item'[i].start = item[i].start /\ item'[i].end = item[i].end
    /\ item[i].out => item'[i].out
    /\ item[i].returned => item'[i].returned

LEMMA ItemsMarked ==
    ASSUME TypeOK, Others
    PROVE  item' \in [Items -> Booking] /\ Marked
<1> USE DEF TypeOK, Booking
<1>1. CASE UNCHANGED item
    BY <1>1 DEF Marked
<1>2. ASSUME NEW h \in Owners, UpdateCommit(h) PROVE item' \in [Items -> Booking] /\ Marked
  <2>1. item' = [i \in Items |->
                   IF op[h].to = "IN_TRANSIT" /\ i[1] = op[h].sale /\ item[i].quantity > 0
                   THEN [item[i] EXCEPT !.out = TRUE] ELSE item[i]]
      BY <1>2 DEF UpdateCommit
  <2>2. \A i \in Items : [item[i] EXCEPT !.out = TRUE] \in Booking
      OBVIOUS
  <2>3. \A i \in Items : item'[i] \in Booking
      BY <2>1, <2>2
  <2>4. item' \in [Items -> Booking]
      BY <2>1, <2>3
  <2>5. \A i \in Items : item'[i] = item[i] \/ item'[i] = [item[i] EXCEPT !.out = TRUE]
      BY <2>1
  <2>6. Marked
      BY <2>5 DEF Marked
  <2> QED BY <2>4, <2>6
<1>3. ASSUME NEW h \in Customers, ReceiveCommit(h) PROVE item' \in [Items -> Booking] /\ Marked
  <2>1. op[h].item \in Items
      BY <1>3, CallTypes DEF ReceiveCommit, Handlers
  <2> QED BY <1>3, <2>1 DEF ReceiveCommit, Marked
<1>4. ASSUME NEW i \in Items, returnRental(i) PROVE item' \in [Items -> Booking] /\ Marked
    BY <1>4 DEF returnRental, Marked
<1>5. CASE Tick
    BY <1>1, <1>5 DEF Tick
<1>6. ASSUME NEW h \in Owners, NEW s \in Sales, NEW to \in Target, UpdateRead(h, s, to)
      PROVE  UNCHANGED item
    BY <1>6 DEF UpdateRead
<1>7. ASSUME NEW h \in Customers, NEW i \in Items, ReceiveCheck(h, i) PROVE UNCHANGED item
    BY <1>7 DEF ReceiveCheck
<1>8. ASSUME NEW h \in Editors, EditCommit(h) PROVE UNCHANGED item
    BY <1>8 DEF EditCommit
<1>9. ASSUME NEW h \in Editors, NEW n \in Capacities, EditRead(h, n) PROVE UNCHANGED item
    BY <1>9 DEF EditRead
<1> QED BY <1>1, <1>2, <1>3, <1>4, <1>5, <1>6, <1>7, <1>8, <1>9 DEF Others

LEMMA TypesKept == TypeOK /\ [Next]_vars => TypeOK'
<1> SUFFICES ASSUME TypeOK, [Next]_vars PROVE TypeOK'
    OBVIOUS
<1>1. ASSUME NEW s \in Sales, NEW o \in Orders, Reserve(s, o[1], o[2]) PROVE TypeOK'
  <2>1. item' \in [Items -> Booking]
      BY <1>1, PlaceTypes DEF Reserve
  <2> QED BY <1>1, <2>1 DEF Reserve, Place, TypeOK, Journey
<1>2. CASE Tick
    BY <1>2, BoundsAssumption DEF Tick, TypeOK, Times
<1>3. ASSUME NEW h \in Owners, NEW s \in Sales, NEW to \in Target, UpdateRead(h, s, to) PROVE TypeOK'
  <2>1. [pc |-> "update", sale |-> s, to |-> to] \in Op
      BY DEF Op
  <2> QED BY <1>3, <2>1 DEF UpdateRead, Begin, TypeOK, Handlers
<1>4. ASSUME NEW h \in Owners, UpdateCommit(h) PROVE TypeOK'
  <2>1. item' \in [Items -> Booking]
      BY <1>4, ItemsMarked DEF Others
  <2>2. op[h].sale \in Sales /\ op[h].to \in Target
      BY <1>4, CallTypes DEF UpdateCommit, Handlers
  <2>3. Idle \in Op
      BY DEF Op
  <2> QED BY <1>4, <2>1, <2>2, <2>3 DEF UpdateCommit, Finish, TypeOK, Journey
<1>5. ASSUME NEW h \in Customers, NEW i \in Items, ReceiveCheck(h, i) PROVE TypeOK'
  <2>1. [pc |-> "receive", item |-> i] \in Op
      BY DEF Op
  <2> QED BY <1>5, <2>1 DEF ReceiveCheck, Begin, TypeOK
<1>6. ASSUME NEW h \in Customers, ReceiveCommit(h) PROVE TypeOK'
  <2>1. item' \in [Items -> Booking]
      BY <1>6, ItemsMarked DEF Others
  <2>2. Idle \in Op
      BY DEF Op
  <2> QED BY <1>6, <2>1, <2>2 DEF ReceiveCommit, Finish, TypeOK
<1>7. ASSUME NEW i \in Items, returnRental(i) PROVE TypeOK'
  <2>1. item' \in [Items -> Booking]
      BY <1>7, ItemsMarked DEF Others
  <2> QED BY <1>7, <2>1 DEF returnRental, TypeOK
<1>8. ASSUME NEW h \in Editors, EditCommit(h) PROVE TypeOK'
  <2>1. op[h].count \in Capacities
      BY <1>8, CallTypes DEF EditCommit, Handlers
  <2>2. Idle \in Op
      BY DEF Op
  <2> QED BY <1>8, <2>1, <2>2 DEF EditCommit, Finish, TypeOK
<1>9. ASSUME NEW h \in Editors, NEW n \in Capacities, EditRead(h, n) PROVE TypeOK'
  <2>1. [pc |-> "edit", count |-> n, read |-> capacity] \in Op
      BY DEF Op, TypeOK
  <2> QED BY <1>9, <2>1 DEF EditRead, Begin, TypeOK
<1>10. CASE UNCHANGED vars
    BY <1>10 DEF vars, TypeOK
<1>11. CASE Others
    BY <1>2, <1>3, <1>4, <1>5, <1>6, <1>7, <1>8, <1>9, <1>11 DEF Others
<1> QED BY <1>1, <1>10, <1>11 DEF Next

\* The rows and the calls in flight keep their types.
THEOREM types == Spec => []TypeOK
<1> QED BY InitTypes, TypesKept, PTL DEF Spec

-----------------------------------------------------------------------------
(* Reservations                                                            *)

Within(line, t) == line.start <= t /\ t < line.end

\* At an instant of a line it books, a sale leaves no more units in use than
\* there are: the last of its lines there was measured against all the others.
LEMMA ReservedFits ==
    ASSUME TypeOK, NEW s \in Sales, NEW o \in Orders, Reserve(s, o[1], o[2]), NEW t \in Times,
           Within(o[1], t) \/ (o[2] # NoLine /\ Within(o[2], t))
    PROVE  /\ Cardinality(UnitsOf(item', OutAt(item', t))) \in Nat
           /\ Cardinality(UnitsOf(item', OutAt(item', t))) <= capacity
<1> DEFINE after == AfterFirst(s, o[1])
           n1 == o[1].quantity
           n2 == o[2].quantity
<1>1. /\ after \in [Items -> Booking] /\ item' \in [Items -> Booking]
      /\ item \in [Items -> Booking]
      /\ \A i \in Items \ {<<s, 1>>} : after[i] = item[i]
      /\ \A i \in Items \ {<<s, 2>>} : item'[i] = after[i]
    BY PlaceTypes DEF Reserve, TypeOK
<1>2. /\ item'[<<s, 1>>].quantity = n1
      /\ item'[<<s, 2>>].quantity = n2
      /\ item'[<<s, 2>>].start = o[2].start /\ item'[<<s, 2>>].end = o[2].end
      /\ ~item'[<<s, 2>>].out
    BY PlaceTypes, BookedTypes, LineTypes DEF Reserve
<1>3. n1 \in Nat /\ n2 \in Nat /\ capacity \in Nat
    BY LineTypes, BoundsAssumption DEF Line, TypeOK
<1>4. /\ \A i \in Items : item[i].quantity \in Nat
      /\ \A i \in Items : after[i].quantity \in Nat
    BY <1>1 DEF Booking
<1>5. /\ OutAt(item, t) \subseteq Items /\ OutAt(after, t) \subseteq Items
      /\ OutAt(item', t) \subseteq Items
      /\ IsFiniteSet(OutAt(item, t)) /\ IsFiniteSet(OutAt(after, t))
    BY ItemsFinite, FS_Subset DEF OutAt, CommittedIn
<1>6. Fits(item, o[1]) /\ (o[2] # NoLine => Fits(after, o[2]))
    BY DEF Reserve, BothFit
<1>7. CASE o[2] # NoLine /\ Within(o[2], t)
  <2>1. OutAt(item', t) \subseteq OutAt(after, t) \cup {<<s, 2>>}
      BY <1>1 DEF OutAt, CommittedIn, GivenUp
  <2>2. Cardinality(UnitsOf(after, OutAt(after, t))) + n2 <= capacity
      BY <1>6, <1>7 DEF Fits, InUse, Within
  <2>3. Cardinality(UnitsOf(after, OutAt(after, t))) \in Nat
      BY <1>4, <1>5, UnitsFinite
  <2>4. \A j \in OutAt(item', t) \ {<<s, 2>>} : item'[j].quantity = after[j].quantity
      BY <1>1, <1>5
  <2>5. \A j \in OutAt(after, t) : after[j].quantity \in Nat
      BY <1>4, <1>5
  <2> HIDE DEF after, n2
  <2>6. /\ Cardinality(UnitsOf(item', OutAt(item', t))) \in Nat
        /\ Cardinality(UnitsOf(item', OutAt(item', t))) <= Cardinality(UnitsOf(after, OutAt(after, t))) + n2
      BY <1>2, <1>3, <1>5, <2>1, <2>4, <2>5, UnitsMore
  <2> QED BY <1>3, <2>2, <2>3, <2>6
<1>8. CASE Within(o[1], t) /\ ~(o[2] # NoLine /\ Within(o[2], t))
  <2>1. <<s, 2>> \notin OutAt(item', t)
      BY <1>2, <1>8 DEF OutAt, CommittedIn, Covers, Overdue, Within, NoLine
  <2>2. OutAt(item', t) \subseteq OutAt(item, t) \cup {<<s, 1>>}
      BY <1>1, <2>1 DEF OutAt, CommittedIn, GivenUp
  <2>3. Cardinality(UnitsOf(item, OutAt(item, t))) + n1 <= capacity
      BY <1>6, <1>8 DEF Fits, InUse, Within
  <2>4. Cardinality(UnitsOf(item, OutAt(item, t))) \in Nat
      BY <1>4, <1>5, UnitsFinite
  <2>5. \A j \in OutAt(item', t) \ {<<s, 1>>} : item'[j].quantity = item[j].quantity
      BY <1>1, <1>5, <2>1
  <2>6. \A j \in OutAt(item, t) : item[j].quantity \in Nat
      BY <1>4, <1>5
  <2> HIDE DEF n1
  <2>7. /\ Cardinality(UnitsOf(item', OutAt(item', t))) \in Nat
        /\ Cardinality(UnitsOf(item', OutAt(item', t))) <= Cardinality(UnitsOf(item, OutAt(item, t))) + n1
      BY <1>2, <1>3, <1>5, <2>2, <2>5, <2>6, UnitsMore
  <2> QED BY <1>3, <2>3, <2>4, <2>7
<1> QED BY <1>7, <1>8

\* A new booking leaves room for every unit that is out at any of its instants,
\* past its end or of an order canceled since.
THEOREM handedOut == Spec => HandedOutCounted
<1> DEFINE NewFits ==
        \A i \in Items : item[i].quantity = 0 /\ item'[i].quantity > 0 =>
            \A t \in Times : item'[i].start <= t /\ t < item'[i].end => InUse(item', t) <= capacity
<1>1. TypeOK /\ [Next]_vars => NewFits
  <2> SUFFICES ASSUME TypeOK, [Next]_vars,
                      NEW i \in Items, item[i].quantity = 0, item'[i].quantity > 0,
                      NEW t \in Times, item'[i].start <= t, t < item'[i].end
               PROVE  InUse(item', t) <= capacity
      OBVIOUS
  <2>1. CASE UNCHANGED vars
      BY <2>1 DEF vars
  <2>2. CASE Others
      BY <2>2, ItemsMarked DEF Marked
  <2>3. ASSUME NEW s \in Sales, NEW o \in Orders, Reserve(s, o[1], o[2])
        PROVE  InUse(item', t) <= capacity
    <3>1. i = <<s, 1>> \/ i = <<s, 2>>
      <4>1. Place(s, o[1], o[2])
          BY <2>3 DEF Reserve
      <4>2. /\ \A j \in Items \ {<<s, 1>>} : AfterFirst(s, o[1])[j] = item[j]
            /\ \A j \in Items \ {<<s, 2>>} : item'[j] = AfterFirst(s, o[1])[j]
          BY <4>1, PlaceTypes
      <4>3. i # <<s, 1>> /\ i # <<s, 2>> => item'[i] = item[i]
          BY <4>2
      <4> QED BY <4>3
    <3>2. /\ item'[<<s, 1>>] = Booked(o[1]) /\ item'[<<s, 2>>] = Booked(o[2])
        BY <2>3, PlaceTypes DEF Reserve
    <3>3. o[1] \in Line /\ o[2] \in Line
        BY LineTypes
    <3>4. Within(o[1], t) \/ Within(o[2], t)
        BY <3>1, <3>2, <3>3, BookedTypes DEF Within
    <3>5. i = <<s, 2>> => o[2] # NoLine
        BY <3>2, <3>3, BookedTypes DEF NoLine
    <3>6. Within(o[1], t) \/ (o[2] # NoLine /\ Within(o[2], t))
        BY <3>1, <3>2, <3>3, <3>5, BookedTypes DEF Within
    <3> QED BY <2>3, <3>6, ReservedFits DEF InUse
  <2> QED BY <2>1, <2>2, <2>3 DEF Next
<1>2. TypeOK /\ [Next]_vars => NewFits
    BY <1>1
<1> QED BY <1>2, types, PTL DEF Spec, HandedOutCounted

-----------------------------------------------------------------------------
(* Capacity                                                                *)

OneEditor == \A g, h \in Editors : g = h

\* The count an edit compares with is still the product's.
EditCurrent == \A h \in Editors : op[h].pc = "edit" => op[h].read = capacity

CapacityInv == TypeOK /\ EditCurrent /\ NeverOversold

LEMMA EditsCurrent == ASSUME OneEditor PROVE TypeOK /\ EditCurrent /\ [Next]_vars => EditCurrent'
<1> SUFFICES ASSUME TypeOK, EditCurrent, [Next]_vars PROVE EditCurrent'
    OBVIOUS
<1> USE NamesAssumption DEF EditCurrent
<1>1. ASSUME UNCHANGED capacity, \A h \in Editors : op'[h] = op[h] PROVE EditCurrent'
    BY <1>1
<1>2. ASSUME NEW s \in Sales, NEW o \in Orders, Reserve(s, o[1], o[2]) PROVE EditCurrent'
    BY <1>1, <1>2 DEF Reserve, Place
<1>3. CASE Tick \/ UNCHANGED vars
    BY <1>1, <1>3 DEF Tick, vars
<1>4. ASSUME NEW h \in Owners,
             UpdateCommit(h) \/ \E s \in Sales, to \in Target : UpdateRead(h, s, to)
      PROVE  EditCurrent'
    BY <1>1, <1>4 DEF UpdateCommit, UpdateRead, Begin, Finish, TypeOK, Handlers
<1>5. ASSUME NEW h \in Customers, ReceiveCommit(h) \/ \E i \in Items : ReceiveCheck(h, i)
      PROVE  EditCurrent'
    BY <1>1, <1>5 DEF ReceiveCommit, ReceiveCheck, Begin, Finish, TypeOK, Handlers
<1>6. ASSUME NEW i \in Items, returnRental(i) PROVE EditCurrent'
    BY <1>1, <1>6 DEF returnRental
<1>7. ASSUME NEW h \in Editors, EditCommit(h) PROVE EditCurrent'
  <2>1. \A g \in Editors : op'[g].pc = "idle"
      BY <1>7 DEF EditCommit, Finish, Idle, OneEditor, TypeOK, Handlers
  <2> QED BY <2>1
<1>8. ASSUME NEW h \in Editors, NEW n \in Capacities, EditRead(h, n) PROVE EditCurrent'
  <2>1. op' = [op EXCEPT ![h] = [pc |-> "edit", count |-> n, read |-> capacity]]
        /\ capacity' = capacity
      BY <1>8 DEF EditRead, Begin
  <2>2. \A g \in Editors : op'[g].read = capacity
      BY <2>1 DEF OneEditor, TypeOK, Handlers
  <2> QED BY <2>1, <2>2
<1> QED BY <1>2, <1>3, <1>4, <1>5, <1>6, <1>7, <1>8 DEF Next, Others

\* Where the promised lines only get fewer and the capacity no smaller, nothing
\* is oversold.
LEMMA PromisedFades ==
    ASSUME TypeOK, NeverOversold, NEW t \in Times,
           Promised(t)' \subseteq Promised(t), capacity' \in Nat, capacity' >= capacity,
           \A i \in Promised(t)' : item'[i].quantity = item[i].quantity
    PROVE  Cardinality(UnitsOf(item, Promised(t)))' <= capacity'
<1>1. Promised(t) \subseteq Items /\ IsFiniteSet(Promised(t))
    BY ItemsFinite, FS_Subset DEF Promised
<1>2. \A i \in Promised(t) : item[i].quantity \in Nat
    BY <1>1 DEF TypeOK, Booking
<1>3. /\ Cardinality(UnitsOf(item', Promised(t)')) \in Nat
      /\ Cardinality(UnitsOf(item', Promised(t)')) <= Cardinality(UnitsOf(item, Promised(t)))
    BY <1>1, <1>2, UnitsFewer
<1>4. Cardinality(UnitsOf(item, Promised(t))) <= capacity /\ capacity \in Nat
    BY BoundsAssumption DEF NeverOversold, TypeOK
<1>5. Cardinality(UnitsOf(item, Promised(t))) \in Nat
    BY <1>1, <1>2, UnitsFinite
<1>6. UnitsOf(item, Promised(t))' = UnitsOf(item', Promised(t)')
    BY DEF UnitsOf
<1> QED BY <1>3, <1>4, <1>5, <1>6

LEMMA CapacityKept ==
    ASSUME OneEditor
    PROVE  TypeOK /\ EditCurrent /\ NeverOversold /\ [Next]_vars => NeverOversold'
<1> SUFFICES ASSUME TypeOK, EditCurrent, NeverOversold, [Next]_vars PROVE NeverOversold'
    OBVIOUS
<1>1. TypeOK' /\ capacity \in Nat /\ capacity' \in Nat
  <2>1. TypeOK'
      BY TypesKept
  <2> QED BY <2>1, BoundsAssumption DEF TypeOK
<1>2. SUFFICES ASSUME NEW t \in Times
               PROVE  Cardinality(UnitsOf(item, Promised(t)))' <= capacity'
    BY DEF NeverOversold
<1>3. ASSUME Marked, \A s \in Sales : canceled[s] => canceled'[s]
      PROVE  /\ Promised(t)' \subseteq Promised(t)
             /\ \A i \in Promised(t)' : item'[i].quantity = item[i].quantity
  <2>1. \A i \in Items : canceled[i[1]] => canceled'[i[1]]
      BY <1>3 DEF Items
  <2>2. TypeOK'
      BY <1>1
  <2>3. \A i \in Items : ~item'[i].returned => ~item[i].returned
      BY <1>3 DEF Marked
  <2> QED BY <1>3, <2>1, <2>3 DEF Promised, Marked
<1>4. CASE Others
  <2>1. \A s \in Sales : canceled[s] => canceled'[s]
      BY <1>4 DEF Others, Tick, UpdateRead, UpdateCommit, ReceiveCheck, ReceiveCommit,
                  returnRental, EditRead, EditCommit, TypeOK
  <2>2. Marked
      BY <1>4, ItemsMarked
  <2>3. CASE UNCHANGED capacity
      BY <1>1, <1>3, <2>1, <2>2, <2>3, PromisedFades
  <2>4. ASSUME NEW h \in Editors, EditCommit(h)
        PROVE  Cardinality(UnitsOf(item, Promised(t)))' <= capacity'
    <3>1. op[h].read = capacity /\ op[h].count \in Nat
        BY <2>4, CallTypes, BoundsAssumption DEF EditCurrent, EditCommit, Handlers
    <3>2. CASE capacity' >= capacity
        BY <1>1, <1>3, <2>1, <2>2, <3>2, PromisedFades
    <3>3. CASE CommittedIn(item) = {}
      <4>1. Promised(t) = {}
          BY <3>3 DEF Promised, CommittedIn, GivenUp
      <4>2. Promised(t)' = {}
          BY <1>3, <2>1, <2>2, <4>1
      <4>3. UnitsOf(item, Promised(t))' = {}
          BY <4>2 DEF UnitsOf
      <4> QED BY <1>1, <4>3, FS_EmptySet
    <3>4. capacity' >= capacity \/ CommittedIn(item) = {}
        BY <1>1, <2>4, <3>1 DEF EditCommit, Reducible
    <3> QED BY <3>2, <3>3, <3>4
  <2> QED BY <1>4, <2>3, <2>4 DEF Others, Tick, UpdateRead, UpdateCommit, ReceiveCheck,
                                  ReceiveCommit, returnRental, EditRead
<1>5. ASSUME NEW s \in Sales, NEW o \in Orders, Reserve(s, o[1], o[2])
      PROVE  Cardinality(UnitsOf(item, Promised(t)))' <= capacity'
  <2>1. UNCHANGED <<now, capacity, canceled>>
      BY <1>5 DEF Reserve, Place
  <2>2. /\ item'[<<s, 1>>] = Booked(o[1]) /\ item'[<<s, 2>>] = Booked(o[2])
        /\ \A j \in Items \ {<<s, 1>>} : AfterFirst(s, o[1])[j] = item[j]
        /\ \A j \in Items \ {<<s, 2>>} : item'[j] = AfterFirst(s, o[1])[j]
      BY <1>5, PlaceTypes DEF Reserve
  <2>3. \A j \in Items : j # <<s, 1>> /\ j # <<s, 2>> => item'[j] = item[j]
      BY <2>2
  <2>4. o[1] \in Line /\ o[2] \in Line
      BY LineTypes
  <2>5. CASE Within(o[1], t) \/ (o[2] # NoLine /\ Within(o[2], t))
    <3>1. /\ Cardinality(UnitsOf(item', OutAt(item', t))) \in Nat
          /\ Cardinality(UnitsOf(item', OutAt(item', t))) <= capacity
        BY <1>5, <2>5, ReservedFits
    <3>2. Promised(t)' \subseteq OutAt(item', t)
        BY <2>1 DEF Promised, OutAt, CommittedIn, GivenUp, Covers
    <3>3. OutAt(item', t) \subseteq Items /\ IsFiniteSet(OutAt(item', t))
        BY ItemsFinite, FS_Subset DEF OutAt, CommittedIn
    <3>4. \A j \in OutAt(item', t) : item'[j].quantity \in Nat
        BY <1>1, <3>3 DEF TypeOK, Booking
    <3>5. /\ Cardinality(UnitsOf(item', Promised(t)')) \in Nat
          /\ Cardinality(UnitsOf(item', Promised(t)')) <= Cardinality(UnitsOf(item', OutAt(item', t)))
        BY <3>2, <3>3, <3>4, UnitsFewer
    <3>6. UnitsOf(item, Promised(t))' = UnitsOf(item', Promised(t)')
        BY DEF UnitsOf
    <3> QED BY <1>1, <2>1, <3>1, <3>5, <3>6
  <2>6. CASE ~(Within(o[1], t) \/ (o[2] # NoLine /\ Within(o[2], t)))
    <3>1. <<s, 1>> \notin Promised(t)'
        BY <2>2, <2>4, <2>6, BookedTypes DEF Promised, Within
    <3>2. <<s, 2>> \notin Promised(t)'
        BY <2>2, <2>4, <2>6, BookedTypes DEF Promised, Within, NoLine
    <3>3. /\ Promised(t)' \subseteq Promised(t)
          /\ \A i \in Promised(t)' : item'[i].quantity = item[i].quantity
        BY <2>1, <2>3, <3>1, <3>2 DEF Promised
    <3> QED BY <1>1, <2>1, <3>3, PromisedFades
  <2> QED BY <2>5, <2>6
<1>6. CASE UNCHANGED vars
  <2>1. /\ Promised(t)' \subseteq Promised(t)
        /\ \A i \in Promised(t)' : item'[i].quantity = item[i].quantity
      BY <1>6 DEF vars, Promised
  <2> QED BY <1>1, <1>6, <2>1, PromisedFades DEF vars
<1> QED BY <1>4, <1>5, <1>6 DEF Next

\* With one product edit at a time, no instant is ever promised to more units
\* than the product has.
THEOREM neverOversold ==
    ASSUME OneEditor
    PROVE  Spec => []NeverOversold
<1>1. Init => CapacityInv
  <2> SUFFICES ASSUME Init PROVE CapacityInv
      OBVIOUS
  <2>1. TypeOK
      BY InitTypes
  <2>2. EditCurrent
      BY DEF Init, EditCurrent, Idle, Handlers
  <2>3. ASSUME NEW t \in Times PROVE Cardinality(UnitsOf(item, Promised(t))) <= capacity
    <3>1. Promised(t) = {}
        BY DEF Init, Promised, NoBooking, Booked, NoLine
    <3>2. UnitsOf(item, Promised(t)) = {}
        BY <3>1 DEF UnitsOf
    <3> QED BY <2>1, <3>2, FS_EmptySet, BoundsAssumption DEF TypeOK
  <2> QED BY <2>1, <2>2, <2>3 DEF CapacityInv, NeverOversold
<1>2. CapacityInv /\ [Next]_vars => CapacityInv'
    BY TypesKept, EditsCurrent, CapacityKept DEF CapacityInv
<1>3. CapacityInv => NeverOversold
    BY DEF CapacityInv
<1> QED BY <1>1, <1>2, <1>3, PTL DEF Spec
-----------------------------------------------------------------------------
(* Greatest and least                                                      *)

LessOnNat == {p \in Nat \X Nat : p[1] < p[2]}

LEMMA LeastOf ==
    ASSUME NEW S \in SUBSET Nat, S # {}
    PROVE  \E m \in S : \A k \in S : m <= k
<1>1. LessOnNat = OpToRel(<, Nat)
    BY DEF LessOnNat, OpToRel
<1>2. IsWellFoundedOn(LessOnNat, Nat)
    BY <1>1, NatLessThanWellFounded
<1>3. PICK m \in S : \A k \in S : <<k, m>> \notin LessOnNat
    BY <1>2, WFMin
<1>4. ASSUME NEW k \in S PROVE m <= k
  <2>1. ~(k < m)
      BY <1>3 DEF LessOnNat
  <2> QED BY <2>1
<1> QED BY <1>4

\* Integers under a bound have a greatest one, which is what Max picks.
LEMMA GreatestOf ==
    ASSUME NEW S \in SUBSET Int, S # {}, NEW b \in Int, \A x \in S : x <= b
    PROVE  \E x \in S : \A y \in S : y <= x
<1> DEFINE below == {n \in Nat : \E x \in S : n = b - x}
<1>1. below # {}
  <2>1. PICK x \in S : TRUE
      OBVIOUS
  <2>2. b - x \in Nat
      OBVIOUS
  <2> QED BY <2>1, <2>2
<1>2. PICK m \in below : \A k \in below : m <= k
    BY <1>1, LeastOf
<1>3. PICK x \in S : m = b - x
    BY <1>2
<1>4. ASSUME NEW y \in S PROVE y <= x
  <2>1. b - y \in below
      OBVIOUS
  <2>2. b - x <= b - y
      BY <1>2, <1>3, <2>1
  <2> QED BY <2>2
<1> QED BY <1>4

LEMMA MaxOf ==
    ASSUME NEW S \in SUBSET Int, S # {}, NEW b \in Int, \A x \in S : x <= b
    PROVE  F!Max(S) \in S /\ \A x \in S : x <= F!Max(S)
<1>1. PICK x \in S : \A y \in S : y <= x
    BY GreatestOf
<1>2. \A y \in S : x >= y
    BY <1>1
<1>3. F!Max(S) \in S /\ \A y \in S : F!Max(S) >= y
    BY <1>2 DEF F!Max
<1> QED BY <1>3

LEMMA MaxOfTwo ==
    ASSUME NEW a \in Int, NEW b \in Int
    PROVE  F!Max({a, b}) = IF a >= b THEN a ELSE b
<1>1. PICK m \in {a, b} : m = F!Max({a, b}) /\ \A y \in {a, b} : m >= y
  <2>1. \E m \in {a, b} : \A y \in {a, b} : m >= y
      OBVIOUS
  <2> QED BY <2>1 DEF F!Max
<1> QED BY <1>1

LEMMA MinOfTwo ==
    ASSUME NEW a \in Int, NEW b \in Int
    PROVE  F!Min({a, b}) = IF a <= b THEN a ELSE b
<1>1. PICK m \in {a, b} : m = F!Min({a, b}) /\ \A y \in {a, b} : m <= y
  <2>1. \E m \in {a, b} : \A y \in {a, b} : m <= y
      OBVIOUS
  <2> QED BY <2>1 DEF F!Min
<1> QED BY <1>1

\* Two sets whose elements are each under one of the other have one maximum.
LEMMA SameMax ==
    ASSUME NEW S \in SUBSET Int, S # {}, NEW T \in SUBSET Int, T # {}, NEW b \in Int,
           \A x \in S : x <= b, \A y \in T : y <= b,
           \A x \in S : \E y \in T : x <= y,
           \A y \in T : \E x \in S : y <= x
    PROVE  F!Max(S) = F!Max(T)
<1>1. F!Max(S) \in S /\ \A x \in S : x <= F!Max(S)
    BY MaxOf
<1>2. F!Max(T) \in T /\ \A y \in T : y <= F!Max(T)
    BY MaxOf
<1>3. PICK y \in T : F!Max(S) <= y
    BY <1>1
<1>4. PICK x \in S : F!Max(T) <= x
    BY <1>2
<1>5. F!Max(S) \in Int /\ F!Max(T) \in Int /\ x \in Int /\ y \in Int
    BY <1>1, <1>2
<1>6. F!Max(S) <= F!Max(T) /\ F!Max(T) <= F!Max(S)
    BY <1>1, <1>2, <1>3, <1>4, <1>5
<1> QED BY <1>5, <1>6

-----------------------------------------------------------------------------
(* The sweep                                                               *)

\* The rows and the period of a capacity test.
Asked(rows, from, to) ==
    /\ rows \in [Items -> Booking] /\ now \in Times
    /\ from \in Times /\ to \in Times /\ from < to

StartOf(rows, from, i) == [at |-> From(rows[i], from), change |-> rows[i].quantity, of |-> i]
EndOf(rows, to, i) == [at |-> Until(rows[i], to), change |-> -rows[i].quantity, of |-> i]
Falls(rows, from, to) == {i \in Selected(rows, from, to) : From(rows[i], from) < Until(rows[i], to)}

\* The lines that have started and not ended, after an event.
Running(rows, from, to, e) ==
    {i \in Falls(rows, from, to) : ~Before(e, StartOf(rows, from, i)) /\ Before(e, EndOf(rows, to, i))}

LEMMA EndsOf ==
    ASSUME NEW rows, NEW from, NEW to, Asked(rows, from, to), NEW i \in Items
    PROVE  /\ From(rows[i], from) = IF from >= rows[i].start THEN from ELSE rows[i].start
           /\ Until(rows[i], to) = IF Overdue(rows[i]) \/ to <= rows[i].end THEN to ELSE rows[i].end
           /\ From(rows[i], from) \in Int /\ Until(rows[i], to) \in Int
           /\ rows[i].quantity \in Nat
           /\ rows[i].start \in Int /\ rows[i].end \in Int /\ from \in Int /\ to \in Int
<1>1. rows[i] \in Booking
    BY DEF Asked
<1>2. /\ rows[i].start \in Int /\ rows[i].end \in Int /\ from \in Int /\ to \in Int
      /\ rows[i].quantity \in Nat
    BY <1>1, BoundsAssumption DEF Booking, Times, Asked
<1>3. From(rows[i], from) = IF from >= rows[i].start THEN from ELSE rows[i].start
    BY <1>2, MaxOfTwo DEF From
<1>4. Until(rows[i], to) = IF Overdue(rows[i]) \/ to <= rows[i].end THEN to ELSE rows[i].end
    BY <1>2, MinOfTwo DEF Until, Overdue
<1> QED BY <1>2, <1>3, <1>4

\* The lines in use at an instant of the period are those the query selects, at
\* an instant of what of them falls into it.
LEMMA InUseFalls ==
    ASSUME NEW rows, NEW from, NEW to, Asked(rows, from, to),
           NEW t \in Int, from <= t, t < to, NEW i \in Items
    PROVE  i \in OutAt(rows, t) <=> /\ i \in Falls(rows, from, to)
                                   /\ From(rows[i], from) <= t /\ t < Until(rows[i], to)
<1> USE EndsOf
<1>1. ASSUME i \in OutAt(rows, t)
      PROVE  /\ i \in Falls(rows, from, to)
             /\ From(rows[i], from) <= t /\ t < Until(rows[i], to)
  <2>1. From(rows[i], from) <= t /\ t < Until(rows[i], to)
      BY <1>1 DEF OutAt, Covers
  <2>2. i \in Selected(rows, from, to)
      BY <1>1 DEF OutAt, CommittedIn, GivenUp, Covers, Overdue, Selected
  <2> QED BY <2>1, <2>2 DEF Falls
<1>2. ASSUME i \in Falls(rows, from, to), From(rows[i], from) <= t, t < Until(rows[i], to)
      PROVE  i \in OutAt(rows, t)
  <2>1. i \in CommittedIn(rows)
      BY <1>2 DEF Falls, Selected, CommittedIn, GivenUp
  <2>2. Covers(rows[i], t)
      BY <1>2 DEF Covers
  <2> QED BY <2>1, <2>2 DEF OutAt
<1> QED BY <1>1, <1>2

LEMMA EventsAre ==
    ASSUME NEW rows, NEW from, NEW to, NEW e
    PROVE  e \in Events(rows, from, to) <=>
               \E i \in Falls(rows, from, to) : e = StartOf(rows, from, i) \/ e = EndOf(rows, to, i)
BY DEF Events, Falls, StartOf, EndOf, Selected

LEMMA FallsTypes ==
    ASSUME NEW rows, NEW from, NEW to, Asked(rows, from, to), NEW i \in Falls(rows, from, to)
    PROVE  /\ i \in Items /\ rows[i].quantity \in Nat /\ rows[i].quantity > 0
           /\ From(rows[i], from) \in Int /\ Until(rows[i], to) \in Int
           /\ from <= From(rows[i], from) /\ From(rows[i], from) < Until(rows[i], to)
           /\ Until(rows[i], to) <= to
<1>1. i \in Items /\ rows[i].quantity > 0 /\ From(rows[i], from) < Until(rows[i], to)
    BY DEF Falls, Selected
<1> QED BY <1>1, EndsOf

\* Any lines' units are finitely many, and fewer than all the lines'.
LEMMA LinesUnits ==
    ASSUME NEW rows \in [Items -> Booking], NEW T \in SUBSET Items, NEW S \in SUBSET T
    PROVE  /\ IsFiniteSet(UnitsOf(rows, T))
           /\ Cardinality(UnitsOf(rows, S)) \in Nat /\ Cardinality(UnitsOf(rows, T)) \in Nat
           /\ Cardinality(UnitsOf(rows, S)) <= Cardinality(UnitsOf(rows, T))
<1>1. IsFiniteSet(T)
    BY ItemsFinite, FS_Subset
<1>2. \A i \in T : rows[i].quantity \in Nat
    BY DEF Booking
<1> QED BY <1>1, <1>2, UnitsFinite, UnitsFewer

\* The running count is the units of the lines that run.
LEMMA UsedIsRunning ==
    ASSUME NEW rows, NEW from, NEW to, Asked(rows, from, to), NEW e \in Events(rows, from, to)
    PROVE  Used(Events(rows, from, to), e) = Cardinality(UnitsOf(rows, Running(rows, from, to, e)))
<1> DEFINE falls == Falls(rows, from, to)
           events == Events(rows, from, to)
           started == {i \in falls : ~Before(e, StartOf(rows, from, i))}
           ended == {i \in falls : ~Before(e, EndOf(rows, to, i))}
<1>1. e.at \in Int /\ e.change \in Int
    BY EventsAre, FallsTypes DEF StartOf, EndOf
<1>2. Gained(UpTo(events, e)) = UnitsOf(rows, started)
  <2>1. ASSUME NEW u \in Gained(UpTo(events, e)) PROVE u \in UnitsOf(rows, started)
    <3>1. PICK f \in UpTo(events, e) : u \in {f.of} \X (1 .. f.change)
        BY <2>1 DEF Gained
    <3>2. PICK i \in falls : f = StartOf(rows, from, i) \/ f = EndOf(rows, to, i)
        BY <3>1, EventsAre DEF UpTo
    <3>3. f.change > 0
        BY <3>1, <3>2, FallsTypes DEF StartOf, EndOf
    <3>4. f = StartOf(rows, from, i)
        BY <3>2, <3>3, FallsTypes DEF EndOf
    <3>5. i \in started /\ u \in {i} \X (1 .. rows[i].quantity)
        BY <3>1, <3>4 DEF UpTo, StartOf
    <3> QED BY <3>5 DEF UnitsOf
  <2>2. ASSUME NEW u \in UnitsOf(rows, started) PROVE u \in Gained(UpTo(events, e))
    <3>1. PICK i \in started : u \in {i} \X (1 .. rows[i].quantity)
        BY <2>2 DEF UnitsOf
    <3>2. StartOf(rows, from, i) \in UpTo(events, e)
        BY <3>1, EventsAre DEF UpTo
    <3>3. u \in {StartOf(rows, from, i).of} \X (1 .. StartOf(rows, from, i).change)
        BY <3>1 DEF StartOf
    <3> QED BY <3>2, <3>3 DEF Gained
  <2> QED BY <2>1, <2>2
<1>3. Lost(UpTo(events, e)) = UnitsOf(rows, ended)
  <2>1. ASSUME NEW u \in Lost(UpTo(events, e)) PROVE u \in UnitsOf(rows, ended)
    <3>1. PICK f \in UpTo(events, e) : u \in {f.of} \X (1 .. -f.change)
        BY <2>1 DEF Lost
    <3>2. PICK i \in falls : f = StartOf(rows, from, i) \/ f = EndOf(rows, to, i)
        BY <3>1, EventsAre DEF UpTo
    <3>3. -f.change > 0
        BY <3>1, <3>2, FallsTypes DEF StartOf, EndOf
    <3>4. f = EndOf(rows, to, i)
        BY <3>2, <3>3, FallsTypes DEF StartOf
    <3>5. -(-rows[i].quantity) = rows[i].quantity
        BY <3>2, FallsTypes
    <3>6. i \in ended /\ u \in {i} \X (1 .. rows[i].quantity)
        BY <3>1, <3>4, <3>5 DEF UpTo, EndOf
    <3> QED BY <3>6 DEF UnitsOf
  <2>2. ASSUME NEW u \in UnitsOf(rows, ended) PROVE u \in Lost(UpTo(events, e))
    <3>1. PICK i \in ended : u \in {i} \X (1 .. rows[i].quantity)
        BY <2>2 DEF UnitsOf
    <3>2. EndOf(rows, to, i) \in UpTo(events, e)
        BY <3>1, EventsAre DEF UpTo
    <3>3. -(-rows[i].quantity) = rows[i].quantity
        BY <3>1, FallsTypes
    <3>4. u \in {EndOf(rows, to, i).of} \X (1 .. -EndOf(rows, to, i).change)
        BY <3>1, <3>3 DEF EndOf
    <3> QED BY <3>2, <3>4 DEF Lost
  <2> QED BY <2>1, <2>2
<1>4. ended \subseteq started /\ started \subseteq Items
  <2>1. ASSUME NEW i \in falls, ~Before(e, EndOf(rows, to, i))
        PROVE  ~Before(e, StartOf(rows, from, i))
      BY <1>1, <2>1, FallsTypes DEF Before, StartOf, EndOf
  <2> QED BY <2>1, FallsTypes
<1>5. Running(rows, from, to, e) = started \ ended
    BY DEF Running
<1>6. /\ UnitsOf(rows, started \ ended) = UnitsOf(rows, started) \ UnitsOf(rows, ended)
      /\ UnitsOf(rows, started) \cap UnitsOf(rows, ended) = UnitsOf(rows, ended)
    BY <1>4 DEF UnitsOf
<1>7. IsFiniteSet(UnitsOf(rows, started))
    BY <1>4, LinesUnits DEF Asked
<1>8. Cardinality(UnitsOf(rows, started) \ UnitsOf(rows, ended))
          = Cardinality(UnitsOf(rows, started)) - Cardinality(UnitsOf(rows, ended))
    BY <1>6, <1>7, FS_Difference
<1> QED BY <1>2, <1>3, <1>5, <1>6, <1>8 DEF Used

\* At some instant of the period every line that runs after an event is in use:
\* at the event if it is a start, the instant before it if it is an end.
LEMMA UsedBelow ==
    ASSUME NEW rows, NEW from, NEW to, Asked(rows, from, to), NEW e \in Events(rows, from, to)
    PROVE  \E t \in from .. (to - 1) : Running(rows, from, to, e) \subseteq OutAt(rows, t)
<1>1. PICK i \in Falls(rows, from, to) : e = StartOf(rows, from, i) \/ e = EndOf(rows, to, i)
    BY EventsAre
<1>2. /\ rows[i].quantity \in Nat /\ rows[i].quantity > 0
      /\ From(rows[i], from) \in Int /\ Until(rows[i], to) \in Int
      /\ from <= From(rows[i], from) /\ From(rows[i], from) < Until(rows[i], to)
      /\ Until(rows[i], to) <= to
    BY FallsTypes
<1>3. from \in Int /\ to \in Int
    BY BoundsAssumption DEF Asked, Times
<1>4. ASSUME NEW t \in Int, from <= t, t < to,
             \A j \in Running(rows, from, to, e) : From(rows[j], from) <= t /\ t < Until(rows[j], to)
      PROVE  Running(rows, from, to, e) \subseteq OutAt(rows, t)
  <2>1. \A j \in Running(rows, from, to, e) : j \in Falls(rows, from, to) /\ j \in Items
      BY FallsTypes DEF Running
  <2> QED BY <1>4, <2>1, InUseFalls
<1>5. CASE e = StartOf(rows, from, i)
  <2>1. e.at = From(rows[i], from) /\ e.change > 0 /\ e.at \in Int /\ e.change \in Int
      BY <1>2, <1>5 DEF StartOf
  <2>2. ASSUME NEW j \in Running(rows, from, to, e)
        PROVE  From(rows[j], from) <= e.at /\ e.at < Until(rows[j], to)
    <3>1. /\ From(rows[j], from) \in Int /\ Until(rows[j], to) \in Int
          /\ rows[j].quantity \in Nat /\ rows[j].quantity > 0
        BY FallsTypes DEF Running
    <3> QED BY <2>1, <3>1 DEF Running, Before, StartOf, EndOf
  <2>3. Running(rows, from, to, e) \subseteq OutAt(rows, e.at)
      BY <1>2, <1>3, <1>4, <2>1, <2>2
  <2> QED BY <1>2, <1>3, <2>1, <2>3
<1>6. CASE e = EndOf(rows, to, i)
  <2>1. e.at = Until(rows[i], to) /\ e.change < 0 /\ e.at \in Int /\ e.change \in Int
      BY <1>2, <1>6 DEF EndOf
  <2>2. ASSUME NEW j \in Running(rows, from, to, e)
        PROVE  From(rows[j], from) <= e.at - 1 /\ e.at - 1 < Until(rows[j], to)
    <3>1. /\ From(rows[j], from) \in Int /\ Until(rows[j], to) \in Int
          /\ rows[j].quantity \in Nat /\ rows[j].quantity > 0
        BY FallsTypes DEF Running
    <3> QED BY <2>1, <3>1 DEF Running, Before, StartOf, EndOf
  <2>3. Running(rows, from, to, e) \subseteq OutAt(rows, e.at - 1)
      BY <1>2, <1>3, <1>4, <2>1, <2>2
  <2> QED BY <1>2, <1>3, <2>1, <2>3
<1> QED BY <1>1, <1>5, <1>6

\* After the last start that an instant has behind it, every line in use at the
\* instant runs.
LEMMA UsedAbove ==
    ASSUME NEW rows, NEW from, NEW to, Asked(rows, from, to),
           NEW t \in from .. (to - 1), OutAt(rows, t) # {}
    PROVE  \E e \in Events(rows, from, to) : OutAt(rows, t) \subseteq Running(rows, from, to, e)
<1> DEFINE falls == Falls(rows, from, to)
           behind == {i \in falls : From(rows[i], from) <= t}
           latest == {i \in behind : \A j \in behind : From(rows[j], from) <= From(rows[i], from)}
<1>1. from \in Int /\ to \in Int /\ t \in Int /\ from <= t /\ t < to
    BY BoundsAssumption DEF Asked, Times
<1>2. \A i \in OutAt(rows, t) : i \in Items /\ i \in falls /\ From(rows[i], from) <= t /\ t < Until(rows[i], to)
    BY <1>1, InUseFalls DEF OutAt, CommittedIn
<1>3. \A i \in falls : /\ i \in Items /\ From(rows[i], from) \in Int /\ Until(rows[i], to) \in Int
                       /\ rows[i].quantity \in Nat /\ rows[i].quantity > 0
    BY FallsTypes
<1>4. latest # {}
  <2> DEFINE times == {From(rows[i], from) : i \in behind}
  <2>1. times \in SUBSET Int /\ times # {} /\ \A x \in times : x <= t
      BY <1>2, <1>3
  <2> HIDE DEF times
  <2>2. PICK x \in times : \A y \in times : y <= x
      BY <1>1, <2>1, GreatestOf
  <2>3. PICK i \in behind : x = From(rows[i], from)
      BY <2>2 DEF times
  <2>4. \A j \in behind : From(rows[j], from) <= From(rows[i], from)
      BY <2>2, <2>3 DEF times
  <2> QED BY <2>4
<1>5. PICK i \in latest : \A j \in latest : rows[j].quantity <= rows[i].quantity
  <2> DEFINE counts == {rows[j].quantity : j \in latest}
             all == Cardinality(UnitsOf(rows, Items))
  <2>1. all \in Int
      BY LinesUnits DEF Asked
  <2>2. ASSUME NEW j \in latest PROVE rows[j].quantity <= all
    <3>1. j \in Items /\ rows[j].quantity \in Nat
        BY <1>3
    <3>2. UnitsOf(rows, {j}) = {j} \X (1 .. rows[j].quantity)
        BY DEF UnitsOf
    <3>3. Cardinality({j} \X (1 .. rows[j].quantity)) = rows[j].quantity
        BY <3>1, OwnUnits
    <3>4. \A T \in SUBSET Items : \A S \in SUBSET T :
              Cardinality(UnitsOf(rows, S)) <= Cardinality(UnitsOf(rows, T))
        BY LinesUnits DEF Asked
    <3>5. Items \in SUBSET Items /\ {j} \in SUBSET Items
        BY <3>1
    <3>6. Cardinality(UnitsOf(rows, {j})) <= Cardinality(UnitsOf(rows, Items))
        BY <3>4, <3>5
    <3>7. Cardinality(UnitsOf(rows, {j})) = rows[j].quantity
        BY <3>2, <3>3
    <3> QED BY <3>6, <3>7
  <2>3. counts \in SUBSET Int /\ counts # {} /\ \A x \in counts : x <= all
      BY <1>3, <1>4, <2>2
  <2> HIDE DEF counts, all
  <2>4. PICK x \in counts : \A y \in counts : y <= x
      BY <2>1, <2>3, GreatestOf
  <2>5. PICK j \in latest : x = rows[j].quantity
      BY <2>4 DEF counts
  <2>6. \A k \in latest : rows[k].quantity <= rows[j].quantity
      BY <2>4, <2>5 DEF counts
  <2> QED BY <2>5, <2>6
<1> DEFINE e == StartOf(rows, from, i)
<1>6. e \in Events(rows, from, to) /\ e.at = From(rows[i], from) /\ e.change = rows[i].quantity
    BY <1>5, EventsAre DEF StartOf
<1>7. ASSUME NEW j \in OutAt(rows, t) PROVE j \in Running(rows, from, to, e)
  <2>1. j \in behind /\ j \in falls /\ t < Until(rows[j], to)
      BY <1>2
  <2>2. From(rows[j], from) <= From(rows[i], from) /\ From(rows[i], from) <= t
      BY <1>5, <2>1
  <2>3. From(rows[j], from) = From(rows[i], from) => rows[j].quantity <= rows[i].quantity
      BY <1>5, <2>1
  <2>4. ~Before(e, StartOf(rows, from, j))
      BY <1>3, <1>5, <1>6, <2>1, <2>2, <2>3 DEF Before, StartOf
  <2>5. Before(e, EndOf(rows, to, j))
      BY <1>1, <1>3, <1>5, <1>6, <2>1, <2>2 DEF Before, EndOf
  <2> QED BY <2>1, <2>4, <2>5 DEF Running
<1> QED BY <1>6, <1>7

\* The highest count of the sweep is the most units in use at an instant.
MostUsed(rows, from, to) == F!Max({0} \cup {InUse(rows, t) : t \in from .. (to - 1)})

LEMMA PeakIsMost ==
    ASSUME NEW rows, NEW from, NEW to, Asked(rows, from, to)
    PROVE  /\ Peak(Events(rows, from, to)) = MostUsed(rows, from, to)
           /\ MostUsed(rows, from, to) \in Nat
           /\ \A t \in from .. (to - 1) : InUse(rows, t) <= MostUsed(rows, from, to)
           /\ \/ MostUsed(rows, from, to) = 0
              \/ \E t \in from .. (to - 1) : MostUsed(rows, from, to) = InUse(rows, t)
<1> DEFINE events == Events(rows, from, to)
           counts == {0} \cup {Used(events, e) : e \in events}
           uses == {0} \cup {InUse(rows, t) : t \in from .. (to - 1)}
           all == Cardinality(UnitsOf(rows, Items))
<1>1. /\ all \in Nat
      /\ \A T \in SUBSET Items : \A S \in SUBSET T :
             /\ Cardinality(UnitsOf(rows, S)) \in Nat
             /\ Cardinality(UnitsOf(rows, S)) <= Cardinality(UnitsOf(rows, T))
    BY LinesUnits DEF Asked
<1>2. \A t : OutAt(rows, t) \in SUBSET Items
    BY DEF OutAt, CommittedIn
<1>3. ASSUME NEW e \in events
      PROVE  /\ Running(rows, from, to, e) \in SUBSET Items
             /\ Used(events, e) = Cardinality(UnitsOf(rows, Running(rows, from, to, e)))
  <2>1. Running(rows, from, to, e) \in SUBSET Items
      BY FallsTypes DEF Running
  <2> QED BY <2>1, UsedIsRunning
<1>4. ASSUME NEW x \in counts PROVE x \in Nat /\ x <= all /\ \E y \in uses : x <= y
  <2>1. CASE x = 0
      BY <1>1, <2>1
  <2>2. ASSUME NEW e \in events, x = Used(events, e)
        PROVE  x \in Nat /\ x <= all /\ \E y \in uses : x <= y
    <3>1. PICK t \in from .. (to - 1) : Running(rows, from, to, e) \subseteq OutAt(rows, t)
        BY <2>2, UsedBelow
    <3>2. x \in Nat /\ x <= all
        BY <1>1, <1>3, <2>2
    <3>3. x <= InUse(rows, t)
        BY <1>1, <1>2, <1>3, <2>2, <3>1 DEF InUse
    <3> QED BY <3>2, <3>3
  <2> QED BY <2>1, <2>2
<1>5. ASSUME NEW y \in uses PROVE y \in Nat /\ y <= all /\ \E x \in counts : y <= x
  <2>1. CASE y = 0
      BY <1>1, <2>1
  <2>2. ASSUME NEW t \in from .. (to - 1), y = InUse(rows, t)
        PROVE  y \in Nat /\ y <= all /\ \E x \in counts : y <= x
    <3>1. y \in Nat /\ y <= all
        BY <1>1, <1>2, <2>2 DEF InUse
    <3>2. CASE OutAt(rows, t) = {}
      <4>1. y = 0
          BY <2>2, <3>2, FS_EmptySet DEF InUse, UnitsOf
      <4> QED BY <1>1, <4>1
    <3>3. CASE OutAt(rows, t) # {}
      <4>1. PICK e \in events : OutAt(rows, t) \subseteq Running(rows, from, to, e)
          BY <3>3, UsedAbove
      <4>2. y <= Used(events, e)
          BY <1>1, <1>3, <2>2, <4>1 DEF InUse
      <4> QED BY <3>1, <4>2
    <3> QED BY <3>2, <3>3
  <2> QED BY <2>1, <2>2
<1>6. Peak(events) = F!Max(counts) /\ MostUsed(rows, from, to) = F!Max(uses)
    BY DEF Peak, MostUsed
<1>7. counts # {} /\ uses # {} /\ 0 \in uses /\ \A t \in from .. (to - 1) : InUse(rows, t) \in uses
    OBVIOUS
<1>8. \A x \in uses : x = 0 \/ \E t \in from .. (to - 1) : x = InUse(rows, t)
    OBVIOUS
<1> HIDE DEF counts, uses, all
<1>9. counts \in SUBSET Int /\ uses \in SUBSET Int /\ all \in Int
    BY <1>1, <1>4, <1>5
<1>10. F!Max(counts) = F!Max(uses)
    BY <1>4, <1>5, <1>7, <1>9, SameMax
<1>11. F!Max(uses) \in uses /\ \A x \in uses : x <= F!Max(uses)
    BY <1>5, <1>7, <1>9, MaxOf
<1> QED BY <1>5, <1>6, <1>7, <1>8, <1>10, <1>11

LEMMA RemainingIs ==
    ASSUME NEW rows, NEW from, NEW to, Asked(rows, from, to), capacity \in Nat
    PROVE  remainingRentalCapacity(rows, from, to)
               = IF capacity >= MostUsed(rows, from, to) THEN capacity - MostUsed(rows, from, to) ELSE 0
<1>1. MostUsed(rows, from, to) \in Nat /\ Peak(Events(rows, from, to)) = MostUsed(rows, from, to)
    BY PeakIsMost
<1>2. F!Max({0, capacity - MostUsed(rows, from, to)})
          = IF 0 >= capacity - MostUsed(rows, from, to) THEN 0 ELSE capacity - MostUsed(rows, from, to)
    BY <1>1, MaxOfTwo
<1> QED BY <1>1, <1>2 DEF remainingRentalCapacity

\* The test of the code is the test of the promise.
LEMMA AvailableIffFits ==
    ASSUME TypeOK, NEW rows \in [Items -> Booking], NEW line, IsRequested(line)
    PROVE  Available(rows, line) <=> Fits(rows, line)
<1> DEFINE most == MostUsed(rows, line.start, line.end)
<1>1. /\ line.start \in Times /\ line.end \in Times /\ line.start < line.end
      /\ line.quantity \in Nat /\ line.quantity > 0
    BY DEF IsRequested, Line, rentalPeriod
<1>2. line.start \in Nat /\ line.end \in Nat /\ capacity \in Nat /\ Horizon \in Nat
    BY <1>1, BoundsAssumption DEF Times, TypeOK
<1>3. Asked(rows, line.start, line.end)
    BY <1>1 DEF Asked, TypeOK
<1>4. /\ most \in Nat
      /\ \A t \in line.start .. (line.end - 1) : InUse(rows, t) <= most
      /\ most = 0 \/ \E t \in line.start .. (line.end - 1) : most = InUse(rows, t)
    BY <1>3, PeakIsMost
<1>5. \A t : InUse(rows, t) \in Nat
  <2>1. \A t : OutAt(rows, t) \in SUBSET Items
      BY DEF OutAt, CommittedIn
  <2> QED BY <2>1, LinesUnits DEF InUse
<1>6. \A t \in line.start .. (line.end - 1) : t \in Times /\ line.start <= t /\ t < line.end
    BY <1>1, <1>2 DEF Times
<1>7. \A t \in Times : line.start <= t /\ t < line.end => t \in line.start .. (line.end - 1)
    BY <1>2 DEF Times
<1>8. Available(rows, line) <=> line.quantity + most <= capacity
  <2>1. remainingRentalCapacity(rows, line.start, line.end)
            = IF capacity >= most THEN capacity - most ELSE 0
      BY <1>2, <1>3, RemainingIs
  <2> HIDE DEF most
  <2> QED BY <1>1, <1>2, <1>4, <2>1 DEF Available
<1> HIDE DEF most
<1>9. line.quantity + most <= capacity => Fits(rows, line)
    BY <1>1, <1>2, <1>4, <1>5, <1>7 DEF Fits
<1>10. Fits(rows, line) => line.quantity + most <= capacity
  <2> SUFFICES ASSUME Fits(rows, line) PROVE line.quantity + most <= capacity
      OBVIOUS
  <2>1. \A t \in line.start .. (line.end - 1) : InUse(rows, t) + line.quantity <= capacity
      BY <1>6 DEF Fits
  <2>2. line.start \in line.start .. (line.end - 1)
      BY <1>1, <1>2
  <2>3. line.quantity <= capacity
      BY <1>1, <1>2, <1>5, <2>1, <2>2
  <2> QED BY <1>1, <1>2, <1>4, <1>5, <2>1, <2>3
<1> QED BY <1>8, <1>9, <1>10

-----------------------------------------------------------------------------
(* The code implements the promise                                         *)

LEMMA ReservationsAgree ==
    ASSUME TypeOK, NEW s \in Sales, NEW o \in Orders
    PROVE  reserveRentalCapacity(s, o[1], o[2]) <=> Reserve(s, o[1], o[2])
<1> SUFFICES ASSUME Place(s, o[1], o[2])
             PROVE  /\ Available(item, o[1]) <=> Fits(item, o[1])
                    /\ o[2] # NoLine =>
                           (Available(AfterFirst(s, o[1]), o[2]) <=> Fits(AfterFirst(s, o[1]), o[2]))
    BY DEF reserveRentalCapacity, Reserve, BothFit
<1>1. IsRequested(o[1]) /\ (o[2] # NoLine => IsRequested(o[2]))
    BY OrdersAssumption
<1>2. item \in [Items -> Booking] /\ AfterFirst(s, o[1]) \in [Items -> Booking]
    BY PlaceTypes DEF TypeOK
<1> QED BY <1>1, <1>2, AvailableIffFits

LEMMA BookingStep == ASSUME TypeOK PROVE [BookingNext]_vars <=> [Next]_vars
BY ReservationsAgree DEF BookingNext, Next

LEMMA bookingTypes == BookingSpec => []TypeOK
<1>1. TypeOK /\ [BookingNext]_vars => TypeOK'
    BY BookingStep, TypesKept
<1> QED BY <1>1, InitTypes, PTL DEF BookingSpec

\* Every reservation the sweep lets through is one the promise allows, so what
\* holds of RentalCapacity holds of the code's own test.
THEOREM implementsRentalCapacity == BookingSpec => ImplementsRentalCapacity
<1>1. TypeOK /\ [BookingNext]_vars => [Next]_vars
    BY BookingStep
<1> QED BY <1>1, bookingTypes, PTL DEF BookingSpec, ImplementsRentalCapacity, Spec

\* The sweep refuses nothing the promise allows.
THEOREM refusesNoMore == Spec => BookingSpec
<1>1. TypeOK /\ [Next]_vars => [BookingNext]_vars
    BY BookingStep
<1> QED BY <1>1, types, PTL DEF BookingSpec, Spec

\* Whatever rows and period it is asked about, the sweep leaves the capacity less
\* the most units in use at one instant of the period.
THEOREM sweepIsPeak == BookingSpec => []SweepIsPeak
<1>1. TypeOK => SweepIsPeak
  <2> SUFFICES ASSUME TypeOK, NEW from \in Times, NEW to \in Times, from < to
               PROVE  remainingRentalCapacity(item, from, to) = F!Max({0, capacity - MostInUse(from, to)})
      BY DEF SweepIsPeak
  <2>1. Asked(item, from, to)
      BY DEF Asked, TypeOK
  <2>2. Peak(Events(item, from, to)) = MostUsed(item, from, to)
      BY <2>1, PeakIsMost
  <2>3. MostInUse(from, to) = MostUsed(item, from, to)
      BY DEF MostInUse, MostUsed
  <2> QED BY <2>2, <2>3 DEF remainingRentalCapacity
<1> QED BY <1>1, bookingTypes, PTL

\* So the sales the code records never promise more units than there are, with
\* one product edit at a time.
THEOREM bookingNeverOversold ==
    ASSUME OneEditor
    PROVE  BookingSpec => []NeverOversold
<1>1. BookingSpec => Spec
    BY implementsRentalCapacity DEF ImplementsRentalCapacity
<1>2. Spec => []NeverOversold
    BY neverOversold
<1> QED BY <1>1, <1>2, PTL
=============================================================================
