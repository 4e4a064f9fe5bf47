---------------------------- MODULE RentalBooking ----------------------------
(***************************************************************************)
(* The rental capacity test as common/rental computes it: the bookings a   *)
(* query selects, an event at each end of each of them, and a sweep over   *)
(* the events in order.  A sale reserved this way is one RentalCapacity    *)
(* allows, and no other.                                                   *)
(***************************************************************************)
EXTENDS RentalCapacity, Integers
F == INSTANCE FiniteSetsExt

\* rentalAvailability: the rows its query selects
Selected(rows, from, to) ==
    {i \in Items :
        LET b == rows[i]
        IN  /\ b.quantity > 0 /\ b.start < to /\ ~b.returned
            /\ ~canceled[i[1]] \/ b.out
            /\ b.end > from \/ (b.out /\ b.end < now)}

\* remainingRentalCapacity: what of a row falls into the period
From(b, from) == F!Max({from, b.start})
UntilEnd(b, to) == F!Min({to, b.end})          \* mutant: an overdue unit is back at its end
Until(b, to) == IF b.out /\ b.end < now THEN to ELSE F!Min({to, b.end})

Events(rows, from, to) ==
    UNION {LET b == rows[i]
           IN  IF From(b, from) < Until(b, to)
               THEN {[at |-> From(b, from), change |-> b.quantity, of |-> i],
                     [at |-> Until(b, to), change |-> -b.quantity, of |-> i]}
               ELSE {} : i \in Selected(rows, from, to)}

StartsFirst(e, f) ==                         \* mutant: a start counts before an end at its time
    e.at < f.at \/ (e.at = f.at /\ e.change > f.change)
Before(e, f) == e.at < f.at \/ (e.at = f.at /\ e.change < f.change)

\* The running count after an event, in the order of the sort, and the highest
\* count.  The changes are summed as units of their lines, each of which starts
\* once and ends once.  Equal events all start or all end, so their order among
\* them decides nothing.
Gained(events) == UNION {{f.of} \X (1 .. f.change) : f \in events}
Lost(events) == UNION {{f.of} \X (1 .. -f.change) : f \in events}
UpTo(events, e) == {f \in events : ~Before(e, f)}
Used(events, e) == Cardinality(Gained(UpTo(events, e))) - Cardinality(Lost(UpTo(events, e)))
Peak(events) == F!Max({0} \cup {Used(events, e) : e \in events})

remainingRentalCapacity(rows, from, to) == F!Max({0, capacity - Peak(Events(rows, from, to))})

Available(rows, line) == line.quantity <= remainingRentalCapacity(rows, line.start, line.end)

reserveApart(s, l1, l2) ==                   \* mutant: a sale's first line not pending
    /\ Place(s, l1, l2)
    /\ Available(item, l1)
    /\ l2 # NoLine => Available(item, l2)

reserveRentalCapacity(s, l1, l2) ==
    /\ Place(s, l1, l2)
    /\ Available(item, l1)
    /\ l2 # NoLine => Available(AfterFirst(s, l1), l2)

BookingNext ==
    \/ \E s \in Sales, o \in Orders : reserveRentalCapacity(s, o[1], o[2])
    \/ Others

BookingSpec == Init /\ [][BookingNext]_vars

-----------------------------------------------------------------------------
\* rental.ts: "Endpoints are exclusive".  What the sweep leaves of a period is
\* the capacity less the most units in use at any one instant of it.
MostInUse(from, to) == F!Max({0} \cup {InUse(item, t) : t \in from .. (to - 1)})

SweepIsPeak ==
    \A from, to \in Times : from < to =>
        remainingRentalCapacity(item, from, to) = F!Max({0, capacity - MostInUse(from, to)})

\* Every sale the code reserves is one the promise allows.
ImplementsRentalCapacity == Spec
=============================================================================
