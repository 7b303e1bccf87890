--------------------------- MODULE AtomicCalendar ---------------------------
(***************************************************************************)
(* What the front desk relies on: a booking is checked against the         *)
(* calendar and entered under the caller's contact at once, an appointment *)
(* changes its status together with its stylist, and nothing else changes  *)
(* either.                                                                 *)
(***************************************************************************)
EXTENDS Integers, Sequences

CONSTANTS Stylist, DayLen, Bookings, Changes, SeedCalendar

VARIABLES
    calendar,   \* the appointments, in the order they were booked
    duty        \* staff.status

vars == <<calendar, duty>>

Init == calendar = SeedCalendar /\ duty = [s \in Stylist |-> "available"]

\* Times of one day; an end past midnight counts as the early hour it shows.
Ending(b) == (b.start + b.dur) % DayLen

Clashes(a, b) ==
    /\ a.staff = b.staff
    /\ a.date = b.date
    /\ a.status # "cancelled"
    /\ b.start < a.end
    /\ Ending(b) > a.start

Entry(b) == [contact |-> b.contact, staff |-> b.staff, date |-> b.date,
             start |-> b.start, end |-> Ending(b), status |-> "upcoming"]

Book ==
    \E b \in Bookings :
        /\ b.dur # 0
        /\ \A i \in DOMAIN calendar : ~Clashes(calendar[i], b)
        /\ calendar' = Append(calendar, Entry(b))
        /\ UNCHANGED duty

SetStatus ==
    \E c \in Changes :
        /\ c.apt \in DOMAIN calendar
        /\ calendar' = [calendar EXCEPT ![c.apt].status = c.status]
        /\ duty' = [duty EXCEPT ![calendar[c.apt].staff] =
                       IF c.status = "active" THEN "in_service" ELSE "available"]

\* The stylist's own switch.
Switch ==
    \E s \in Stylist, status \in {"available", "off"} :
        /\ duty' = [duty EXCEPT ![s] = status]
        /\ UNCHANGED calendar

Next == Book \/ SetStatus \/ Switch

Spec == Init /\ [][Next]_vars
=============================================================================
