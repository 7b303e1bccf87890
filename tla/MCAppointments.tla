--------------------------- MODULE MCAppointments ---------------------------
(***************************************************************************)
(* Small instances of Appointments.  The database starts as createTables   *)
(* seeds it, cut down to one client and one appointment: active, its       *)
(* stylist available.                                                      *)
(***************************************************************************)
EXTENDS Appointments, TLC

CONSTANTS s1, d1, c1, c2

MCSeedClients == <<c1>>
MCSeedApts == << [client |-> 1, staff |-> s1, date |-> d1, start |-> 1, end |-> 3,
                  status |-> "active"] >>

Body(contact, start, dur) ==
    [contact |-> contact, staff |-> s1, date |-> d1, start |-> start, dur |-> dur]

\* Slot 2 overlaps the seeded appointment (1 to 3) and slot 3 does not; they
\* overlap each other.  c1 is known, c2 is not.
RacingBookings == {Body(c2, 2, 2), Body(c2, 3, 2)}

\* With a caller who gives no contact, and one who asks for a service that does
\* not exist.
AllBookings == RacingBookings \cup {Body(Blank, 3, 1), Body(c1, 6, 0)}
OneBooking == {Body(c2, 3, 2)}

EveryChange == [apt : AptId, status : AptStatus]
\* What the seeded appointment may become, and a new one beside it.
StatusChanges == [apt : {1}, status : AptStatus]
                 \cup [apt : {2}, status : {"active", "cancelled"}]
Cancellations == [apt : AptId, status : {"cancelled"}]
Completions == [apt : AptId, status : {"completed", "cancelled"}]

\* The workers are interchangeable, where no liveness is checked.
Symmetry == Permutations(Worker)
=============================================================================
