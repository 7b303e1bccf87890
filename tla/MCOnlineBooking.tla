--------------------------- MODULE MCOnlineBooking ---------------------------
(***************************************************************************)
(* Two browsers and two workers that compete for one time of one stylist.  *)
(***************************************************************************)
EXTENDS OnlineBooking, TLC

CONSTANT emma

MCStaffList == <<emma>>
MCContactOf == [p \in Page |-> p]
MCBookings == {BodyOf([page |-> p, staff |-> s, slot |-> t]) :
                  p \in Page, s \in Stylist, t \in Slot}
NoApts == <<>>
NoClients == <<>>

Interchangeable == Permutations(Worker) \cup Permutations(Page)
=============================================================================
