--------------------------- MODULE MCBookingPage ----------------------------
(***************************************************************************)
(* A small instance of BookingPage: two browsers that compete for two      *)
(* stylists at one time of day.                                            *)
(***************************************************************************)
EXTENDS BookingPage

CONSTANTS emma, david

MCStaffList == <<emma, david>>
SameTime == {<<t, t>> : t \in Slot}
=============================================================================
