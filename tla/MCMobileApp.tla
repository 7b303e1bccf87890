---------------------------- MODULE MCMobileApp -----------------------------
(***************************************************************************)
(* A small instance of MobileApp: a stylist with an appointment and a      *)
(* manager, who pass the phone to one another.                             *)
(***************************************************************************)
EXTENDS MobileApp, TLC

CONSTANTS emma, cut

MCOwnerOf == cut :> emma
=============================================================================
