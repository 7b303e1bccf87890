---------------------------- MODULE MCPosScreen -----------------------------
(***************************************************************************)
(* A small instance of PosScreen: three pages, one item, and two rows of   *)
(* the staff list, with the columns User::getAllStaff selects.             *)
(***************************************************************************)
EXTENDS PosScreen

CONSTANTS emma, david

MCStaffRows == <<[user_id |-> 3, staff_id |-> emma], [user_id |-> 4, staff_id |-> david]>>
=============================================================================
