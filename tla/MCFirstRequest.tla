--------------------------- MODULE MCFirstRequest ---------------------------
(***************************************************************************)
(* A small instance of FirstRequest, whose only parameter is the number    *)
(* of workers.                                                             *)
(***************************************************************************)
EXTENDS FirstRequest
=============================================================================
