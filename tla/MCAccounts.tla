----------------------------- MODULE MCAccounts -----------------------------
(***************************************************************************)
(* A small instance of Accounts: an administrator and a stylist; two       *)
(* registrations that want one username, which an edit wants as well.      *)
(***************************************************************************)
EXTENDS Accounts, TLC

CONSTANTS admin, emma, zoe, n1, n2

Account(username, name, role) == [username |-> username, name |-> name, role |-> role]

MCSeedUsers == <<Account(admin, n1, "admin"), Account(emma, n1, "stylist")>>

MCSeedStaff == <<[user |-> 2, name |-> n1]>>

MCRegistrations == {Account(zoe, n1, "stylist"), Account(zoe, n2, "receptionist"),
                    Account(emma, n2, "stylist")}

\* Rename, take a username, and edit a user who may not be there (yet).
MCEdits == [user : {2, 3}, username : {emma, zoe}, name : {n2}]

Symmetry == Permutations(Worker)
=============================================================================
