--------------------------- MODULE MCDrawerScreen ---------------------------
(***************************************************************************)
(* A small instance of DrawerScreen: two browsers, two days, a sale for    *)
(* cash and an expense of either day.                                      *)
(***************************************************************************)
EXTENDS DrawerScreen, TLC

MCSales == {[client |-> NoClient, method |-> "cash",
             cart |-> <<[product |-> NoProduct, stylist |-> NoStylist,
                         qty |-> 1, price |-> 5]>>]}
MCProfile == [s \in Stylist |-> [type |-> "fixed", rate |-> 0]]
MCSpendings == {[date |-> 1, amount |-> 5]}

\* The float, and one cent less than the balance after the sale.
MCCounts == {200, 204}

Symmetry == Permutations(Browser)
=============================================================================
