------------------------------ MODULE MCLedger ------------------------------
(***************************************************************************)
(* Small instances of Ledger: one client, one product, two stylists, of    *)
(* whom one is paid per cent and one a fixed amount.                       *)
(***************************************************************************)
EXTENDS Ledger, TLC

CONSTANTS k1, p1, s1, s2

MCProfile == [s \in Stylist |-> [type |-> IF s = s1 THEN "percentage" ELSE "fixed",
                                 rate |-> IF s = s1 THEN 40 ELSE 1]]

Haircut == [product |-> NoProduct, stylist |-> s1, qty |-> 1, price |-> 5]
Wax == [product |-> p1, stylist |-> s2, qty |-> 2, price |-> 1]

\* A client pays for a haircut and two tins of wax, a walk-in for wax alone:
\* in cash, or by a method the drawer has no column for.
MCSales == {[client |-> k1, method |-> "digital", cart |-> <<Haircut, Wax>>],
            [client |-> NoClient, method |-> "cash", cart |-> <<Wax>>],
            [client |-> NoClient, method |-> "other", cart |-> <<Wax>>]}
MCAutoSales == {[client |-> k1, method |-> "cash", cart |-> <<Haircut>>]}

MCSpendings == [date : Day, amount : {3}]
MCDeliveries == {[product |-> p1, qty |-> 2]}
MCCounts == {0}

Symmetry == Permutations(Worker)
=============================================================================
