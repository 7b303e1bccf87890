---------------------------- MODULE AtomicLedger ----------------------------
(***************************************************************************)
(* What the shop relies on: a sale, an expense, opening or closing a       *)
(* drawer and a delivery each happen at once and completely or not at all, *)
(* in some order, and nothing is booked on a drawer that is closed.        *)
(***************************************************************************)
EXTENDS LedgerTables

VARIABLES
    db,         \* the books
    today       \* the calendar

vars == <<db, today>>

Init == db = Seeded /\ today = 1

\* Rung up on the drawer of today; the invoice bears the date of the request.
Sell ==
    \E sale \in Sales \cup AutoSales, stamp \in 1 .. today :
        /\ db.drawer[today].status # "closed"
        /\ db' = WithSale(WithSpent(WithItems(WithInvoice(db, sale, stamp), sale), sale),
                          sale, today)
        /\ UNCHANGED today

Spend ==
    \E spending \in Spendings :
        /\ db.drawer[spending.date].status # "closed"
        /\ db' = WithSpending(WithExpense(db, spending), spending)
        /\ UNCHANGED today

OpenDay ==
    \E day \in 1 .. today :
        /\ db.drawer[day].status = "none"
        /\ db' = WithNewDay(db, day)
        /\ UNCHANGED today

CloseDay ==
    \E day \in Day, counted \in Counts :
        /\ db.drawer[day].status = "open"
        /\ db' = WithClosed(db, day, counted)
        /\ UNCHANGED today

Deliver ==
    \E delivery \in Deliveries :
        /\ db' = WithStock(db, delivery)
        /\ UNCHANGED today

Midnight ==
    /\ today < MaxDay
    /\ today' = today + 1
    /\ UNCHANGED db

Next == Sell \/ Spend \/ OpenDay \/ CloseDay \/ Deliver \/ Midnight

Spec == Init /\ [][Next]_vars
=============================================================================
