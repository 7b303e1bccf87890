---------------------------- MODULE LedgerTables ----------------------------
(***************************************************************************)
(* The tables money and stock are kept in, and what each SQL statement of  *)
(* the sale, expense, drawer and stock handlers does to them, as functions *)
(* of a database d.  Amounts are whole numbers of the smallest unit the    *)
(* model needs; a day is a number.                                         *)
(***************************************************************************)
EXTENDS Integers, Sequences, FiniteSets, Functions

CONSTANTS
    Client, NoClient,       \* rows of clients; a walk-in has none
    Product, NoProduct,     \* rows of products; a service sells none
    Stylist, NoStylist,     \* rows of staff; a line may name none
    Profile,                \* commission_type and commission_rate of a stylist
    OpeningCash,            \* 200.0, with which every drawer starts
    MaxDay,                 \* bound: days
    Sales,                  \* the bodies of checkout requests
    Spendings,              \* the bodies of expense requests
    Counts,                 \* closing balances typed in at the end of a day
    Deliveries,             \* the bodies of stock requests
    AutoSales               \* what a completed appointment is invoiced as

Day == 1 .. MaxDay

\* "other": whatever else a request names.  Only an empty one is refused.
Method == {"cash", "digital", "other"}

\* One entry of the items array; price and quantity come from the client.
CartLine == [product : Product \cup {NoProduct}, stylist : Stylist \cup {NoStylist},
             qty : Nat, price : Nat]
Sale == [client : Client \cup {NoClient}, method : Method, cart : Seq(CartLine)]
Spending == [date : Day, amount : Nat]
Delivery == [product : Product, qty : Int]

CartTotal(cart) == SumFunction([i \in DOMAIN cart |-> cart[i].price * cart[i].qty])

UnitsOf(cart, p) ==
    SumFunctionOnSet([i \in DOMAIN cart |-> cart[i].qty],
                     {i \in DOMAIN cart : cart[i].product = p})

ASSUME RequestAssumption ==
    /\ Sales \cup AutoSales \subseteq Sale
    /\ Spendings \subseteq Spending
    /\ Counts \subseteq Int
    /\ Deliveries \subseteq Delivery

ASSUME AmountAssumption ==
    /\ OpeningCash \in Nat
    /\ NoClient \notin Client
    /\ Profile \in [Stylist -> [type : {"percentage", "fixed"}, rate : Nat]]

ASSUME DayAssumption == MaxDay \in Nat \ {0}
-----------------------------------------------------------------------------
Invoice == [day : Day, client : Client \cup {NoClient}, method : Method, total : Nat]
ItemRow == [invoice : Nat, line : CartLine, commission : Nat]
DrawerRow == [status : {"none", "open", "closed"}, cash : Nat, digital : Nat,
              expenses : Nat, closing : Int]

Databases == [invoices : Seq(Invoice), items : Seq(ItemRow), expenses : Seq(Spending),
              drawer : [Day -> DrawerRow], stock : [Product -> Int],
              spent : [Client -> Nat]]

NoRow == [status |-> "none", cash |-> 0, digital |-> 0, expenses |-> 0, closing |-> 0]

\* What the handlers insert for a day that has no row yet.
NewRow(cash, digital, expenses) ==
    [status |-> "open", cash |-> cash, digital |-> digital, expenses |-> expenses,
     closing |-> OpeningCash + cash - expenses]

\* createTables: the drawer of the first day.  The stock and the totals it
\* seeds the products and clients with count as 0, although no invoice makes
\* up those totals.
Seeded ==
    [invoices |-> <<>>, items |-> <<>>, expenses |-> <<>>,
     drawer |-> [[d \in Day |-> NoRow] EXCEPT ![1] = NewRow(0, 0, 0)],
     stock |-> [p \in Product |-> 0], spent |-> [c \in Client |-> 0]]
-----------------------------------------------------------------------------
(***************************************************************************)
(* createCheckout.                                                         *)
(***************************************************************************)

Commission(line) ==
    IF line.stylist = NoStylist THEN 0
    ELSE LET profile == Profile[line.stylist] IN
         IF profile.type = "percentage"
         THEN (line.price * line.qty * profile.rate) \div 100
         ELSE profile.rate * line.qty

\* The INSERT of the invoice, dated the day the request was served.
WithInvoice(d, sale, day) ==
    [d EXCEPT !.invoices = Append(@, [day |-> day, client |-> sale.client,
                                      method |-> sale.method,
                                      total |-> CartTotal(sale.cart)])]

\* The loop over the items: their rows, with the commission of today's
\* profile, and the stock of those that are products.
WithItems(d, sale) ==
    [d EXCEPT
        !.items = @ \o [i \in DOMAIN sale.cart |->
                            [invoice |-> Len(d.invoices), line |-> sale.cart[i],
                             commission |-> Commission(sale.cart[i])]],
        !.stock = [p \in Product |-> d.stock[p] - UnitsOf(sale.cart, p)]]

\* A mistake to compare with: the total replaced, not added to.
WithSpentReplaced(d, sale) ==
    IF sale.client = NoClient THEN d
    ELSE [d EXCEPT !.spent[sale.client] = CartTotal(sale.cart)]

\* The client's total, when the sale names a client.
WithSpent(d, sale) ==
    IF sale.client = NoClient THEN d
    ELSE [d EXCEPT !.spent[sale.client] = @ + CartTotal(sale.cart)]

\* A mistake to compare with: digital payments counted as cash in the drawer.
RowWithSaleInCash(row, sale) ==
    LET total == CartTotal(sale.cart) IN
    IF row.status = "open"
    THEN IF sale.method = "cash"
         THEN [row EXCEPT !.cash = @ + total, !.closing = @ + total]
         ELSE [row EXCEPT !.digital = @ + total, !.closing = @ + total]
    ELSE NewRow(IF sale.method = "cash" THEN total ELSE 0,
                IF sale.method = "digital" THEN total ELSE 0, 0)

\* The row of the day the drawer step is executed on: an open row is added to,
\* and all but cash is digital; an absent one is inserted, and what is neither
\* is nowhere.
RowWithSale(row, sale) ==
    LET total == CartTotal(sale.cart) IN
    IF row.status = "open"
    THEN IF sale.method = "cash"
         THEN [row EXCEPT !.cash = @ + total, !.closing = @ + total]
         ELSE [row EXCEPT !.digital = @ + total]
    ELSE NewRow(IF sale.method = "cash" THEN total ELSE 0,
                IF sale.method = "digital" THEN total ELSE 0, 0)

WithSale(d, sale, day) == [d EXCEPT !.drawer[day] = RowWithSale(d.drawer[day], sale)]
-----------------------------------------------------------------------------
(***************************************************************************)
(* Expense::create, closeDrawer, updateStock.                              *)
(***************************************************************************)

WithExpense(d, spending) == [d EXCEPT !.expenses = Append(@, spending)]

RowWithExpense(row, amount) ==
    IF row.status = "open"
    THEN [row EXCEPT !.expenses = @ + amount, !.closing = @ - amount]
    ELSE NewRow(0, 0, amount)

WithSpending(d, spending) ==
    [d EXCEPT !.drawer[spending.date] =
                  RowWithExpense(d.drawer[spending.date], spending.amount)]

WithNewDay(d, day) == [d EXCEPT !.drawer[day] = NewRow(0, 0, 0)]

WithClosed(d, day, counted) ==
    [d EXCEPT !.drawer[day].status = "closed", !.drawer[day].closing = counted]

WithStock(d, delivery) == [d EXCEPT !.stock[delivery.product] = @ + delivery.qty]
=============================================================================
