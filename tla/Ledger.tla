------------------------------- MODULE Ledger -------------------------------
(***************************************************************************)
(* The money side of the API as concurrent requests run it: the checkout   *)
(* of POSController and the automatic invoice of a completed appointment   *)
(* (both Invoice::createCheckout), ExpenseController.logExpense, the       *)
(* drawer of the day (ReconciliationController), and updateStock.          *)
(*                                                                         *)
(* A sale and an expense are each one transaction of several statements;   *)
(* pc[w] names the next one.  Midnight, a crash and other requests may     *)
(* come between any two.                                                   *)
(***************************************************************************)
EXTENDS LedgerTables, SqliteWal

CONSTANTS
    MaxInvoices,    \* bound: invoices ever started
    MaxExpenses,    \* bound: expenses ever started
    MaxStock        \* bound: stock that is still restocked

ASSUME LedgerBoundAssumption ==
    MaxInvoices \in Nat /\ MaxExpenses \in Nat /\ MaxStock \in Int

VARIABLES
    today,      \* what date('Y-m-d') answers
    pc,         \* the next database call of each worker
    job,        \* the body of the request it serves, with what it read since
    resp        \* the last answer: success, failure (HTTP 400 or 500), or none

reqVars == <<pc, job, resp>>
vars == <<db, pending, writer, snapshot, today, pc, job, resp>>

SalePc == {"insertInvoice", "upgradeInvoice", "addItems", "updateDrawer"}
ExpensePc == {"insertExpense", "expenseDrawer"}
WritingPc == {"addItems", "updateDrawer", "expenseDrawer"}

SaleJob == [sale : Sales \cup AutoSales, day : Day]
DayJob == [day : Day]
CloseJob == [day : Day, counted : Counts]
NoJob == [day |-> 0]
-----------------------------------------------------------------------------
Init ==
    /\ WalInit(Seeded)
    /\ today = 1
    /\ pc = [w \in Worker |-> "idle"]
    /\ job = [w \in Worker |-> NoJob]
    /\ resp = [w \in Worker |-> "none"]

Accept(w, j, first) ==
    /\ pc[w] = "idle"
    /\ pc' = [pc EXCEPT ![w] = first]
    /\ job' = [job EXCEPT ![w] = j]
    /\ resp' = [resp EXCEPT ![w] = "none"]
    /\ UNCHANGED today

Goto(w, next) ==
    /\ pc' = [pc EXCEPT ![w] = next]
    /\ UNCHANGED <<job, resp, today>>

Answer(w, r) ==
    /\ pc' = [pc EXCEPT ![w] = "idle"]
    /\ job' = [job EXCEPT ![w] = NoJob]
    /\ resp' = [resp EXCEPT ![w] = r]
    /\ UNCHANGED today

\* A PDOException: rollBack, or the end of the request, and an error answer.
Fail(w, r) == Rollback(w) /\ Answer(w, r)

InFlight(calls) == Cardinality({w \in Worker : pc[w] \in calls})
-----------------------------------------------------------------------------
(***************************************************************************)
(* createCheckout                                                          *)
(***************************************************************************)

MayInvoice == Len(db.invoices) + InFlight(SalePc) < MaxInvoices

\* A mistake to compare with: the caller's date, in a time zone ahead.
RequestCheckoutAhead(w) ==
    /\ MayInvoice
    /\ \E sale \in Sales : Accept(w, [sale |-> sale, day |-> today + 1], "insertInvoice")
    /\ UNCHANGED walVars

\* POSController.checkout: created_at is taken before the INSERT that may wait.
RequestCheckout(w) ==
    /\ MayInvoice
    /\ \E sale \in Sales : Accept(w, [sale |-> sale, day |-> today], "insertInvoice")
    /\ UNCHANGED walVars

\* createFromCompletedAppointment: its second SELECT is still open when the
\* transaction begins, so that the INSERT has a snapshot to upgrade.
RequestAutoInvoice(w) ==
    /\ MayInvoice
    /\ \E sale \in AutoSales : Accept(w, [sale |-> sale, day |-> today], "upgradeInvoice")
    /\ OpenSnapshot(w)

\* A mistake to compare with: no beginTransaction, every statement commits.
InsertInvoiceCommitted(w) ==
    /\ pc[w] = "insertInvoice" \/ (pc[w] = "upgradeInvoice" /\ CanUpgrade(w))
    /\ Autocommit(w, WithInvoice(db, job[w].sale, job[w].day))
    /\ Goto(w, "addItems")

InsertInvoice(w) ==
    /\ pc[w] = "insertInvoice" \/ (pc[w] = "upgradeInvoice" /\ CanUpgrade(w))
    /\ TakeLock(w, WithInvoice(db, job[w].sale, job[w].day))
    /\ Goto(w, "addItems")

\* SQLITE_BUSY at once.
UpgradeRefused(w) ==
    /\ pc[w] = "upgradeInvoice"
    /\ ~CanUpgrade(w)
    /\ Fail(w, "failed")

AddItems(w) ==
    /\ pc[w] = "addItems"
    /\ Amend(w, WithSpent(WithItems(pending, job[w].sale), job[w].sale))
    /\ Goto(w, "updateDrawer")

\* A mistake to compare with: the refusal of a closed drawer does not undo.
UpdateDrawerQuietly(w) ==
    /\ pc[w] = "updateDrawer"
    /\ Commit(w, IF pending.drawer[today].status = "closed"
                 THEN pending ELSE WithSale(pending, job[w].sale, today))
    /\ Answer(w, "ok")

\* A mistake to compare with: the drawer of today found whatever its status.
UpdateDrawerReopening(w) ==
    /\ pc[w] = "updateDrawer"
    /\ Commit(w, [pending EXCEPT !.drawer[today] =
                     RowWithSale([pending.drawer[today] EXCEPT !.status = "open"],
                                 job[w].sale)])
    /\ Answer(w, "ok")

\* The calendar is read again.  An open row is updated, an absent one is
\* inserted; when the row is closed the INSERT breaks
\* UNIQUE(reconciliation_date) and the sale is undone.
UpdateDrawer(w) ==
    /\ pc[w] = "updateDrawer"
    /\ \/ /\ pending.drawer[today].status = "closed"
          /\ Fail(w, "failed")
       \/ /\ pending.drawer[today].status # "closed"
          /\ Commit(w, WithSale(pending, job[w].sale, today))
          /\ Answer(w, "ok")
-----------------------------------------------------------------------------
(***************************************************************************)
(* Expense::create.  The date is the caller's: any day, past or to come.   *)
(***************************************************************************)

RequestExpense(w) ==
    /\ Len(db.expenses) + InFlight(ExpensePc) < MaxExpenses
    /\ \E spending \in Spendings : Accept(w, spending, "insertExpense")
    /\ UNCHANGED walVars

InsertExpense(w) ==
    /\ pc[w] = "insertExpense"
    /\ TakeLock(w, WithExpense(db, job[w]))
    /\ Goto(w, "expenseDrawer")

\* A mistake to compare with: the drawer of today, as a sale would use.
ExpenseDrawerOfToday(w) ==
    /\ pc[w] = "expenseDrawer"
    /\ \/ /\ pending.drawer[today].status = "closed"
          /\ Fail(w, "failed")
       \/ /\ pending.drawer[today].status # "closed"
          /\ Commit(w, WithSpending(pending, [job[w] EXCEPT !.date = today]))
          /\ Answer(w, "ok")

ExpenseDrawer(w) ==
    /\ pc[w] = "expenseDrawer"
    /\ \/ /\ pending.drawer[job[w].date].status = "closed"
          /\ Fail(w, "failed")
       \/ /\ pending.drawer[job[w].date].status # "closed"
          /\ Commit(w, WithSpending(pending, job[w]))
          /\ Answer(w, "ok")
-----------------------------------------------------------------------------
(***************************************************************************)
(* Reconciliation: opening the screen and closing the drawer.              *)
(***************************************************************************)

\* getTodayStatus: no transaction around the SELECT and the INSERT.
ReadDrawer(w) ==
    /\ \/ /\ db.drawer[today].status # "none"
          /\ pc[w] = "idle"
          /\ Answer(w, "ok")
       \/ /\ db.drawer[today].status = "none"
          /\ Accept(w, [day |-> today], "insertDrawer")
    /\ UNCHANGED walVars

\* A mistake to compare with: INSERT OR REPLACE.
InsertDrawerReplacing(w) ==
    /\ pc[w] = "insertDrawer"
    /\ Autocommit(w, WithNewDay(db, job[w].day))
    /\ Answer(w, "ok")

InsertDrawer(w) ==
    /\ pc[w] = "insertDrawer"
    /\ \/ /\ db.drawer[job[w].day].status = "none"
          /\ Autocommit(w, WithNewDay(db, job[w].day))
          /\ Answer(w, "ok")
       \/ /\ db.drawer[job[w].day].status # "none"
          /\ LockFree
          /\ Fail(w, "failed")

\* The date is the caller's.
RequestClose(w) ==
    /\ \E day \in Day, counted \in Counts :
          Accept(w, [day |-> day, counted |-> counted], "closeDrawer")
    /\ UNCHANGED walVars

\* One UPDATE of the open row.  execute() is true when no row matched, too.
CloseDrawer(w) ==
    /\ pc[w] = "closeDrawer"
    /\ \/ /\ db.drawer[job[w].day].status = "open"
          /\ Autocommit(w, WithClosed(db, job[w].day, job[w].counted))
       \/ /\ db.drawer[job[w].day].status # "open"
          /\ LockFree
          /\ UNCHANGED walVars
    /\ Answer(w, "ok")
-----------------------------------------------------------------------------
\* InventoryController.updateStock: one UPDATE.
UpdateStock(w) ==
    \E delivery \in Deliveries :
        /\ pc[w] = "idle"
        /\ db.stock[delivery.product] + delivery.qty <= MaxStock
        /\ Autocommit(w, WithStock(db, delivery))
        /\ Answer(w, "ok")

\* busy_timeout expires while another worker holds the lock.
LockTimeout(w) ==
    /\ pc[w] \in {"insertInvoice", "insertExpense", "insertDrawer", "closeDrawer"}
    /\ ~LockFree
    /\ Fail(w, "failed")

Midnight ==
    /\ today < MaxDay
    /\ today' = today + 1
    /\ UNCHANGED <<walVars, reqVars>>

\* The worker or the container dies; its client never gets an answer.
Crash(w) ==
    /\ pc[w] # "idle"
    /\ Fail(w, "none")
-----------------------------------------------------------------------------
Request(w) ==
    \/ RequestCheckout(w) \/ RequestAutoInvoice(w) \/ RequestExpense(w)
    \/ ReadDrawer(w) \/ RequestClose(w) \/ UpdateStock(w)

Serve(w) ==
    \/ InsertInvoice(w) \/ UpgradeRefused(w) \/ AddItems(w) \/ UpdateDrawer(w)
    \/ InsertExpense(w) \/ ExpenseDrawer(w)
    \/ InsertDrawer(w) \/ CloseDrawer(w) \/ LockTimeout(w)

Next ==
    \/ \E w \in Worker : Request(w) \/ Serve(w) \/ Crash(w)
    \/ Midnight

Spec == Init /\ [][Next]_vars
-----------------------------------------------------------------------------
(***************************************************************************)
(* Properties                                                              *)
(***************************************************************************)

JobTypeOK(w) ==
    /\ pc[w] \in SalePc => job[w] \in SaleJob /\ job[w].day <= today
    /\ pc[w] \in ExpensePc => job[w] \in Spendings
    /\ pc[w] = "insertDrawer" => job[w] \in DayJob /\ job[w].day <= today
    /\ pc[w] = "closeDrawer" => job[w] \in CloseJob

RequestsTypeOK ==
    /\ today \in Day
    /\ pc \in [Worker -> {"idle", "insertDrawer", "closeDrawer"} \cup SalePc \cup ExpensePc]
    /\ job \in [Worker -> SaleJob \cup Spendings \cup DayJob \cup CloseJob \cup {NoJob}]
    /\ \A w \in Worker : JobTypeOK(w)
    /\ resp \in [Worker -> {"none", "ok", "failed"}]

\* The types of the tables and of each request's own variables.
TypeOK ==
    /\ WalTypeOK
    /\ db \in Databases
    /\ pending \in Databases
    /\ RequestsTypeOK

\* Exactly the worker inside its writing statements holds the lock; with the
\* lock free nothing is uncommitted.
LockInv ==
    /\ \A w \in Worker : writer = w <=> pc[w] \in WritingPc
    /\ LockFree => pending = db

\* A writer sees the committed books and its own statements, nothing else.
PendingInv ==
    \A w \in Worker :
        /\ pc[w] = "addItems" => pending = WithInvoice(db, job[w].sale, job[w].day)
        /\ pc[w] = "updateDrawer" =>
              pending = WithSpent(WithItems(WithInvoice(db, job[w].sale, job[w].day),
                                            job[w].sale), job[w].sale)
        /\ pc[w] = "expenseDrawer" => pending = WithExpense(db, job[w])

\* Every request is isolated from every other from its first writing statement
\* on: the strengthening under which the properties below are inductive.
IsolationInv == LockInv /\ PendingInv

\* The expected balance of an open drawer is its float and cash sales less its
\* expenses, although the code adds to the four columns separately, from two
\* models, and inserts the row in three places.
DrawerBalances ==
    \A day \in Day : LET row == db.drawer[day] IN
        row.status = "open" => row.closing = OpeningCash + row.cash - row.expenses

Totals(d) == [i \in DOMAIN d.invoices |-> d.invoices[i].total]

InvoicesBy(d, methods) == {i \in DOMAIN d.invoices : d.invoices[i].method \in methods}

\* What the drawers hold is what was invoiced: in cash to the unit, and digital
\* but for what was paid by a method that is neither.
SalesInDrawers(d) ==
    LET digital == SumFunction([k \in Day |-> d.drawer[k].digital]) IN
    /\ SumFunction([k \in Day |-> d.drawer[k].cash]) =
           SumFunctionOnSet(Totals(d), InvoicesBy(d, {"cash"}))
    /\ SumFunctionOnSet(Totals(d), InvoicesBy(d, {"digital"})) <= digital
    /\ digital <= SumFunctionOnSet(Totals(d), InvoicesBy(d, {"digital", "other"}))

Amounts(d) == [i \in DOMAIN d.expenses |-> d.expenses[i].amount]

ExpensesOn(d, day) == {i \in DOMAIN d.expenses : d.expenses[i].date = day}

\* Each day's logged expenses are the expenses with that date.
ExpensesInDrawers(d) ==
    \A day \in Day :
        d.drawer[day].expenses = SumFunctionOnSet(Amounts(d), ExpensesOn(d, day))

\* Over all days the drawers hold exactly the cash that was invoiced, and exactly
\* the digital payments as long as every method is one of the two (what another
\* method paid may be among them or missing), and each day's logged expenses are
\* the expenses with that date: a sale or an expense that is refused, undone or
\* cut short by a crash leaves neither a row without its money nor money without
\* its row, and nothing on a day without a row.
DrawersMatchTables ==
    /\ SalesInDrawers(db)
    /\ ExpensesInDrawers(db)
    /\ \A day \in Day : db.drawer[day].status = "none" => db.drawer[day] = NoRow

InvoicesOf(d, c) == {i \in DOMAIN d.invoices : d.invoices[i].client = c}

\* Every client's total_spent has grown by the sum of the client's invoices.
SpentBalances ==
    \A c \in Client : db.spent[c] = SumFunctionOnSet(Totals(db), InvoicesOf(db, c))

Prices(d) == [k \in DOMAIN d.items |-> d.items[k].line.price * d.items[k].line.qty]

LinesOf(d, i) == {k \in DOMAIN d.items : d.items[k].invoice = i}

\* No invoice is ever seen without the rows of its cart, nor they without it.
InvoicesComplete ==
    /\ \A i \in DOMAIN db.invoices :
           db.invoices[i].total = SumFunctionOnSet(Prices(db), LinesOf(db, i))
    /\ \A k \in DOMAIN db.items : db.items[k].invoice \in DOMAIN db.invoices

\* A drawer that has been closed keeps the figures it was closed with: sales
\* and expenses that started before it was closed included.
ClosedDrawerFrozen ==
    [][\A day \in Day : db.drawer[day].status = "closed" =>
          db'.drawer[day] = db.drawer[day]]_db

\* Concurrent requests have the effect of sales, expenses, openings, closings
\* and deliveries that happen at once, one after the other.
Atomic == INSTANCE AtomicLedger

AtomicSpec == Atomic!Spec
=============================================================================
