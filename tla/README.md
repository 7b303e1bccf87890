# Verification of the salon management system

TLA+ models of the salon's server (appointments, sales, expenses, the cash drawer, staff
accounts, the creation of the database and the shared database under them), of its three
clients (the public booking page, the point of sale and the closing of the drawer in the
web admin, the mobile app for stylists and managers) and of the booking page and the
server together; TLC configurations that check them on small instances; and proofs,
checked by TLAPS, that the safety properties of all of them hold for every number of
workers, browsers, stylists, clients and requests.

## The system

| Part | Source | State | Operations |
|---|---|---|---|
| Database | `api/core/Database.php` | one SQLite file, WAL mode, `busy_timeout = 5000` | connections, transactions, creation and seeds |
| Appointments | `AppointmentController.php`, `Appointment.php` | `appointments`, `staff.status` | `createAppointment`, `updateStatus` with the automatic invoice |
| Clients | `ClientController.php`, `Client.php` | `clients` | `findOrCreate` (from a booking), `addClient` |
| Staff and login | `AuthController.php`, `User.php`, `JWT.php`, `AuthMiddleware.php` | `users`, `staff` | login, register, update, the stylist's availability switch |
| Checkout | `POSController.php`, `Invoice.php` | `invoices`, `invoice_items`, `clients.total_spent`, `products.stock_quantity` | `createCheckout`, `createFromCompletedAppointment`, reports |
| Expenses | `ExpenseController.php`, `Expense.php` | `expenses` | `logExpense` |
| Cash drawer | `ReconciliationController.php`, `Reconciliation.php` | `cash_reconciliation`, one row a day | `getTodayStatus`, `closeDrawer`, and the last step of every sale and expense |
| Inventory | `InventoryController.php`, `Product.php` | `products` | `updateStock`, add a product |
| Sessions | `JWT.php`, `AuthMiddleware.php` | none: a signed token with an expiry | 401 or 403 at any request |
| Web admin | `admin.html`, `js/app.js` | session, cart, the screen shown, the drawer's dialogs | calls the API |
| Booking page | `book.html` | the form | calls `book_online` |
| Mobile app | `mobile_app/lib/main.dart` | providers: session, queue, wallet, availability, expenses | calls the API |

The parts meet in the database and nowhere else. Every request is a PHP script run by
one Apache prefork worker (`Dockerfile` enables `mpm_prefork`), with a connection of its
own; several workers run at once, so that any two requests interleave at every database
call. What makes the code hard:

- **Interleaving.** A booking reads (is the slot free?) and then writes; `findOrCreate`
  and the look for an earlier invoice read in one transaction and write in another.
- **SQLite's locks.** A transaction that has read and then writes is refused at once when
  anybody committed in between; one that writes first waits up to `busy_timeout`. Safety of
  bookings rests on the first rule, which no line of the code mentions.
- **Partial failure and crashes.** A sale writes five tables; its last statement fails when
  the drawer of the day has been closed. A completed appointment is committed before its
  invoice is tried. A worker may die between any two statements.
- **Clients that await.** A browser or a phone goes on taking clicks while a request is
  away; answers come late, in another order, in another session, or never, and a retry
  may repeat what was already done.
- **The calendar.** A checkout reads the date up to three times, and midnight may fall between;
  `end_time` is a time of day and wraps.

What makes each part correct: bookings do not overlap; a stylist shown in service has an
active appointment; a completed visit has an invoice, and one; the drawer's balance is its
float and cash sales less its expenses; invoices, items, client totals and drawers agree
with each other; a closed drawer does not change, and what it misses is explained by what
was sold after it was counted; usernames are unique and every stylist
has one row of `staff`; the database is created once and whole; every request is answered;
and a screen neither repeats what was done, nor says what is not so, nor gets stuck waiting.
`PROJECT.json` lists the places where each of these could go wrong as hazards.

## Modules

**`SqliteWal`** is the shared database as its clients can observe it (SQLite is not part of
the repository; the pragmas are `Database.php`'s). `db` is the committed database, `pending`
what the writing transaction sees, `writer` who holds the write lock, `snapshot[w]` whether
worker `w` is inside a read transaction and whether somebody has committed since. The
operators (`OpenSnapshot`, `CanUpgrade`, `TakeLock`, `Amend`, `Commit`, `Autocommit`,
`Rollback`) are conjuncts of the other modules' actions.

**`Appointments`** models the appointment side. `pc[w]` names the next database call of
worker `w`, `job[w]` the request's body, `client[w]` the id `findOrCreate` returned and
`resp[w]` the answer. A booking goes through `FindClient`, `NewClient`, `CheckSlot`,
`InsertApt`, `CommitApt`; a status change through `ReadApt`, `WriteStatus`,
`CommitStatus` and, when it completes the appointment, `CheckInvoiced`, `LoadApt`,
`InsertInvoice`, `UpdateDrawer`. Statements made under the write lock, which nobody else
can observe, are joined: the two `UPDATE`s of a status change, or the last statement and
`COMMIT`. `AddClient`, `ToggleStatus` and `CloseDrawer` are requests of a single
statement. Times are slots of a day of `DayLen`; `EndTime` wraps as `date('H:i:s')` does.
A contact stands for an e-mail or a phone number.

**`AtomicCalendar`** is what `Appointments` promises: a calendar in which a booking is entered
under its caller in one step, where it clashes with nothing that stands, and a status change
is one step. `CalendarSpec` maps the contact of each appointment through the table of
clients; only a commit is a step of the calendar.

One detail matters: the second `SELECT` of `createFromCompletedAppointment` fetches one
row and stays open, so the transaction that follows starts on its snapshot and has to
upgrade. The first finds no row and is over. That is why a race of two completions
produces a second invoice only when the first commits between the two `SELECT`s.

**`LedgerTables`** holds the tables of money and stock and the effect of each SQL
statement as a function from database to database. A method of payment is `cash`, `digital` or
any `other`: the checkout refuses an empty one only, and its drawer step treats a third one as
`RowWithSale` does. **`Ledger`** runs checkouts, automatic
invoices, expenses, the opening and closing of the drawer and stock deliveries over it,
statement by statement, with `Midnight`, `Crash` and `LockTimeout` in between. The drawer
step reads the calendar again, as line 106 of `Invoice.php` does, and fails on a closed
drawer because the `INSERT` breaks `UNIQUE(reconciliation_date)`.

**`AtomicLedger`** is the abstract specification of `Ledger`: the same books, on which a
sale, an expense, an opening, a closing or a delivery each happen in one step and nothing
is booked on a closed drawer. `Ledger` is shown to implement it with the identity mapping
on the books and the calendar: only a commit changes `db`.

`Appointments` keeps of the drawer only whether it is closed, and of an invoice that it
exists; their amounts are `Ledger`'s. `Ledger` in turn takes a completed appointment as a
sale (`AutoSales`). The two modules share `SqliteWal` and meet in `createCheckout`.

**`AccountTables`**, **`Accounts`** and **`AtomicAccounts`** are the same three layers for
`users` and `staff`. A registration looks for the username, hashes, inserts the user and,
for a stylist, the row of `staff` (`CheckUsername`, `InsertUser`, `InsertStaff`); it reads
first and has to upgrade. An edit writes first (`UpdateUser`, `UpdateStaff`), waits for the
lock, and is refused by `UNIQUE(username)`. `AtomicAccounts` does either in one step.

**`FirstRequest`** is `Database::getConnection` with the script of `createTables`, one
autocommitted statement after the other: `Look` (`file_exists`), `Open` (`new PDO`, which makes
the file), `SetJournal` (the pragmas), `RunStatement` over `Script`, `Finish`. `Refused` is the
`catch`: the connection fails, or, from the pragmas on, another connection keeps the file locked
for too long; the request answers 500 and nobody takes up the script again. Whoever found no
file runs the whole script. A second copy of the users fails on `UNIQUE(username)`, and since they
are the first rows seeded, the slower request ends there with HTTP 500. A connected request may
insert the drawer of the day meanwhile (`OpenDrawer`), on which the script's last seed then
fails. `gaveUp` remembers that a request which found no file died or was refused after it had
made one. The other modules start from the database this one ends with.

**`BookingPage`** is `book.html` in several browsers. `Choose` are the chips, `Submit` is
`submitForm` up to its `fetch`, `Deliver` and `NetworkError` are the two ways its `await`
ends, `ResetForm` is "Book another". `sent` and `answers` are the network, which delays,
reorders and loses; a request given up by the browser may still be served. A booking is
one step of the server, refused when the stylist has a booking at a time that clashes
(`Clashing`): the chips are 90 minutes apart, and a service may take longer.

**`OnlineBooking`** takes that step apart: it composes the pages' own steps with
`createAppointment` of `Appointments`, call by call on the shared database. `Take` is a worker
that accepts a request, `Work` and `Reply` are the calls of `Book` before and with the
answer, `Die` is a worker that crashes and answers nobody, and the desk adds clients
meanwhile. It is shown to implement `BookingPage` (`PagesSpec`): a request inside its
transaction counts as one on its way, and the commit is the step that serves it. Which times
clash is the conflict query of `Appointment::create` (`ClashingTimes`).

**`PosScreen`** is the menu and the point of sale of `js/app.js` in one browser.
`loading[p]` counts the renderings of a page that await their data; `screen` numbers the
renderings of the checkout, since a rendering that finishes replaces button and cart.
The other pages matter by when they are rendered: `Navigate`, a form answered
(`OpenForm`, `CloseForm`), the filter of the appointments, and the answer to a new
appointment, which looks at the current page only then. A session ends by a click
(`Logout`) or by any answer 401 (`MaySignOut`), of whichever session its request was, and
`Login` renders the page that was current; neither puts anything else away.
`Submit`, `Deliver` and `NetworkError` are `submitPOSCheckout`; `EditTo` is what every change
of the cart ends with (`updateCartUI`), which offers the button again. `slips` remembers the
presses a cart was edited after or whose answer was lost.

**`DrawerScreen`** is the closing of the drawer in several browsers over the books of
`AtomicLedger`, whose `Sell`, `Spend` and `Midnight` go on meanwhile (`Trade`). `Render`,
`ServeRead` and `FinishRender` show the drawer as it was at some moment; `Press`, `Count`,
`Confirm` and `Cancel` are the prompt and the confirm, which stop their own browser only; a count
off by more than `Tolerance` (0.01) is asked about, and one off by exactly that may be, since
the code compares floating-point numbers (`Passes`, `Warns`);
`Send` takes the date of the moment; `ServeClose` is `closeDrawer`. `closure` remembers which
closing closed each day.

**`MobileApp`** is `AuthProvider`, `StylistProvider` and `ManagerProvider` on one phone that
stylists and managers use in turn. `Login` and `Logout` change the token of `AuthProvider`; the
other two providers go on with their `copy` of it until the next frame calls `updateAuth` and puts
up the other screen (`ShowLogin`, `ShowDashboard`), and answers may be handled in between. `calls` are the awaited calls with the session they were
made in; a handler's continuation after its `await` is an action (`StatusLoaded`, `Toggled`,
`QueueLoaded`, `WalletLoaded`, `Updated`, `StaffLoaded`, `MetricsLoaded`, `ExpensesLoaded`,
`Logged`), which may make further calls; `next` says which. `succeeded` and `failed` record
what `logExpense` returned.

`MCAppointments`, `MCLedger`, `MCAccounts`, `MCFirstRequest`, `MCBookingPage`, `MCOnlineBooking`,
`MCPosScreen`, `MCDrawerScreen` and `MCMobileApp` give the constants their values for TLC.
`AppointmentsProofs` (of `Appointments` and `OnlineBooking`), `LedgerProofs`, `AccountsProofs`,
`FirstRequestProofs`, `BookingPageProofs`, `PosScreenProofs`, `DrawerProofs` and
`MobileAppProofs` hold the proofs.

Definitions introduced with "A mistake to compare with" are no part of the
specifications: each is a variant of the definition below it, with which the property
named in `PROJECT.json` fails.

## Runs

Passing:

| Run | Instance | Shows |
|---|---|---|
| `bookings` | two workers, one stylist and day of eight slots, a seeded active appointment; bookings that overlap each other and one of which overlaps the seed; callers who are known, new, anonymous, and refused; cancellations of everything; clients added by the desk | `TypeOK`, `IsolationInv`, `BookingNeverOverlaps`, `CalendarSpec` |
| `status` | every status for every appointment, availability switches, a closing and a new day, one booking, with fairness | `InServiceHasActive`, `InvoicesPerVisitBounded`, `SuccessHasInvoice`, `EveryRequestAnswered` |
| `books` | two workers, two days, up to two sales (of a two-line cart with commission per cent and fixed, walk-ins who pay in cash or by a third method, an automatic invoice), an expense for either day, closings, deliveries | `TypeOK`, `IsolationInv`, `DrawerBalances`, `DrawersMatchTables`, `SpentBalances`, `InvoicesComplete`, `ClosedDrawerFrozen`, `AtomicSpec` |
| `accounts` | two workers, two seeded users, registrations and edits that want the same username, an edit of a user who may not be there | `TypeOK`, `IsolationInv`, `UsernamesUnique`, `StaffRowsMatch`, `AtomicSpec` |
| `first_request` | three first requests, with crashes, refusals, a drawer opened meanwhile and fairness | `SeededOnce`, `PartialMeansGivenUp`, `EventuallyComplete` |
| `pages` | two browsers, two stylists, one time, two presses each, with fairness | `TypeOK`, `ConfirmedIsBooked`, `EveryPressSettled` |
| `online` | two browsers and two workers, one time of one stylist, two presses each, crashes, refused locks, a client added by the desk | `ConfirmedIsFiled`, `PagesSpec` |
| `point_of_sale` | three pages, one with a form, one item, two stylists, four renderings, three presses, sessions that end and begin | `TypeOK`, `RepeatNeedsSlip`, `SoldCartGone`, `ButtonNotStuck` |
| `drawer` | two browsers, two days, a cash sale and an expense, two renderings and two closings, counts that are right, off by a cent and wrong | `TypeOK`, `ClosingExplained`, `ClosedIsFinal` |
| `phone` | a stylist with an appointment and a manager; three dashboards or presses, four calls awaited at a time | `TypeOK`, `SpinnerMeansCall`, `CallsAreOfSession`, `ToldTruly` |

Each of the following states what a message or a title in the code promises, and fails:

| Run | What happens |
|---|---|
| `double_booking` | cancel, rebook the slot, set the first back to upcoming: `updateStatus` does not look for conflicts |
| `invoiced_once` | two completions of one appointment both look for an invoice before there is one |

**Known disagreements without a run.** The models behave as the code does in each of these
cases too, so a reader who states the promise as an invariant will see it fail:

- A service that runs past midnight has an `end_time` before its `start_time` and is never
  found by the conflict query (`Appointment.php:66`). `BookingNeverOverlaps` leaves it out.
- An appointment cancelled between the commit of its completion and the automatic invoice is
  invoiced all the same (`Appointment.php:145`).
- With the drawer closed the invoice of a completion is refused, and the completion stays
  (`Appointment.php:140`). `SuccessHasInvoice` says only that success was not answered.
- Cancelling one appointment marks the stylist available who is in service in another
  (`Appointment.php:130`).
- A payment by a method that is neither `cash` nor `digital` is accepted
  (`POSController.php:23`), although the schema knows "cash, digital" (`Database.php:108`): an
  open drawer books it as digital, a new one in no column (`Invoice.php:124`, `Invoice.php:135`).
  `DrawersMatchTables` is exact for cash, and leaves the digital column between the digital
  invoices alone and those with the other payments.
- A first request refused by another connection's lock in `PRAGMA journal_mode` or in a
  statement of the script gives the creation up (`Database.php:26`); the file stays, and no
  later request completes it. So does one that dies. `PartialMeansGivenUp` and
  `EventuallyComplete` except both.
- Closing a closed or absent drawer, or editing a user who does not exist, changes nothing
  and answers success (`Reconciliation.php:46`, `User.php:97`).
- "Book another" shows a form whose button stays disabled (`book.html:298`); "First available"
  is the first stylist of the list, free or not (`book.html:258`); and the confirmation is
  put together from the chips of the moment, which may have changed since (`book.html:283`;
  its text is not modelled).
- Editing the cart while its checkout is awaited offers the button again
  (`app.js:849`), and so does the failure of an earlier checkout of the same screen while a
  later one is awaited (`app.js:871`): `RepeatNeedsSlip` allows a second sale of a cart only
  where, up to the first, it was edited while a checkout was awaited or an answer was lost.
- A rendering that finishes late shows its page over the one chosen since
  (`app.js:662`), and one whose data could not be fetched leaves its spinner
  (`app.js:659`).
- No sale of the point of sale names a stylist: `addCartItem` reads `st.id`, and the rows
  of `getAllStaff` carry `user_id` and `staff_id` (`app.js:785`; `IdOf`).
- Closing a drawer that is closed answers success although the message prepared for a failure
  says "Make sure it is not already closed." (`ReconciliationController.php:38`); the screen
  then says "closed and reconciled successfully!" to both browsers (`app.js:1151`).
- A count confirmed after midnight closes the new day's drawer, with the old day's count
  (`app.js:1147`): `ClosingExplained` is about screens of the same day.
- A late 401 to a request of an old session signs out the new one (`app.js:50`), and a late
  success renders the checkout anew over a cart begun since (`app.js:869`).
- A queue requested before a logout arrives in the session of the next stylist, who is shown
  it as "My Task Queue" until the next load (`main.dart:234`), and a refused switch is undone in
  whatever session it is answered in (`main.dart:213`); `CallsAreOfSession` says only that no new
  call is made for the old session.
- Between a logout and the next frame an answer goes on to load with the token of the session
  just left (`main.dart:99`, `main.dart:277`). `CallsAreOfSession` allows that, and no more.
- A count one cent off closes the drawer without a warning (`app.js:1140`); `ClosingExplained`
  is exact to within `Tolerance`.
- The button of the expense form stays live while an expense is awaited, so that a second
  press books it twice (`main.dart:766`). `ToldTruly` says what each press is told.
- After a service is started or completed the app still shows the stylist's old availability
  (`main.dart:278`): the queue is loaded anew, the status is not.

**Bounds.** `MaxApts`, `MaxClients`, `MaxInvoices`, `MaxExpenses`, `MaxDay` and `MaxStock` stop new
requests, never a request that has begun. Two workers are enough for every race found: all
communication goes through one lock and one snapshot flag, and a third worker that commits
is to either of the two what the other would be. `InvoicesPerVisitBounded` is stated with the
number of workers and checked for two. Two bookings and one seeded appointment make
both kinds of conflict (with a committed appointment and with one in flight); two days
make a midnight inside a request, an expense for another day and a drawer closed before
and after. The sums over tables need two invoices to tell adding from replacing, and `drawer` counts in
cents, so that 204 is the one that is 0.01 short of a balance of 205. What does not depend on
a bound is proved below. Workers
are interchangeable, and symmetry over them is used where no liveness is checked.

The clients need little: two browsers and one time make every competition for a slot, and a
second press (`MaxTries`) every retry; a cart is a set of lines, since quantities decide
nothing; four renderings (`MaxRenders`) let two of the checkout and one of another page overlap
after the first, and three presses (`MaxPresses`) let an old one fail while a new one is
awaited and another is made. Two renderings and two closings of the drawer (`MaxReads`, `MaxCloses`; a
delivered closing renders once more) with one sale and one expense let a figure be stale in
either browser while the other closes. Three presses of the phone (`MaxPresses`, dashboards
included) are two sessions with a button pressed in the first or the second; a second stylist
adds nothing to a first who signs in again but another owner of the queue; four calls awaited at once
(`MaxAwaited`) are a session's three loads with an update or an expense of the session before.
Three first requests let one create, one lose the race for the users and one find the file.

`CHECK_DEADLOCK` is left on for the server: a worker that is idle can always serve a request
of one statement, or begin one. It is off for the clients and the composition, whose
visitors may have used up the bounded presses, renderings or calls and whose screens then
rest.

**Fairness.** `FairSpec` assumes `WF_vars(Serve(w))`: a worker that can take the next step of
its request does. PHP runs statement after statement, and a statement that waits for the
lock gives up after `busy_timeout`. Nothing is assumed of callers, midnight or crashes.
`Crash` may end a request and is not fair, so answers never depend on it. `FirstRequest`
assumes the same of a request that has looked for the file (`Open`, `SetJournal`, `RunStatement`,
`Finish`); nothing is assumed of `Refused`, `OpenDrawer` and `Crash`. `BookingPage` assumes
`WF_vars(NetworkError(p))`: a browser that hears nothing reports a network error in the
end; nothing is assumed of the network, the server or the visitor.

## Proofs

Assumed of the constants: `NoWorker` is no worker, and the values that stand for nothing are
none of the others (`NothingAssumption`); the request bodies, seeds, rows and bounds have their
types (`SlotAssumption`, `SeedAssumption`, `BoundAssumption`, `RequestAssumption`,
`AmountAssumption`, `DayAssumption`, `LedgerBoundAssumption`, `AccountAssumption`,
`MaxUsersAssumption`, `AppAssumption`, `PageAssumption`, `ScreenAssumption`, `RowAssumption`,
`ScreenBoundAssumption`, `ToleranceAssumption`); the seeded accounts have distinct usernames and a row of staff for
each stylist (`SeedAssumption` of `AccountTables`, a different one from that of
`Appointments`); and the visitors of `OnlineBooking` ask for one day on which nothing is seeded,
with bodies the server accepts (`VisitorAssumption`, `BodyAssumption`). TLC evaluates all of
them.

*Appointments.* `TypeOK` is not inductive alone: `CommitApt` installs `pending`, which must be
known to be a database. `IsolationInv` adds what is needed and why the code is right:
the lock is held exactly in the writing calls (`LockInv`); a slot found free is still free
while the snapshot is current (`SnapshotInv`: any commit makes it stale, and cancelled
appointments or added clients do not matter then); and the pending database is the committed
one with the writer's own statements (`PendingInv`). `TypeOK /\ IsolationInv /\ InServiceHasActive`
is inductive. Theorems: `TypeCorrect`, `Isolation`, `ServiceConsistency`, and `NoOverlap`, which
says that `BookingNeverOverlaps` holds of every step: only `CommitApt` adds an appointment,
`PendingInv` says its slot is free, and without wrapping the conflict query is the overlap of
intervals.

*The calendar.* `CalendarRefinement` shows that every step of `Appointments` is
a step of `AtomicCalendar` or leaves the calendar alone. Beyond the invariant above it needs
that a booking's client id, once `findOrCreate` has returned it, belongs to the caller in every
later database (`FiledInv`: ids are never reused and contacts never edited), so that the
appointment a commit adds is filed under whoever asked. `SuccessInvoiced` follows the worker
whose completion is answered with success. `InvoiceRaceBounded` holds of any finite set of
workers: the invoices of a visit and the workers that are past the look for an earlier one
are together at most as many as the workers (`RaceInv`), since a worker passes the look only
while there is no invoice, and turns into at most one. It is a counting argument over
`Cardinality`, and the bound the run `invoiced_once` shows to be reached for two.

*Ledger.* `TypeOK /\ IsolationInv /\ DrawerBalances` is inductive. From it every step of `Ledger` is
a step of `AtomicLedger` or leaves books and calendar alone (`Refinement`): `UpdateDrawer` is
`Sell`, because the pending books are the committed ones with the earlier statements of the
same sale. `Balance` follows from the effect of each statement on a row, and
`ClosedIsFrozen` from the steps of `AtomicLedger`, none of which touches a closed row.

*The sums of the books.* `DrawersMatchTables`, `SpentBalances` and `InvoicesComplete` compare
sums over whole tables. A sum is a fold, which chooses one element after the other; `LedgerProofs`
first shows what it is for every finite set (`SumWithout`: any element may be taken first;
`SumAdd`, `SumChange`, `SumSame`, `SumRenamed`, `SumZero`). The induction over subsets
(`SubsetInduction`) takes a smallest counterexample instead of the library's induction
theorems, whose operator parameter cannot be instantiated here. With these, each kind of
transaction taken as a whole keeps the books in agreement (`SaleAgree`, `SpendingAgree`,
`NewDayAgree`, `ClosedAgree`, `StockAgree`); a sale needs, beyond its own sum, that a day whose
drawer is not open has an empty row, so that inserting one loses nothing (`UnopenedEmpty`), and
that no item names an invoice that is not there, so that the next invoice has its own rows only.
Since every step of `Ledger` is a step of `AtomicLedger` or changes no committed table,
`TablesMatch`, `SpentIsInvoiced` and `CartsComplete` follow.

*Accounts.* `TypeOK /\ IsolationInv /\ UsernamesUnique /\ StaffRowsMatch` is inductive, in the
same three steps. What one whole registration or edit makes of good accounts is good
(`RegisterGood`, `EditGood`): the new username was free, the new row of staff is the first of
its user, and the row of an edited stylist exists, so that the `INSERT` of
`updateStaffDetails` is never needed. `IsolationInv` says that at its commit a request
installs just that: a username found free before the password is hashed is free as long as
the snapshot is current, and a stale snapshot cannot be upgraded. Theorems: `TypeCorrect`,
`Isolation`, `UsernamesStayUnique`, `StaffMatches` and `Refinement`.

*The phone* (`MobileAppProofs`). `TypeOK` needs that the argument of a call and the data of its
answer fit the kind of the call (`CallInv`), since a continuation of one session may run in the
next. With the types `SpinnerMeansCall` is inductive. `CallsAreOfSession` follows from the steps:
every call, also one made after an await, takes the provider's copy of the token, and a copy
that is there is of the session or of the one just left (`AuthInv`). For `ToldTruly` an
invariant follows each press from the request to the last load (`TruthInv`): a press has one
request, nothing is done for a request still on its way, an answer says what was done, and the
loads after an expense belong to one that was booked.

*The creation of the database* (`FirstRequestProofs`). Whoever has inserted the users is alone in
the rest of the script, and the tables seeded are the ones it has passed (`SeedInv`): the
unique names of the first rows are the only lock there is. A worker past a `CREATE` has its
table (`CreateInv`); before there is a file nobody is past opening it (`FileInv`); and with a
file that nobody gave up on, somebody is still running the script, or it is done (`WorkInv`);
of the seeds only the last can be refused for another's row, that of a drawer opened meanwhile,
and then nothing is missing. The conjunction is inductive and gives `SeedsOnce` and
`PartialIsGivenUp`.

*The booking page* (`BookingPageProofs`). A confirmation is true because a page waits for its last
request or for none, so that an answer to an earlier one is no answer to it (`WaitsForLast`),
and an acceptance on its way is that of a booking that was made (`PageInv`): `Confirmed`.

*The booking page over the server.* The mapping takes the requests on their way and inside a
transaction for `sent` and the committed ones for `booked`. `PagesRefined` shows every step of
`OnlineBooking` to be one of `BookingPage` or none that the pages see. It needs that a request is
in one place at a time, that the body a worker books is that of its request, and that the
committed requests are the appointments of the day that stand, each filed under its visitor
(`OnlineInv`), so that the conflict query refuses just what clashes with a booking. The
invariant of `BookingPage` comes over by its own proof, and `VisitorFiled` follows: whoever sees a
confirmation is in the calendar under the contact that was entered.

*The drawer's screens* (`DrawerProofs`). Every step is a step of `AtomicLedger` or leaves the books
alone (`ServerRefined`), and by `LedgerProofs` a row of the drawer only grows and is frozen once
closed (`AtomicGrows`). What a browser shows is a row as it was, so it is at most the row of now;
the closing that is remembered of a day has the view it was sent from, and unless it was warned of a
count within `Tolerance` of it (`DrawerInv`). `Explained` and `Final` are consequences. The number of a rendering is bounded by renderings asked for
and closings delivered, which is what the type of `reads` needs.

*The point of sale* (`PosScreenProofs`). The renderings awaited are numbered below the counter, a
screen is shown once, and a press is in one place of the network; a cart whose button is live
has no press awaited of its screen unless it slipped, of two presses of a screen that may both
be booked the earlier one slipped (`PairsInv`), and the counter of renderings leaves room for the
ones that answers may start (`PosInv`). Theorems: `NoRepeat`,
`SoldGone`, `NotStuck`. The proof corrected the model: as long as two presses were the bound,
a stronger `RepeatNeedsSlip`, blaming one of the two sold presses, held; with a third press an
earlier failed checkout is the cause, which is the way it is stated now.

Model-checked only: `EveryRequestAnswered`, `EventuallyComplete` and `EveryPressSettled`, which are
liveness under fairness and out of the prover's reach. Every invariant and every action
property of a passing run is also a theorem.

## Not modelled

- The token itself (`JWT`, `AuthMiddleware`): the server keeps no session. A refusal is in the
  models of the clients, where it signs out (`MaySignOut` of `PosScreen`) or is an answer that
  failed (`Serve` of `MobileApp`); the requests of the server's models have passed.
- Login: it only reads, apart from a token handed to the caller.
- The service catalogue and the insertion of a product: single statements nothing modelled
  reads by. A booking's duration is part of its body, so that a service may change between two.
- The forms of the other pages of the web admin: what they hold goes unchanged into one
  request; when they are open and what their answers render is in `PosScreen`.
- The widgets of the mobile app: layout; which button is offered when is in `MobileApp`.
- Read-only handlers, the router, static pages, layout, the 3D scene of the booking page.
- Real numbers: amounts are whole numbers, and a commission per cent is rounded down. The
  stock and the totals of clients that `createTables` seeds (`Database.php:188`) count as 0, so
  that `total_spent` is what was added since.
- While the database is created: midnight, and what connected requests write beyond today's
  drawer. On the phone: a press of the refresh button in the instant between a logout and the
  next frame, which would ask for nobody's status.
- `last_visit`, descriptions, categories, `client_type`, notes: no decision reads them.
- The bundled MariaDB distribution and the built mobile app: third-party and generated. By
  size they are most of the repository, but no file of the system includes, calls or
  configures MariaDB, whose headers are declarations without a program, and the
  `Dockerfile` deletes the directory.

## Plan

Done, in this order: `SqliteWal`, `Appointments`, `LedgerTables`, `Ledger`, `AtomicLedger` with
their runs and proofs; `Accounts` with its tables, its abstract specification and proofs; the
creation of the database; the three clients.

Then the closing of the drawer, the manager's side of the phone with sessions, sessions in the
web admin, the booking page over the server call by call, the calendar and its proofs.

Then the proofs: of the calendar, the booking page alone and over the server, the drawer, the
point of sale, the sums of the books and the creation of the database.

What is left: the insertion of a product and the service catalogue, should anything come to read
by them; and the sessions of the drawer's screens, which `PosScreen` has for the point of sale.
