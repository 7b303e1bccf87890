---------------------------- MODULE Appointments ----------------------------
(***************************************************************************)
(* The appointment side of the API as concurrent requests run it:          *)
(* AppointmentController.createAppointment (public, called by book.html    *)
(* and the admin screens), AppointmentController.updateStatus with the     *)
(* automatic invoice of a completed appointment, the stylist's own status  *)
(* switch, and what opens and closes the day's cash drawer.                *)
(*                                                                         *)
(* One Apache worker serves one request at a time.  pc[w] names the next   *)
(* database call of w's request; a call made under the write lock that     *)
(* nobody else can observe is joined to the COMMIT that follows it.        *)
(***************************************************************************)
EXTENDS SqliteWal, Integers, Sequences, FiniteSets

CONSTANTS
    Stylist,    \* rows of staff
    Contact,    \* e-mail or phone a client is recognised by
    Blank,      \* the empty contact, which matches no client
    Date,       \* appointment_date
    DayLen,     \* slots in a day: end_time is a time of day, it wraps
    Bookings,   \* the bodies of the createAppointment requests
    Changes,    \* the bodies of the updateStatus requests
    SeedApts,   \* the appointments and the clients the database is
    SeedClients, \*   created with
    MaxApts,    \* bound: appointments ever booked
    MaxClients  \* bound: client rows

TimeOfDay == 0 .. DayLen - 1
AptId == 1 .. MaxApts

AptStatus == {"upcoming", "active", "completed", "cancelled"}
StaffStatus == {"available", "in_service", "off"}

Apt == [client : Nat, staff : Stylist, date : Date, start : TimeOfDay,
        end : TimeOfDay, status : AptStatus]

\* A booking names a service; dur is its duration, 0 when there is none.
Booking == [contact : Contact, staff : Stylist, date : Date, start : TimeOfDay,
            dur : Nat]
Change == [apt : AptId, status : AptStatus]
NoJob == [apt |-> 0]

ASSUME SlotAssumption ==
    /\ DayLen \in Nat \ {0}
    /\ Bookings \subseteq Booking
    /\ Changes \subseteq Change

ASSUME SeedAssumption ==
    /\ SeedApts \in Seq(Apt) /\ SeedClients \in Seq(Contact)
    /\ \A i \in DOMAIN SeedApts : SeedApts[i].client \in DOMAIN SeedClients

ASSUME BoundAssumption == MaxApts \in Nat /\ MaxClients \in Nat

VARIABLES
    pc,         \* the next database call of each worker
    job,        \* the body of the request it serves
    client,     \* the client id findOrCreate returned
    resp        \* the last answer: success, failure (HTTP 400), or none

reqVars == <<pc, job, client, resp>>
vars == <<db, pending, writer, snapshot, pc, job, client, resp>>

BookingPc == {"findClient", "newClient", "checkSlot", "insertApt", "commitApt"}
ChangePc == {"readApt", "writeStatus", "commitStatus", "checkInvoiced",
             "loadApt", "insertInvoice", "updateDrawer"}

\* The calls made while holding the write lock.
WritingPc == {"commitApt", "commitStatus", "updateDrawer"}
-----------------------------------------------------------------------------
(***************************************************************************)
(* What the statements read and write, on a database d.                    *)
(***************************************************************************)

Seeded == [apts |-> SeedApts,
           staff |-> [s \in Stylist |-> "available"],
           clients |-> SeedClients,
           invoices |-> [i \in AptId |-> 0],   \* rows with that appointment_id
           closed |-> FALSE]        \* today's row of cash_reconciliation

EndTime(start, dur) == (start + dur) % DayLen

\* The WHERE clause of the slot conflict query.
SlotTaken(d, b) ==
    \E i \in DOMAIN d.apts :
        LET a == d.apts[i] IN
        /\ a.staff = b.staff
        /\ a.date = b.date
        /\ a.status # "cancelled"
        /\ b.start < a.end
        /\ EndTime(b.start, b.dur) > a.start

ClientsOf(d, contact) ==
    {i \in DOMAIN d.clients : contact # Blank /\ d.clients[i] = contact}

WithClient(d, contact) == [d EXCEPT !.clients = Append(@, contact)]

NewApt(b, c) ==
    [client |-> c, staff |-> b.staff, date |-> b.date, start |-> b.start,
     end |-> EndTime(b.start, b.dur), status |-> "upcoming"]

WithApt(d, b, c) == [d EXCEPT !.apts = Append(@, NewApt(b, c))]

\* A mistake to compare with: the appointment's status copied to the stylist.
StaffStatusCopied(status) == status

\* The staff status that goes with an appointment status.
StaffStatusFor(status) == IF status = "active" THEN "in_service" ELSE "available"

\* A mistake to compare with: only 'active' is passed on to the stylist.
WithStatusKeepingStaff(d, i, status) ==
    [d EXCEPT !.apts[i].status = status,
              !.staff[d.apts[i].staff] = IF status = "active" THEN "in_service" ELSE @]

WithStatus(d, i, status) ==
    [d EXCEPT !.apts[i].status = status,
              !.staff[d.apts[i].staff] = StaffStatusFor(status)]

WithInvoice(d, i) == [d EXCEPT !.invoices[i] = @ + 1]

WithClosed(d, closed) == [d EXCEPT !.closed = closed]

WithStaff(d, s, status) == [d EXCEPT !.staff[s] = status]
-----------------------------------------------------------------------------
Init ==
    /\ WalInit(Seeded)
    /\ pc = [w \in Worker |-> "idle"]
    /\ job = [w \in Worker |-> NoJob]
    /\ client = [w \in Worker |-> 0]
    /\ resp = [w \in Worker |-> "none"]

Accept(w, j, first) ==
    /\ pc[w] = "idle"
    /\ pc' = [pc EXCEPT ![w] = first]
    /\ job' = [job EXCEPT ![w] = j]
    /\ resp' = [resp EXCEPT ![w] = "none"]
    /\ UNCHANGED <<walVars, client>>

Goto(w, next) ==
    /\ pc' = [pc EXCEPT ![w] = next]
    /\ UNCHANGED <<job, resp>>

Answer(w, r) ==
    /\ pc' = [pc EXCEPT ![w] = "idle"]
    /\ job' = [job EXCEPT ![w] = NoJob]
    /\ client' = [client EXCEPT ![w] = 0]
    /\ resp' = [resp EXCEPT ![w] = r]

\* A PDOException or Exception: catch, rollBack, HTTP 400.
Fail(w, r) == Rollback(w) /\ Answer(w, r)
-----------------------------------------------------------------------------
(***************************************************************************)
(* createAppointment                                                       *)
(***************************************************************************)

InFlight(calls) == Cardinality({w \in Worker : pc[w] \in calls})

RequestBooking(w) ==
    /\ Len(db.apts) + InFlight(BookingPc) < MaxApts
    /\ Len(db.clients) + InFlight(BookingPc) < MaxClients
    /\ \E b \in Bookings : Accept(w, b, "findClient")

\* Client.findOrCreate: the SELECT, outside any transaction.
FindClient(w) ==
    /\ pc[w] = "findClient"
    /\ \/ /\ ClientsOf(db, job[w].contact) = {}
          /\ Goto(w, "newClient")
          /\ UNCHANGED client
       \/ \E i \in ClientsOf(db, job[w].contact) :
          /\ Goto(w, "checkSlot")
          /\ client' = [client EXCEPT ![w] = i]
    /\ UNCHANGED walVars

\* Client.create: a single INSERT, which waits for the lock.
NewClient(w) ==
    /\ pc[w] = "newClient"
    /\ Autocommit(w, WithClient(db, job[w].contact))
    /\ client' = [client EXCEPT ![w] = Len(db.clients) + 1]
    /\ Goto(w, "checkSlot")

\* busy_timeout expires while another worker holds the lock.
ClientLockTimeout(w) ==
    /\ pc[w] = "newClient"
    /\ ~LockFree
    /\ Fail(w, "failed")

\* BEGIN, the duration and the conflict query, on one snapshot.
CheckSlot(w) ==
    /\ pc[w] = "checkSlot"
    /\ \/ /\ job[w].dur = 0 \/ SlotTaken(db, job[w])
          /\ Fail(w, "failed")
       \/ /\ job[w].dur # 0 /\ ~SlotTaken(db, job[w])
          /\ OpenSnapshot(w)
          /\ Goto(w, "insertApt")
          /\ UNCHANGED client

\* A mistake to compare with: the id of the newest client looked up again.
InsertAptOfNewestClient(w) ==
    /\ pc[w] = "insertApt"
    /\ \/ /\ CanUpgrade(w)
          /\ TakeLock(w, WithApt(db, job[w], Len(db.clients)))
          /\ Goto(w, "commitApt")
          /\ UNCHANGED client
       \/ /\ ~CanUpgrade(w)
          /\ Fail(w, "failed")

\* A mistake to compare with: the conflict query before beginTransaction, so
\* that the INSERT waits for the lock and has no snapshot to be checked.
InsertAptUnchecked(w) ==
    /\ pc[w] = "insertApt"
    /\ TakeLock(w, WithApt(db, job[w], client[w]))
    /\ Goto(w, "commitApt")
    /\ UNCHANGED client

\* A mistake to compare with: a locked database makes the handler start over.
InsertAptRetrying(w) ==
    /\ pc[w] = "insertApt"
    /\ \/ /\ CanUpgrade(w)
          /\ TakeLock(w, WithApt(db, job[w], client[w]))
          /\ Goto(w, "commitApt")
       \/ /\ ~CanUpgrade(w)
          /\ Rollback(w)
          /\ Goto(w, "checkSlot")
    /\ UNCHANGED client

InsertApt(w) ==
    /\ pc[w] = "insertApt"
    /\ \/ /\ CanUpgrade(w)
          /\ TakeLock(w, WithApt(db, job[w], client[w]))
          /\ Goto(w, "commitApt")
          /\ UNCHANGED client
       \/ /\ ~CanUpgrade(w)
          /\ Fail(w, "failed")

CommitApt(w) ==
    /\ pc[w] = "commitApt"
    /\ Commit(w, pending)
    /\ Answer(w, "ok")
-----------------------------------------------------------------------------
(***************************************************************************)
(* updateStatus.  Any staff member may send any of the four statuses for   *)
(* any appointment id: the handler compares it with nothing.               *)
(***************************************************************************)

RequestStatus(w) ==
    \E c \in Changes : Accept(w, c, "readApt")

ReadApt(w) ==
    /\ pc[w] = "readApt"
    /\ \/ /\ job[w].apt \notin DOMAIN db.apts
          /\ Fail(w, "failed")
       \/ /\ job[w].apt \in DOMAIN db.apts
          /\ OpenSnapshot(w)
          /\ Goto(w, "writeStatus")
          /\ UNCHANGED client

\* The UPDATE of the appointment and that of its stylist.
WriteStatus(w) ==
    /\ pc[w] = "writeStatus"
    /\ \/ /\ CanUpgrade(w)
          /\ TakeLock(w, WithStatus(db, job[w].apt, job[w].status))
          /\ Goto(w, "commitStatus")
          /\ UNCHANGED client
       \/ /\ ~CanUpgrade(w)
          /\ Fail(w, "failed")

CommitStatus(w) ==
    /\ pc[w] = "commitStatus"
    /\ Commit(w, pending)
    /\ \/ /\ job[w].status = "completed"
          /\ Goto(w, "checkInvoiced")
          /\ UNCHANGED client
       \/ /\ job[w].status # "completed"
          /\ Answer(w, "ok")

(***************************************************************************)
(* createFromCompletedAppointment: the first SELECT finds no row and is    *)
(* over; the second fetches its one row and stays open, so the transaction *)
(* of createCheckout that follows starts on its snapshot and must upgrade. *)
(***************************************************************************)

\* A mistake to compare with: no look for an earlier invoice.
CheckInvoicedNever(w) ==
    /\ pc[w] = "checkInvoiced"
    /\ Goto(w, "loadApt")
    /\ UNCHANGED <<walVars, client>>

CheckInvoiced(w) ==
    /\ pc[w] = "checkInvoiced"
    /\ \/ /\ db.invoices[job[w].apt] > 0
          /\ Answer(w, "ok")
       \/ /\ db.invoices[job[w].apt] = 0
          /\ Goto(w, "loadApt")
          /\ UNCHANGED client
    /\ UNCHANGED walVars

LoadApt(w) ==
    /\ pc[w] = "loadApt"
    /\ OpenSnapshot(w)
    /\ Goto(w, "insertInvoice")
    /\ UNCHANGED client

InsertInvoice(w) ==
    /\ pc[w] = "insertInvoice"
    /\ \/ /\ CanUpgrade(w)
          /\ TakeLock(w, WithInvoice(db, job[w].apt))
          /\ Goto(w, "updateDrawer")
          /\ UNCHANGED client
       \/ /\ ~CanUpgrade(w)
          /\ Fail(w, "failed")

\* A mistake to compare with: the exception of the closed drawer swallowed.
UpdateDrawerQuietly(w) ==
    /\ pc[w] = "updateDrawer"
    /\ \/ pending.closed /\ Rollback(w)
       \/ ~pending.closed /\ Commit(w, pending)
    /\ Answer(w, "ok")

\* The cash row of today: updated when open, inserted when there is none;
\* when it is closed the INSERT breaks UNIQUE(reconciliation_date).  The
\* amounts are Ledger's.
UpdateDrawer(w) ==
    /\ pc[w] = "updateDrawer"
    /\ \/ /\ pending.closed
          /\ Fail(w, "failed")
       \/ /\ ~pending.closed
          /\ Commit(w, pending)
          /\ Answer(w, "ok")
-----------------------------------------------------------------------------
(***************************************************************************)
(* Requests of one statement, served in one step once the lock is free.    *)
(***************************************************************************)

Single(w, new) ==
    /\ pc[w] = "idle"
    /\ Autocommit(w, new)
    /\ Answer(w, "ok")

\* ClientController.addClient: the front desk inserts without looking.
AddClient(w) ==
    /\ Len(db.clients) + InFlight(BookingPc) < MaxClients
    /\ \E c \in Contact : Single(w, WithClient(db, c))

\* AuthController.updateStatus: the stylist's availability switch.
ToggleStatus(w) ==
    \E s \in Stylist, status \in {"available", "off"} :
        Single(w, WithStaff(db, s, status))

\* ReconciliationController.closeDrawer, when the row of today is open.
CloseDrawer(w) == ~db.closed /\ Single(w, WithClosed(db, TRUE))

\* Midnight: today's row is now that of a day nobody has closed.  Midnight
\* inside a transaction is Ledger's.
NewDay ==
    /\ db.closed
    /\ LockFree
    /\ db' = WithClosed(db, FALSE)
    /\ pending' = db'
    /\ UNCHANGED <<writer, snapshot, reqVars>>

\* The worker or the container dies; its client never gets an answer.
Crash(w) ==
    /\ pc[w] # "idle"
    /\ Fail(w, "none")
-----------------------------------------------------------------------------
Request(w) ==
    \/ RequestBooking(w) \/ RequestStatus(w)
    \/ AddClient(w) \/ ToggleStatus(w) \/ CloseDrawer(w)

Book(w) ==
    \/ FindClient(w) \/ NewClient(w) \/ ClientLockTimeout(w)
    \/ CheckSlot(w) \/ InsertApt(w) \/ CommitApt(w)

ChangeStatus(w) ==
    \/ ReadApt(w) \/ WriteStatus(w) \/ CommitStatus(w)
    \/ CheckInvoiced(w) \/ LoadApt(w) \/ InsertInvoice(w) \/ UpdateDrawer(w)

\* What a worker does of its own accord once it has a request.
Serve(w) == Book(w) \/ ChangeStatus(w)

Next ==
    \/ \E w \in Worker : Request(w) \/ Serve(w) \/ Crash(w)
    \/ NewDay

Spec == Init /\ [][Next]_vars

(***************************************************************************)
(* A worker keeps running its request: PHP executes statement after        *)
(* statement, and a statement that waits for the lock gives up after       *)
(* busy_timeout.  Clients, midnight and crashes are under no obligation.   *)
(***************************************************************************)
FairSpec == Spec /\ \A w \in Worker : WF_vars(Serve(w))
-----------------------------------------------------------------------------
(***************************************************************************)
(* Properties                                                              *)
(***************************************************************************)

Databases == [apts : Seq(Apt), staff : [Stylist -> StaffStatus],
              clients : Seq(Contact), invoices : [AptId -> Nat], closed : BOOLEAN]

RequestsTypeOK ==
    /\ pc \in [Worker -> {"idle"} \cup BookingPc \cup ChangePc]
    /\ job \in [Worker -> Booking \cup Change \cup {NoJob}]
    /\ \A w \in Worker : pc[w] \in BookingPc => job[w] \in Booking
    /\ \A w \in Worker : pc[w] \in ChangePc => job[w] \in Change
    /\ client \in [Worker -> Nat]
    /\ resp \in [Worker -> {"none", "ok", "failed"}]

\* The types of the tables and of each request's own variables.
TypeOK ==
    /\ WalTypeOK
    /\ db \in Databases
    /\ pending \in Databases
    /\ RequestsTypeOK

\* Exactly the worker inside its writing statements holds the lock; with the
\* lock free nothing is uncommitted.
LockInv ==
    /\ \A w \in Worker : writer = w <=> pc[w] \in WritingPc
    /\ LockFree => pending = db

\* What a request read before it writes still holds when it may write: a slot
\* found free is free as long as the snapshot it was found on is current.
SnapshotInv ==
    \A w \in Worker :
        /\ pc[w] = "insertApt" /\ snapshot[w] = "fresh" => ~SlotTaken(db, job[w])
        /\ pc[w] = "writeStatus" => job[w].apt \in DOMAIN db.apts

\* A writer sees the committed database and its own statements, nothing else.
PendingInv ==
    \A w \in Worker :
        /\ pc[w] = "commitApt" =>
              /\ pending = WithApt(db, job[w], client[w])
              /\ ~SlotTaken(db, job[w])
        /\ pc[w] = "commitStatus" =>
              /\ job[w].apt \in DOMAIN db.apts
              /\ pending = WithStatus(db, job[w].apt, job[w].status)
        /\ pc[w] = "updateDrawer" => pending = WithInvoice(db, job[w].apt)

\* Between the conflict query and COMMIT, and between the two UPDATEs of a
\* status change, a request is isolated from every other: the strengthening
\* under which the properties below are inductive.
IsolationInv == LockInv /\ SnapshotInv /\ PendingInv

\* When an appointment is over, counted from the midnight before it starts.
Stop(a) == IF a.start < a.end THEN a.end ELSE a.end + DayLen

Overlap(a, b) ==
    /\ a.staff = b.staff
    /\ a.date = b.date
    /\ a.start < Stop(b)
    /\ b.start < Stop(a)

WithinDay(a) == Stop(a) = a.end

\* No booking that becomes visible overlaps an appointment of the same stylist
\* that is not cancelled at that moment, as long as neither runs past
\* midnight: the conflict query and the INSERT of Appointment::create behave
\* as one step although other requests book and cancel between them.
BookingNeverOverlaps ==
    [][\A i \in DOMAIN db'.apts \ DOMAIN db.apts, k \in DOMAIN db.apts :
          /\ db.apts[k].status # "cancelled"
          /\ WithinDay(db'.apts[i])
          /\ WithinDay(db.apts[k])
          => ~Overlap(db'.apts[i], db.apts[k])]_db

\* A stylist shown as in service has an active appointment, whatever mixture of
\* status changes, bookings, availability switches and crashes came before:
\* updateStatus changes the appointment and its stylist in one transaction.
InServiceHasActive ==
    \A s \in Stylist : db.staff[s] = "in_service" =>
        \E i \in DOMAIN db.apts : db.apts[i].staff = s /\ db.apts[i].status = "active"

\* However many times and by however many workers a visit is completed, it
\* gets at most one invoice per worker that can race: the second check of
\* createFromCompletedAppointment sees the first invoice.
InvoicesPerVisitBounded ==
    \A i \in AptId : db.invoices[i] <= Cardinality(Worker)

\* A completion answered with success has its invoice by then, although the
\* invoice is not part of the transaction that completed the appointment.
SuccessHasInvoice ==
    [][\A w \in Worker :
          /\ pc[w] \in ChangePc
          /\ job[w].status = "completed"
          /\ resp'[w] = "ok"
          => db'.invoices[job[w].apt] > 0]_vars

\* Every accepted request is answered, however the others use the lock:
\* nothing is retried and no wait for the lock is unbounded.
EveryRequestAnswered == \A w \in Worker : pc[w] # "idle" ~> pc[w] = "idle"

\* The calendar as people read it: the client's contact in place of the id.
CalendarOf(apts, clients) ==
    [i \in DOMAIN apts |->
        [contact |-> clients[apts[i].client], staff |-> apts[i].staff,
         date |-> apts[i].date, start |-> apts[i].start, end |-> apts[i].end,
         status |-> apts[i].status]]

Calendar == INSTANCE AtomicCalendar WITH
    calendar <- CalendarOf(db.apts, db.clients),
    duty <- db.staff,
    SeedCalendar <- CalendarOf(SeedApts, SeedClients)

\* Concurrent requests have the effect of bookings, status changes and switches
\* that happen at once: a booking is checked, entered and filed under its
\* caller in one step, although the client was found or created in an earlier
\* transaction and others have come since.
CalendarSpec == Calendar!Spec

\* What "Stylist is already booked for this time slot." promises: no stylist
\* has two overlapping appointments that are not cancelled.
NoDoubleBooking ==
    \A i, k \in DOMAIN db.apts :
        /\ i # k
        /\ db.apts[i].status # "cancelled"
        /\ db.apts[k].status # "cancelled"
        => ~Overlap(db.apts[i], db.apts[k])

\* What the early return "Already invoiced" promises.
InvoicedOnce ==
    \A i \in AptId : db.invoices[i] <= 1
=============================================================================
