------------------------- MODULE AppointmentsProofs -------------------------
(***************************************************************************)
(* Proofs about Appointments, for every set of workers, stylists, dates    *)
(* and requests.  First that a transaction runs alone and no booking       *)
(* overlaps one of its stylist; then that the appointment side implements  *)
(* AtomicCalendar; then what is true of its automatic invoices.            *)
(*                                                                         *)
(* Last, proofs about OnlineBooking, whose server is that of Appointments: *)
(* the booking page over it, call by call, implements BookingPage, for any *)
(* set of browsers and times and any number of presses.                    *)
(***************************************************************************)
EXTENDS OnlineBooking, SequenceTheorems, FiniteSetTheorems, TLAPS

-----------------------------------------------------------------------------
(***************************************************************************)
(* What the statements of a request do to a well-typed database.           *)
(***************************************************************************)

\* A time of day stays one after adding a duration and wrapping.
LEMMA EndTimeType ==
    ASSUME NEW start \in TimeOfDay, NEW dur \in Nat
    PROVE  EndTime(start, dur) \in TimeOfDay
BY SlotAssumption DEF EndTime, TimeOfDay

\* The INSERT of a client.
LEMMA WithClientType ==
    ASSUME NEW d \in Databases, NEW c \in Contact
    PROVE  /\ WithClient(d, c) \in Databases
           /\ WithClient(d, c).apts = d.apts
           /\ WithClient(d, c).staff = d.staff
<1>1. Append(d.clients, c) \in Seq(Contact)
  BY DEF Databases
<1>2. QED
  BY <1>1 DEF WithClient, Databases

\* The INSERT of an appointment: it gets the next id, the others keep theirs.
LEMMA WithAptType ==
    ASSUME NEW d \in Databases, NEW b \in Booking, NEW c \in Nat
    PROVE  /\ WithApt(d, b, c) \in Databases
           /\ WithApt(d, b, c).staff = d.staff
           /\ WithApt(d, b, c).apts = Append(d.apts, NewApt(b, c))
           /\ NewApt(b, c) \in Apt
<1>1. NewApt(b, c) \in Apt
  BY EndTimeType DEF NewApt, Booking, Apt, AptStatus
<1>2. Append(d.apts, NewApt(b, c)) \in Seq(Apt)
  BY <1>1 DEF Databases
<1>3. QED
  BY <1>1, <1>2 DEF WithApt, Databases

\* The UPDATEs of an appointment and of its stylist.
LEMMA WithStatusType ==
    ASSUME NEW d \in Databases, NEW i \in DOMAIN d.apts, NEW status \in AptStatus
    PROVE  /\ WithStatus(d, i, status) \in Databases
           /\ DOMAIN WithStatus(d, i, status).apts = DOMAIN d.apts
           /\ WithStatus(d, i, status).apts =
                 [d.apts EXCEPT ![i] = [d.apts[i] EXCEPT !.status = status]]
           /\ WithStatus(d, i, status).staff =
                 [d.staff EXCEPT ![d.apts[i].staff] = StaffStatusFor(status)]
<1>1. d.apts \in Seq(Apt) /\ d.apts[i] \in Apt
  BY DEF Databases
<1>2. [d.apts[i] EXCEPT !.status = status] \in Apt
  BY <1>1 DEF Apt
<1>3. [d.apts EXCEPT ![i] = [d.apts[i] EXCEPT !.status = status]] \in Seq(Apt)
  BY <1>1, <1>2
<1>4. StaffStatusFor(status) \in StaffStatus
  BY DEF StaffStatusFor, StaffStatus
<1>5. [d.staff EXCEPT ![d.apts[i].staff] = StaffStatusFor(status)]
         \in [Stylist -> StaffStatus]
  BY <1>1, <1>4 DEF Databases, Apt
<1>6. QED
  BY <1>3, <1>5 DEF WithStatus, Databases

\* A status change loses and adds no appointment.
LEMMA WithStatusKeepsIds ==
    ASSUME NEW d \in Databases, NEW i \in DOMAIN d.apts, NEW status \in AptStatus
    PROVE  DOMAIN WithStatus(d, i, status).apts = DOMAIN d.apts
BY DEF WithStatus, Databases

\* The INSERT of an invoice.
LEMMA WithInvoiceType ==
    ASSUME NEW d \in Databases, NEW i \in AptId
    PROVE  /\ WithInvoice(d, i) \in Databases
           /\ WithInvoice(d, i).apts = d.apts
           /\ WithInvoice(d, i).staff = d.staff
<1>1. d.invoices \in [AptId -> Nat] /\ d.invoices[i] + 1 \in Nat
  BY DEF Databases
<1>2. [d.invoices EXCEPT ![i] = d.invoices[i] + 1] \in [AptId -> Nat]
  BY <1>1
<1>3. QED
  BY <1>2 DEF WithInvoice, Databases

\* The single-statement requests.
LEMMA WithStaffType ==
    ASSUME NEW d \in Databases, NEW s \in Stylist, NEW status \in StaffStatus
    PROVE  /\ WithStaff(d, s, status) \in Databases
           /\ WithStaff(d, s, status).apts = d.apts
           /\ WithStaff(d, s, status).staff = [d.staff EXCEPT ![s] = status]
BY DEF WithStaff, Databases

\* Opening and closing the day's drawer.
LEMMA WithClosedType ==
    ASSUME NEW d \in Databases, NEW closed \in BOOLEAN
    PROVE  /\ WithClosed(d, closed) \in Databases
           /\ WithClosed(d, closed).apts = d.apts
           /\ WithClosed(d, closed).staff = d.staff
BY DEF WithClosed, Databases

-----------------------------------------------------------------------------
(***************************************************************************)
(* The inductive invariant.  InServiceHasActive speaks of the committed    *)
(* database only; a COMMIT keeps it because the pending database is known  *)
(* exactly (PendingInv), and that is known because nobody commits while    *)
(* somebody writes (LockInv).                                              *)
(***************************************************************************)

Inv == TypeOK /\ IsolationInv /\ InServiceHasActive

\* InServiceHasActive of any database.
ServiceOK(d) ==
    \A s \in Stylist : d.staff[s] = "in_service" =>
        \E i \in DOMAIN d.apts : d.apts[i].staff = s /\ d.apts[i].status = "active"

\* A database in which no appointment has disappeared and ServiceOK still holds.
Follows(new, d) ==
    /\ new \in Databases
    /\ DOMAIN d.apts \subseteq DOMAIN new.apts
    /\ ServiceOK(new)

\* A booking leaves the stylists and the other appointments as they were.
LEMMA WithAptFollows ==
    ASSUME NEW d \in Databases, NEW b \in Booking, NEW c \in Nat, ServiceOK(d)
    PROVE  Follows(WithApt(d, b, c), d)
<1> DEFINE new == WithApt(d, b, c)
<1>1. /\ new \in Databases
      /\ new.staff = d.staff
      /\ new.apts = Append(d.apts, NewApt(b, c))
      /\ d.apts \in Seq(Apt)
  BY WithAptType DEF Databases
<1>2. \A i \in DOMAIN d.apts : i \in DOMAIN new.apts /\ new.apts[i] = d.apts[i]
  <2>1. NewApt(b, c) \in Apt
    BY WithAptType
  <2>2. /\ DOMAIN d.apts = 1 .. Len(d.apts)
        /\ DOMAIN new.apts = 1 .. Len(d.apts) + 1
        /\ \A i \in 1 .. Len(d.apts) : new.apts[i] = d.apts[i]
    BY <1>1, <2>1, AppendProperties, LenProperties
  <2>3. QED
    BY <2>2, <1>1, LenProperties
<1>3. ServiceOK(new)
  BY <1>1, <1>2 DEF ServiceOK
<1>4. QED
  BY <1>1, <1>2, <1>3 DEF Follows

\* A status change makes its own stylist in service exactly when it makes the
\* appointment active, and no other stylist has lost an active appointment.
LEMMA WithStatusFollows ==
    ASSUME NEW d \in Databases, NEW i \in DOMAIN d.apts, NEW status \in AptStatus,
           ServiceOK(d)
    PROVE  Follows(WithStatus(d, i, status), d)
<1> DEFINE new == WithStatus(d, i, status)
<1>1. /\ new \in Databases
      /\ DOMAIN new.apts = DOMAIN d.apts
      /\ new.apts = [d.apts EXCEPT ![i] = [d.apts[i] EXCEPT !.status = status]]
      /\ new.staff = [d.staff EXCEPT ![d.apts[i].staff] = StaffStatusFor(status)]
  BY WithStatusType
<1>2. /\ d.apts \in Seq(Apt)
      /\ d.apts[i] \in Apt
      /\ d.staff \in [Stylist -> StaffStatus]
  BY DEF Databases
<1>3. /\ new.apts[i].staff = d.apts[i].staff
      /\ new.apts[i].status = status
      /\ \A k \in DOMAIN d.apts \ {i} : new.apts[k] = d.apts[k]
  BY <1>1, <1>2 DEF Apt
<1>4. ASSUME NEW s \in Stylist, new.staff[s] = "in_service"
      PROVE  \E k \in DOMAIN new.apts : new.apts[k].staff = s /\ new.apts[k].status = "active"
  <2>1. CASE s = d.apts[i].staff
    <3>1. status = "active"
      BY <1>1, <1>2, <1>4, <2>1 DEF StaffStatusFor
    <3>2. QED
      BY <1>1, <1>3, <2>1, <3>1
  <2>2. CASE s # d.apts[i].staff
    <3>1. d.staff[s] = "in_service"
      BY <1>1, <1>2, <1>4, <2>2
    <3>2. PICK k \in DOMAIN d.apts : d.apts[k].staff = s /\ d.apts[k].status = "active"
      BY <3>1 DEF ServiceOK
    <3>3. k # i
      BY <2>2, <3>2
    <3>4. QED
      BY <1>1, <1>3, <3>2, <3>3
  <2>3. QED
    BY <2>1, <2>2
<1>5. QED
  BY <1>1, <1>4 DEF Follows, ServiceOK

\* The statements that touch neither appointments nor put anyone in service.
LEMMA OtherFollows ==
    ASSUME NEW d \in Databases, ServiceOK(d)
    PROVE  /\ \A c \in Contact : Follows(WithClient(d, c), d)
           /\ \A i \in AptId : Follows(WithInvoice(d, i), d)
           /\ \A c \in BOOLEAN : Follows(WithClosed(d, c), d)
           /\ \A s \in Stylist, status \in {"available", "off"} :
                 Follows(WithStaff(d, s, status), d)
<1>1. \A c \in Contact : Follows(WithClient(d, c), d)
  BY WithClientType DEF Follows, ServiceOK
<1>2. \A i \in AptId : Follows(WithInvoice(d, i), d)
  BY WithInvoiceType DEF Follows, ServiceOK
<1>3. \A c \in BOOLEAN : Follows(WithClosed(d, c), d)
  BY WithClosedType DEF Follows, ServiceOK
<1>4. ASSUME NEW s \in Stylist, NEW status \in {"available", "off"}
      PROVE  Follows(WithStaff(d, s, status), d)
  <2>1. status \in StaffStatus
    BY DEF StaffStatus
  <2>2. /\ WithStaff(d, s, status) \in Databases
        /\ WithStaff(d, s, status).apts = d.apts
        /\ WithStaff(d, s, status).staff = [d.staff EXCEPT ![s] = status]
    BY <2>1, WithStaffType
  <2>3. d.staff \in [Stylist -> StaffStatus]
    BY DEF Databases
  <2>4. QED
    BY <2>2, <2>3 DEF Follows, ServiceOK
<1>5. QED
  BY <1>1, <1>2, <1>3, <1>4

-----------------------------------------------------------------------------
(***************************************************************************)
(* How a step changes the variables of the requests.                       *)
(***************************************************************************)

Others(w) ==
    \A v \in Worker \ {w} :
        pc'[v] = pc[v] /\ job'[v] = job[v] /\ client'[v] = client[v]

\* The request goes on with a further call of the same handler.
LEMMA GotoStep ==
    ASSUME RequestsTypeOK, NEW w \in Worker, NEW next, Goto(w, next),
           \/ pc[w] \in BookingPc /\ next \in BookingPc
           \/ pc[w] \in ChangePc /\ next \in ChangePc,
           UNCHANGED client \/ \E c \in Nat : client' = [client EXCEPT ![w] = c]
    PROVE  /\ RequestsTypeOK'
           /\ Others(w)
           /\ pc'[w] = next
           /\ job'[w] = job[w]
BY DEF RequestsTypeOK, Goto, Others, BookingPc, ChangePc

\* The request is answered, or its worker dies.
LEMMA AnswerStep ==
    ASSUME RequestsTypeOK, NEW w \in Worker, NEW r \in {"none", "ok", "failed"},
           Answer(w, r)
    PROVE  /\ RequestsTypeOK'
           /\ Others(w)
           /\ pc'[w] = "idle"
BY DEF RequestsTypeOK, Answer, Others, BookingPc, ChangePc

\* A new request arrives.
LEMMA AcceptStep ==
    ASSUME RequestsTypeOK, NEW w \in Worker, NEW j, NEW first, Accept(w, j, first),
           \/ j \in Booking /\ first = "findClient"
           \/ j \in Change /\ first = "readApt"
    PROVE  /\ RequestsTypeOK'
           /\ Others(w)
           /\ pc[w] = "idle"
           /\ pc'[w] = first
           /\ UNCHANGED walVars
BY DEF RequestsTypeOK, Accept, Others, BookingPc, ChangePc

-----------------------------------------------------------------------------
(***************************************************************************)
(* How a step on the database preserves the invariant, whichever request   *)
(* makes it.  A worker is plain when it holds neither the lock nor         *)
(* something it has read and will write upon.                              *)
(***************************************************************************)

PlainPc == {"idle"} \cup ((BookingPc \cup ChangePc)
                           \ (WritingPc \cup {"insertApt", "writeStatus"}))

\* A step that touches no database variable: the worker goes on to a call that
\* depends on nothing read before.
LEMMA ThinkStep ==
    ASSUME Inv, NEW w \in Worker, RequestsTypeOK', Others(w), UNCHANGED walVars,
           pc[w] \notin WritingPc, pc'[w] \in PlainPc
    PROVE  Inv'
<1> USE DEF walVars
<1>1. TypeOK'
  BY DEF Inv, TypeOK, WalTypeOK
<1>2. LockInv'
  BY DEF Inv, IsolationInv, LockInv, LockFree, Others, PlainPc, WritingPc
<1>3. SnapshotInv'
  BY DEF Inv, IsolationInv, SnapshotInv, Others, PlainPc
<1>4. PendingInv'
  BY DEF Inv, IsolationInv, PendingInv, Others, PlainPc, WritingPc
<1>5. InServiceHasActive'
  BY DEF Inv, InServiceHasActive
<1>6. QED
  BY <1>1, <1>2, <1>3, <1>4, <1>5 DEF Inv, IsolationInv

\* A COMMIT, or a statement that is its own transaction: whatever the others
\* have read is stale from then on, so nothing they found needs to hold still.
LEMMA InstallStep ==
    ASSUME Inv, NEW w \in Worker, RequestsTypeOK', Others(w),
           NEW new, Install(w, new), Follows(new, db),
           LockFree \/ writer = w, pc'[w] \in PlainPc
    PROVE  Inv'
<1>1. TypeOK'
  BY NoWorkerAssumption
     DEF Inv, TypeOK, WalTypeOK, Install, OutdatedBy, Follows
<1>2. \A v \in Worker \ {w} : pc'[v] \notin WritingPc
  BY NoWorkerAssumption DEF Inv, IsolationInv, LockInv, LockFree, Others
<1>3. LockInv'
  BY <1>2, NoWorkerAssumption
     DEF Inv, LockInv, LockFree, Install, PlainPc, WritingPc
<1>4. SnapshotInv'
  <2>1. ASSUME NEW v \in Worker
        PROVE  pc'[v] = "insertApt" => snapshot'[v] # "fresh"
    BY DEF Install, OutdatedBy, PlainPc, Inv, TypeOK, WalTypeOK
  <2>2. ASSUME NEW v \in Worker, pc'[v] = "writeStatus"
        PROVE  job'[v].apt \in DOMAIN db'.apts
    BY <2>2 DEF Inv, IsolationInv, SnapshotInv, Install, Follows, PlainPc, Others
  <2>3. QED
    BY <2>1, <2>2 DEF SnapshotInv
<1>5. PendingInv'
  BY <1>2 DEF PendingInv, PlainPc, WritingPc
<1>6. InServiceHasActive'
  BY DEF Install, Follows, ServiceOK, InServiceHasActive
<1>7. QED
  BY <1>1, <1>3, <1>4, <1>5, <1>6 DEF Inv, IsolationInv

\* ROLLBACK: the pending database is the committed one again.
LEMMA RollbackStep ==
    ASSUME Inv, NEW w \in Worker, RequestsTypeOK', Others(w), Rollback(w),
           pc'[w] \in PlainPc
    PROVE  Inv'
<1>1. TypeOK'
  BY DEF Inv, TypeOK, WalTypeOK, Rollback
<1>2. LockInv'
  BY NoWorkerAssumption
     DEF Inv, TypeOK, WalTypeOK, IsolationInv, LockInv, LockFree, Rollback, Others,
         PlainPc, WritingPc
<1>3. SnapshotInv'
  BY DEF Inv, TypeOK, WalTypeOK, IsolationInv, SnapshotInv, Rollback, Others, PlainPc
<1>4. PendingInv'
  <2>1. ASSUME NEW v \in Worker, pc'[v] \in WritingPc
        PROVE  /\ v # w
               /\ pending' = pending /\ db' = db
               /\ pc[v] = pc'[v] /\ job'[v] = job[v] /\ client'[v] = client[v]
    BY <2>1 DEF Inv, IsolationInv, LockInv, Rollback, Others, PlainPc, WritingPc
  <2>2. QED
    BY <2>1 DEF Inv, IsolationInv, PendingInv, WritingPc
<1>5. InServiceHasActive'
  BY DEF Inv, InServiceHasActive, Rollback
<1>6. QED
  BY <1>1, <1>2, <1>3, <1>4, <1>5 DEF Inv, IsolationInv

\* The first SELECT of a transaction, with what it found.
LEMMA ReadStep ==
    ASSUME Inv, NEW w \in Worker, RequestsTypeOK', Others(w), OpenSnapshot(w),
           pc[w] \notin WritingPc,
           \/ pc'[w] \in PlainPc
           \/ pc'[w] = "insertApt" /\ ~SlotTaken(db, job'[w])
           \/ pc'[w] = "writeStatus" /\ job'[w].apt \in DOMAIN db.apts
    PROVE  Inv'
<1>1. TypeOK'
  BY DEF Inv, TypeOK, WalTypeOK, OpenSnapshot
<1>2. LockInv'
  BY DEF Inv, IsolationInv, LockInv, LockFree, OpenSnapshot, Others, PlainPc, WritingPc
<1>3. SnapshotInv'
  BY DEF Inv, TypeOK, WalTypeOK, IsolationInv, SnapshotInv, OpenSnapshot, Others, PlainPc
<1>4. PendingInv'
  BY DEF Inv, IsolationInv, PendingInv, OpenSnapshot, Others, PlainPc, WritingPc
<1>5. InServiceHasActive'
  BY DEF Inv, InServiceHasActive, OpenSnapshot
<1>6. QED
  BY <1>1, <1>2, <1>3, <1>4, <1>5 DEF Inv, IsolationInv

\* The statement that takes the write lock: the pending database is the
\* committed one and that statement.
LEMMA LockStep ==
    ASSUME Inv, NEW w \in Worker, RequestsTypeOK', Others(w),
           NEW new \in Databases, TakeLock(w, new), pc'[w] \in WritingPc,
           pc'[w] = "commitApt" =>
              new = WithApt(db, job'[w], client'[w]) /\ ~SlotTaken(db, job'[w]),
           pc'[w] = "commitStatus" =>
              /\ job'[w].apt \in DOMAIN db.apts
              /\ new = WithStatus(db, job'[w].apt, job'[w].status),
           pc'[w] = "updateDrawer" => new = WithInvoice(db, job'[w].apt)
    PROVE  Inv'
<1>1. TypeOK'
  BY DEF Inv, TypeOK, WalTypeOK, TakeLock
<1>2. \A v \in Worker \ {w} : pc'[v] \notin WritingPc
  BY NoWorkerAssumption DEF Inv, IsolationInv, LockInv, LockFree, TakeLock, Others
<1>3. LockInv'
  BY <1>2, NoWorkerAssumption DEF LockInv, LockFree, TakeLock
<1>4. SnapshotInv'
  BY DEF Inv, TypeOK, WalTypeOK, IsolationInv, SnapshotInv, TakeLock, Others, WritingPc
<1>5. PendingInv'
  BY <1>2 DEF PendingInv, TakeLock, WritingPc
<1>6. InServiceHasActive'
  BY DEF Inv, InServiceHasActive, TakeLock
<1>7. QED
  BY <1>1, <1>3, <1>4, <1>5, <1>6 DEF Inv, IsolationInv

-----------------------------------------------------------------------------
(***************************************************************************)
(* The actions.                                                            *)
(***************************************************************************)

\* What the invariant says about the databases, in the terms of the lemmas.
LEMMA InvFacts ==
    ASSUME Inv
    PROVE  /\ RequestsTypeOK
           /\ db \in Databases
           /\ ServiceOK(db)
BY DEF Inv, TypeOK, InServiceHasActive, ServiceOK

\* A request that fails, or dies, rolls back and is over.
LEMMA FailInv ==
    ASSUME Inv, NEW w \in Worker, NEW r \in {"none", "failed"}, Fail(w, r)
    PROVE  Inv'
BY InvFacts, AnswerStep, RollbackStep DEF Fail, PlainPc

\* The calls of createAppointment preserve the invariant.
LEMMA BookInv ==
    ASSUME Inv, NEW w \in Worker, Book(w)
    PROVE  Inv'
<1>0. pc[w] \in BookingPc => job[w] \in Booking /\ client[w] \in Nat
  BY InvFacts DEF RequestsTypeOK
<1>1. CASE FindClient(w)
  <2>1. \/ Goto(w, "newClient") /\ UNCHANGED client
        \/ Goto(w, "checkSlot") /\ \E c \in Nat : client' = [client EXCEPT ![w] = c]
    <3>1. \A i \in ClientsOf(db, job[w].contact) : i \in Nat
      BY InvFacts DEF ClientsOf, Databases
    <3>2. QED
      BY <1>1, <3>1 DEF FindClient
  <2>2. PICK next \in {"newClient", "checkSlot"} :
            Goto(w, next)
            /\ (UNCHANGED client \/ \E c \in Nat : client' = [client EXCEPT ![w] = c])
    BY <2>1
  <2>3. RequestsTypeOK' /\ Others(w) /\ pc'[w] = next
    BY <1>1, <2>2, InvFacts, GotoStep DEF FindClient, BookingPc
  <2>4. QED
    BY <1>1, <2>3, ThinkStep DEF FindClient, PlainPc, BookingPc, WritingPc
<1>2. CASE NewClient(w)
  <2>1. Len(db.clients) + 1 \in Nat
    BY InvFacts DEF Databases
  <2>2. RequestsTypeOK' /\ Others(w) /\ pc'[w] = "checkSlot"
    BY <1>2, <2>1, InvFacts, GotoStep DEF NewClient, BookingPc
  <2>3. Follows(WithClient(db, job[w].contact), db)
    BY <1>0, <1>2, InvFacts, OtherFollows DEF NewClient, BookingPc, Booking
  <2>4. QED
    BY <1>2, <2>2, <2>3, InstallStep
       DEF NewClient, Autocommit, PlainPc, BookingPc, WritingPc
<1>3. CASE ClientLockTimeout(w)
  BY <1>3, FailInv DEF ClientLockTimeout
<1>4. CASE CheckSlot(w)
  <2>1. CASE Fail(w, "failed")
    BY <2>1, FailInv
  <2>2. CASE ~SlotTaken(db, job[w]) /\ OpenSnapshot(w) /\ Goto(w, "insertApt") /\ UNCHANGED client
    <3>1. RequestsTypeOK' /\ Others(w) /\ pc'[w] = "insertApt" /\ job'[w] = job[w]
      BY <1>4, <2>2, InvFacts, GotoStep DEF CheckSlot, BookingPc
    <3>2. QED
      BY <1>4, <2>2, <3>1, ReadStep DEF CheckSlot, WritingPc
  <2>3. QED
    BY <1>4, <2>1, <2>2 DEF CheckSlot
<1>5. CASE InsertApt(w)
  <2>1. CASE Fail(w, "failed")
    BY <2>1, FailInv
  <2>2. CASE /\ CanUpgrade(w)
             /\ TakeLock(w, WithApt(db, job[w], client[w]))
             /\ Goto(w, "commitApt")
             /\ UNCHANGED client
    <3>1. RequestsTypeOK' /\ Others(w) /\ pc'[w] = "commitApt" /\ job'[w] = job[w]
      BY <1>5, <2>2, InvFacts, GotoStep DEF InsertApt, BookingPc
    <3>2. WithApt(db, job[w], client[w]) \in Databases
      BY <1>0, <1>5, InvFacts, WithAptType DEF InsertApt, BookingPc
    <3>3. ~SlotTaken(db, job[w])
      BY <1>5, <2>2 DEF InsertApt, CanUpgrade, Inv, IsolationInv, SnapshotInv
    <3>4. QED
      BY <2>2, <3>1, <3>2, <3>3, LockStep DEF WritingPc
  <2>3. QED
    BY <1>5, <2>1, <2>2 DEF InsertApt
<1>6. CASE CommitApt(w)
  <2>1. RequestsTypeOK' /\ Others(w) /\ pc'[w] = "idle"
    BY <1>6, InvFacts, AnswerStep DEF CommitApt
  <2>2. pending = WithApt(db, job[w], client[w])
    BY <1>6 DEF CommitApt, Inv, IsolationInv, PendingInv
  <2>3. Follows(pending, db)
    BY <1>0, <1>6, <2>2, InvFacts, WithAptFollows DEF CommitApt, BookingPc
  <2>4. QED
    BY <1>6, <2>1, <2>3, InstallStep DEF CommitApt, Commit, PlainPc
<1>7. QED
  BY <1>1, <1>2, <1>3, <1>4, <1>5, <1>6 DEF Book

\* The calls of updateStatus and of the automatic invoice preserve it.
LEMMA ChangeStatusInv ==
    ASSUME Inv, NEW w \in Worker, ChangeStatus(w)
    PROVE  Inv'
<1>0. pc[w] \in ChangePc => /\ job[w] \in Change
                            /\ job[w].apt \in AptId
                            /\ job[w].status \in AptStatus
  BY InvFacts DEF RequestsTypeOK, Change
<1>1. CASE ReadApt(w)
  <2>1. CASE Fail(w, "failed")
    BY <2>1, FailInv
  <2>2. CASE /\ job[w].apt \in DOMAIN db.apts
             /\ OpenSnapshot(w)
             /\ Goto(w, "writeStatus")
             /\ UNCHANGED client
    <3>1. RequestsTypeOK' /\ Others(w) /\ pc'[w] = "writeStatus" /\ job'[w] = job[w]
      BY <1>1, <2>2, InvFacts, GotoStep DEF ReadApt, ChangePc
    <3>2. QED
      BY <1>1, <2>2, <3>1, ReadStep DEF ReadApt, WritingPc
  <2>3. QED
    BY <1>1, <2>1, <2>2 DEF ReadApt
<1>2. CASE WriteStatus(w)
  <2>1. CASE Fail(w, "failed")
    BY <2>1, FailInv
  <2>2. CASE /\ TakeLock(w, WithStatus(db, job[w].apt, job[w].status))
             /\ Goto(w, "commitStatus")
             /\ UNCHANGED client
    <3>1. RequestsTypeOK' /\ Others(w) /\ pc'[w] = "commitStatus" /\ job'[w] = job[w]
      BY <1>2, <2>2, InvFacts, GotoStep DEF WriteStatus, ChangePc
    <3>2. job[w].apt \in DOMAIN db.apts
      BY <1>2 DEF WriteStatus, Inv, IsolationInv, SnapshotInv
    <3>3. WithStatus(db, job[w].apt, job[w].status) \in Databases
      BY <1>0, <1>2, <3>2, InvFacts, WithStatusType DEF WriteStatus, ChangePc
    <3>4. QED
      BY <2>2, <3>1, <3>2, <3>3, LockStep DEF WritingPc
  <2>3. QED
    BY <1>2, <2>1, <2>2 DEF WriteStatus
<1>3. CASE CommitStatus(w)
  <2>1. /\ job[w].apt \in DOMAIN db.apts
        /\ pending = WithStatus(db, job[w].apt, job[w].status)
    BY <1>3 DEF CommitStatus, Inv, IsolationInv, PendingInv
  <2>2. Follows(pending, db)
    BY <1>0, <1>3, <2>1, InvFacts, WithStatusFollows DEF CommitStatus, ChangePc
  <2>3. RequestsTypeOK' /\ Others(w) /\ pc'[w] \in {"idle", "checkInvoiced"}
    <3>1. CASE Goto(w, "checkInvoiced") /\ UNCHANGED client
      BY <1>3, <3>1, InvFacts, GotoStep DEF CommitStatus, ChangePc
    <3>2. CASE Answer(w, "ok")
      BY <3>2, InvFacts, AnswerStep
    <3>3. QED
      BY <1>3, <3>1, <3>2 DEF CommitStatus
  <2>4. QED
    BY <1>3, <2>2, <2>3, InstallStep
       DEF CommitStatus, Commit, PlainPc, ChangePc, WritingPc
<1>4. CASE CheckInvoiced(w)
  <2>1. RequestsTypeOK' /\ Others(w) /\ pc'[w] \in {"idle", "loadApt"}
    <3>1. CASE Goto(w, "loadApt") /\ UNCHANGED client
      BY <1>4, <3>1, InvFacts, GotoStep DEF CheckInvoiced, ChangePc
    <3>2. CASE Answer(w, "ok")
      BY <3>2, InvFacts, AnswerStep
    <3>3. QED
      BY <1>4, <3>1, <3>2 DEF CheckInvoiced
  <2>2. QED
    BY <1>4, <2>1, ThinkStep DEF CheckInvoiced, PlainPc, ChangePc, WritingPc
<1>5. CASE LoadApt(w)
  <2>1. RequestsTypeOK' /\ Others(w) /\ pc'[w] = "insertInvoice"
    BY <1>5, InvFacts, GotoStep DEF LoadApt, ChangePc
  <2>2. QED
    BY <1>5, <2>1, ReadStep DEF LoadApt, PlainPc, ChangePc, WritingPc
<1>6. CASE InsertInvoice(w)
  <2>1. CASE Fail(w, "failed")
    BY <2>1, FailInv
  <2>2. CASE /\ TakeLock(w, WithInvoice(db, job[w].apt))
             /\ Goto(w, "updateDrawer")
             /\ UNCHANGED client
    <3>1. RequestsTypeOK' /\ Others(w) /\ pc'[w] = "updateDrawer" /\ job'[w] = job[w]
      BY <1>6, <2>2, InvFacts, GotoStep DEF InsertInvoice, ChangePc
    <3>2. WithInvoice(db, job[w].apt) \in Databases
      BY <1>0, <1>6, InvFacts, WithInvoiceType DEF InsertInvoice, ChangePc
    <3>3. QED
      BY <2>2, <3>1, <3>2, LockStep DEF WritingPc
  <2>3. QED
    BY <1>6, <2>1, <2>2 DEF InsertInvoice
<1>7. CASE UpdateDrawer(w)
  <2>1. CASE Fail(w, "failed")
    BY <2>1, FailInv
  <2>2. CASE Commit(w, pending) /\ Answer(w, "ok")
    <3>1. RequestsTypeOK' /\ Others(w) /\ pc'[w] = "idle"
      BY <2>2, InvFacts, AnswerStep
    <3>2. pending = WithInvoice(db, job[w].apt)
      BY <1>7 DEF UpdateDrawer, Inv, IsolationInv, PendingInv
    <3>3. Follows(pending, db)
      BY <1>0, <1>7, <3>2, InvFacts, OtherFollows DEF UpdateDrawer, ChangePc
    <3>4. QED
      BY <2>2, <3>1, <3>3, InstallStep DEF Commit, PlainPc
  <2>3. QED
    BY <1>7, <2>1, <2>2 DEF UpdateDrawer
<1>8. QED
  BY <1>1, <1>2, <1>3, <1>4, <1>5, <1>6, <1>7 DEF ChangeStatus

\* So do new requests and those of a single statement.
LEMMA RequestInv ==
    ASSUME Inv, NEW w \in Worker, Request(w)
    PROVE  Inv'
<1>1. CASE RequestBooking(w)
  <2>1. PICK b \in Booking : Accept(w, b, "findClient")
    BY <1>1, SlotAssumption DEF RequestBooking
  <2>2. QED
    BY <2>1, InvFacts, AcceptStep, ThinkStep DEF PlainPc, BookingPc, WritingPc
<1>2. CASE RequestStatus(w)
  <2>1. PICK c \in Change : Accept(w, c, "readApt")
    BY <1>2, SlotAssumption DEF RequestStatus
  <2>2. QED
    BY <2>1, InvFacts, AcceptStep, ThinkStep DEF PlainPc, ChangePc, WritingPc
<1>3. ASSUME NEW new, Follows(new, db), Single(w, new)
      PROVE  Inv'
  BY <1>3, InvFacts, AnswerStep, InstallStep DEF Single, Autocommit, PlainPc
<1>4. CASE ToggleStatus(w)
  BY <1>3, <1>4, InvFacts, OtherFollows DEF ToggleStatus
<1>5. CASE CloseDrawer(w)
  BY <1>3, <1>5, InvFacts, OtherFollows DEF CloseDrawer
<1>6. CASE AddClient(w)
  BY <1>3, <1>6, InvFacts, OtherFollows DEF AddClient
<1>7. QED
  BY <1>1, <1>2, <1>4, <1>5, <1>6 DEF Request

\* Midnight moves nobody's appointment and finds no transaction writing.
LEMMA NewDayInv ==
    ASSUME Inv, NewDay
    PROVE  Inv'
<1>1. /\ Follows(db', db)
      /\ db'.apts = db.apts
      /\ pending' = db'
      /\ UNCHANGED <<writer, snapshot, pc, job, client, resp>>
  BY InvFacts, OtherFollows, WithClosedType DEF NewDay, reqVars
<1>2. \A w \in Worker : pc[w] \notin WritingPc
  BY NoWorkerAssumption DEF NewDay, Inv, IsolationInv, LockInv, LockFree
<1>3. TypeOK'
  BY <1>1 DEF Inv, TypeOK, WalTypeOK, Follows, RequestsTypeOK
<1>4. LockInv'
  BY <1>1 DEF Inv, IsolationInv, LockInv, LockFree
<1>5. SnapshotInv'
  BY <1>1 DEF Inv, IsolationInv, SnapshotInv, SlotTaken
<1>6. PendingInv'
  BY <1>1, <1>2 DEF PendingInv, WritingPc
<1>7. InServiceHasActive'
  BY <1>1 DEF Follows, ServiceOK, InServiceHasActive
<1>8. QED
  BY <1>3, <1>4, <1>5, <1>6, <1>7 DEF Inv, IsolationInv

\* The seeded database satisfies the invariant.
LEMMA InitInv == Init => Inv
<1> SUFFICES ASSUME Init PROVE Inv
  OBVIOUS
<1>1. Seeded \in Databases
  BY SeedAssumption DEF Seeded, Databases, StaffStatus
<1>2. TypeOK
  BY <1>1 DEF Init, WalInit, TypeOK, WalTypeOK, RequestsTypeOK, BookingPc, ChangePc
<1>3. IsolationInv
  BY NoWorkerAssumption
     DEF Init, WalInit, IsolationInv, LockInv, LockFree, SnapshotInv, PendingInv, WritingPc
<1>4. InServiceHasActive
  BY DEF Init, WalInit, Seeded, InServiceHasActive
<1>5. QED
  BY <1>2, <1>3, <1>4 DEF Inv

\* Every step preserves it.
LEMMA NextInv == Inv /\ [Next]_vars => Inv'
<1> SUFFICES ASSUME Inv, [Next]_vars PROVE Inv'
  OBVIOUS
<1>1. CASE UNCHANGED vars
  BY <1>1
     DEF vars, Inv, TypeOK, WalTypeOK, RequestsTypeOK, IsolationInv, LockInv, LockFree,
         SnapshotInv, PendingInv, InServiceHasActive
<1>2. ASSUME NEW w \in Worker, Request(w) PROVE Inv'
  BY <1>2, RequestInv
<1>3. ASSUME NEW w \in Worker, Serve(w) PROVE Inv'
  BY <1>3, BookInv, ChangeStatusInv DEF Serve
<1>4. ASSUME NEW w \in Worker, Crash(w) PROVE Inv'
  BY <1>4, FailInv DEF Crash
<1>5. CASE NewDay
  BY <1>5, NewDayInv
<1>6. QED
  BY <1>1, <1>2, <1>3, <1>4, <1>5 DEF Next

\* The invariant holds throughout.
LEMMA AlwaysInv == Spec => []Inv
BY InitInv, NextInv, PTL DEF Spec

-----------------------------------------------------------------------------
(***************************************************************************)
(* Theorems                                                                *)
(***************************************************************************)

\* Every table and every request variable keeps its type, under any
\* interleaving of requests, crashes and midnights.
THEOREM TypeCorrect == Spec => []TypeOK
<1>1. Inv => TypeOK
  BY DEF Inv
<1>2. QED
  BY <1>1, AlwaysInv, PTL

\* From the conflict query to COMMIT, and across the two UPDATEs of a status
\* change, a request is isolated from all others.
THEOREM Isolation == Spec => []IsolationInv
<1>1. Inv => IsolationInv
  BY DEF Inv
<1>2. QED
  BY <1>1, AlwaysInv, PTL

\* No stylist is ever shown as in service without an active appointment.
THEOREM ServiceConsistency == Spec => []InServiceHasActive
<1>1. Inv => InServiceHasActive
  BY DEF Inv
<1>2. QED
  BY <1>1, AlwaysInv, PTL

\* Only CommitApt makes an appointment appear.
LEMMA OnlyCommitBooks ==
    ASSUME Inv, [Next]_vars
    PROVE  \/ DOMAIN db'.apts = DOMAIN db.apts
           \/ \E w \in Worker : CommitApt(w)
<1>0. db \in Databases
  BY InvFacts
<1>1. CASE db' = db
  BY <1>1
<1>2. ASSUME NEW w \in Worker, Request(w), db' # db
      PROVE  DOMAIN db'.apts = DOMAIN db.apts
  <2>1. CASE ToggleStatus(w)
    <3>1. PICK s \in Stylist, status \in {"available", "off"} : db' = WithStaff(db, s, status)
      BY <2>1 DEF ToggleStatus, Single, Autocommit, Install
    <3>2. status \in StaffStatus
      BY DEF StaffStatus
    <3>3. QED
      BY <1>0, <3>1, <3>2, WithStaffType
  <2>2. CASE CloseDrawer(w)
    BY <1>0, <2>2, WithClosedType DEF CloseDrawer, Single, Autocommit, Install
  <2>3. CASE AddClient(w)
    BY <1>0, <2>3, WithClientType DEF AddClient, Single, Autocommit, Install
  <2>4. QED
    BY <1>2, <2>1, <2>2, <2>3 DEF Request, RequestBooking, RequestStatus, Accept, walVars
<1>3. ASSUME NEW w \in Worker, Book(w), db' # db, ~CommitApt(w)
      PROVE  DOMAIN db'.apts = DOMAIN db.apts
  <2>1. NewClient(w)
    BY <1>3 DEF Book, FindClient, walVars, ClientLockTimeout, CheckSlot, InsertApt, Fail,
                Rollback, OpenSnapshot, TakeLock
  <2>2. job[w].contact \in Contact
    BY <2>1, InvFacts DEF NewClient, RequestsTypeOK, BookingPc, Booking
  <2>3. QED
    BY <1>0, <2>1, <2>2, WithClientType DEF NewClient, Autocommit, Install
<1>4. ASSUME NEW w \in Worker, ChangeStatus(w), db' # db
      PROVE  DOMAIN db'.apts = DOMAIN db.apts
  <2>1. pc[w] \in ChangePc => job[w].apt \in AptId /\ job[w].status \in AptStatus
    BY InvFacts DEF RequestsTypeOK, Change
  <2>2. CASE CommitStatus(w)
    <3>1. /\ job[w].apt \in DOMAIN db.apts
          /\ db' = WithStatus(db, job[w].apt, job[w].status)
      BY <2>2 DEF CommitStatus, Commit, Install, Inv, IsolationInv, PendingInv
    <3>2. job[w].status \in AptStatus
      BY <2>1, <2>2 DEF CommitStatus, ChangePc
    <3>3. QED
      BY <1>0, <3>1, <3>2, WithStatusKeepsIds
  <2>3. CASE UpdateDrawer(w)
    <3>1. db' = pending /\ pending = WithInvoice(db, job[w].apt)
      BY <1>4, <2>3 DEF UpdateDrawer, Fail, Rollback, Commit, Install, Inv, IsolationInv,
                        PendingInv
    <3>2. QED
      BY <1>0, <2>1, <2>3, <3>1, WithInvoiceType DEF UpdateDrawer, ChangePc
  <2>4. QED
    BY <1>4, <2>2, <2>3
       DEF ChangeStatus, ReadApt, WriteStatus, CheckInvoiced, LoadApt, InsertInvoice,
           walVars, Fail, Rollback, OpenSnapshot, TakeLock
<1>5. ASSUME NEW w \in Worker, Crash(w) PROVE db' = db
  BY <1>5 DEF Crash, Fail, Rollback
<1>6. CASE NewDay
  BY <1>0, <1>6, WithClosedType DEF NewDay
<1>7. CASE UNCHANGED vars
  BY <1>7 DEF vars
<1>8. QED
  BY <1>1, <1>2, <1>3, <1>4, <1>5, <1>6, <1>7 DEF Next, Serve

\* The conflict query tells exactly whether two appointments of one day overlap.
LEMMA SlotFree ==
    ASSUME NEW d \in Databases, NEW b \in Booking, NEW c \in Nat, ~SlotTaken(d, b),
           NEW k \in DOMAIN d.apts, d.apts[k].status # "cancelled",
           WithinDay(NewApt(b, c)), WithinDay(d.apts[k])
    PROVE  ~Overlap(NewApt(b, c), d.apts[k])
<1>1. d.apts[k] \in Apt
  BY DEF Databases
<1>2. QED
  BY <1>1 DEF SlotTaken, WithinDay, Overlap, NewApt

\* No booking that becomes visible overlaps an appointment that counts, as long
\* as neither runs past midnight, however the requests interleave.
THEOREM NoOverlap == Spec => BookingNeverOverlaps
<1> DEFINE A == \A i \in DOMAIN db'.apts \ DOMAIN db.apts, k \in DOMAIN db.apts :
                  /\ db.apts[k].status # "cancelled"
                  /\ WithinDay(db'.apts[i])
                  /\ WithinDay(db.apts[k])
                  => ~Overlap(db'.apts[i], db.apts[k])
<1>1. ASSUME Inv, [Next]_vars PROVE A
  <2>1. CASE DOMAIN db'.apts = DOMAIN db.apts
    BY <2>1
  <2>2. ASSUME NEW w \in Worker, CommitApt(w) PROVE A
    <3>1. /\ job[w] \in Booking
          /\ client[w] \in Nat
          /\ db \in Databases
      BY <1>1, <2>2, InvFacts DEF CommitApt, RequestsTypeOK, BookingPc
    <3>2. /\ ~SlotTaken(db, job[w])
          /\ db' = WithApt(db, job[w], client[w])
      BY <1>1, <2>2 DEF CommitApt, Commit, Install, Inv, IsolationInv, PendingInv
    <3>3. ASSUME NEW i \in DOMAIN db'.apts \ DOMAIN db.apts
          PROVE  db'.apts[i] = NewApt(job[w], client[w])
      <4>0. db.apts \in Seq(Apt)
        BY <3>1 DEF Databases
      <4>1. /\ NewApt(job[w], client[w]) \in Apt
            /\ db'.apts = Append(db.apts, NewApt(job[w], client[w]))
        BY <3>1, <3>2, WithAptType
      <4>2. i = Len(db.apts) + 1
        BY <4>0, <4>1, AppendProperties, LenProperties
      <4>3. QED
        BY <4>0, <4>1, <4>2, AppendProperties
    <3>4. QED
      BY <3>1, <3>2, <3>3, SlotFree
  <2>3. QED
    BY <1>1, <2>1, <2>2, OnlyCommitBooks
<1>2. Inv /\ [Next]_vars => [A]_db
  BY <1>1
<1>3. QED
  BY <1>2, AlwaysInv, PTL DEF Spec, BookingNeverOverlaps

-----------------------------------------------------------------------------
(***************************************************************************)
(* The invariant: every appointment names a client there is, and a booking *)
(* on its way holds the id of its own caller.  Clients are only ever       *)
(* added, so an id found or created by an earlier transaction still names  *)
(* the same caller when the appointment is inserted.                       *)
(***************************************************************************)

ClientsOK(d) == \A i \in DOMAIN d.apts : d.apts[i].client \in DOMAIN d.clients

FiledPc == {"checkSlot", "insertApt", "commitApt"}

\* The client a booking holds is its caller.
Filed(d, c, b) == c \in DOMAIN d.clients /\ d.clients[c] = b.contact

BookingsInv ==
    \A w \in Worker :
        /\ pc[w] \in BookingPc => job[w] \in Bookings
        /\ pc[w] \in {"insertApt", "commitApt"} => job[w].dur # 0
        /\ pc[w] \in FiledPc => Filed(db, client[w], job[w])

ChangesInv ==
    \A w \in Worker :
        /\ pc[w] \in ChangePc => job[w] \in Changes
        /\ pc[w] # "idle" => resp[w] = "none"

FiledInv == ClientsOK(db) /\ BookingsInv /\ ChangesInv

\* What a step may do to the committed database.
Effect(new) ==
    \/ new = db
    \/ \E c \in Contact : new = WithClient(db, c)
    \/ \E w \in Worker : /\ UpdateDrawer(w) /\ job[w].apt \in AptId
                         /\ new = WithInvoice(db, job[w].apt)
    \/ \E c \in BOOLEAN : new = WithClosed(db, c)
    \/ \E s \in Stylist, status \in {"available", "off"} : new = WithStaff(db, s, status)
    \/ \E c \in Changes : /\ c.apt \in DOMAIN db.apts
                          /\ new = WithStatus(db, c.apt, c.status)
    \/ \E w \in Worker : /\ pc[w] = "commitApt"
                         /\ new = WithApt(db, job[w], client[w])

\* The invariant says what each COMMIT installs.
LEMMA StepEffect ==
    ASSUME Inv, FiledInv, [Next]_vars
    PROVE  Effect(db')
<1>1. CASE db' = db
  BY <1>1 DEF Effect
<1>2. ASSUME NEW w \in Worker, Request(w), db' # db
      PROVE  Effect(db')
  <2>1. CASE ToggleStatus(w)
    BY <2>1 DEF ToggleStatus, Single, Autocommit, Install, Effect
  <2>2. CASE CloseDrawer(w)
    BY <2>2 DEF CloseDrawer, Single, Autocommit, Install, Effect
  <2>3. CASE AddClient(w)
    BY <2>3 DEF AddClient, Single, Autocommit, Install, Effect
  <2>4. QED
    BY <1>2, <2>1, <2>2, <2>3 DEF Request, RequestBooking, RequestStatus, Accept, walVars
<1>3. ASSUME NEW w \in Worker, Book(w), db' # db
      PROVE  Effect(db')
  <2>1. CASE NewClient(w)
    <3>1. job[w].contact \in Contact
      BY <2>1, InvFacts DEF NewClient, RequestsTypeOK, BookingPc, Booking
    <3>2. QED
      BY <2>1, <3>1 DEF NewClient, Autocommit, Install, Effect
  <2>2. CASE CommitApt(w)
    BY <2>2 DEF CommitApt, Commit, Install, Inv, IsolationInv, PendingInv, Effect
  <2>3. QED
    BY <1>3, <2>1, <2>2
       DEF Book, FindClient, walVars, ClientLockTimeout, CheckSlot, InsertApt, Fail,
           Rollback, OpenSnapshot, TakeLock
<1>4. ASSUME NEW w \in Worker, ChangeStatus(w), db' # db
      PROVE  Effect(db')
  <2>1. CASE CommitStatus(w)
    <3>1. /\ job[w].apt \in DOMAIN db.apts
          /\ db' = WithStatus(db, job[w].apt, job[w].status)
      BY <2>1 DEF CommitStatus, Commit, Install, Inv, IsolationInv, PendingInv
    <3>2. job[w] \in Changes
      BY <2>1 DEF CommitStatus, FiledInv, ChangesInv, ChangePc
    <3>3. QED
      BY <3>1, <3>2 DEF Effect
  <2>2. CASE UpdateDrawer(w)
    <3>1. db' = WithInvoice(db, job[w].apt)
      BY <1>4, <2>2 DEF UpdateDrawer, Fail, Rollback, Commit, Install, Inv, IsolationInv,
                        PendingInv
    <3>2. job[w].apt \in AptId
      BY <2>2, InvFacts DEF UpdateDrawer, RequestsTypeOK, ChangePc, Change
    <3>3. QED
      BY <2>2, <3>1, <3>2 DEF Effect
  <2>3. QED
    BY <1>4, <2>1, <2>2
       DEF ChangeStatus, ReadApt, WriteStatus, CheckInvoiced, LoadApt, InsertInvoice,
           walVars, Fail, Rollback, OpenSnapshot, TakeLock
<1>5. ASSUME NEW w \in Worker, Crash(w) PROVE db' = db
  BY <1>5 DEF Crash, Fail, Rollback
<1>6. CASE NewDay
  BY <1>6 DEF NewDay, Effect
<1>7. CASE UNCHANGED vars
  BY <1>7 DEF vars, Effect
<1>8. QED
  BY <1>1, <1>2, <1>3, <1>4, <1>5, <1>6, <1>7 DEF Next, Serve

\* Clients are added at the end, and none is changed.
Grows(new, d) ==
    \A i \in DOMAIN d.clients : i \in DOMAIN new.clients /\ new.clients[i] = d.clients[i]

\* The INSERT of a client.
LEMMA WithClientGrows ==
    ASSUME NEW d \in Databases, NEW c \in Contact
    PROVE  /\ Grows(WithClient(d, c), d)
           /\ WithClient(d, c).apts = d.apts
           /\ WithClient(d, c).staff = d.staff
           /\ Len(d.clients) + 1 \in DOMAIN WithClient(d, c).clients
           /\ WithClient(d, c).clients[Len(d.clients) + 1] = c
<1>1. d.clients \in Seq(Contact) /\ WithClient(d, c).clients = Append(d.clients, c)
  BY DEF Databases, WithClient
<1>2. /\ DOMAIN d.clients = 1 .. Len(d.clients)
      /\ DOMAIN Append(d.clients, c) = 1 .. Len(d.clients) + 1
      /\ \A i \in 1 .. Len(d.clients) : Append(d.clients, c)[i] = d.clients[i]
      /\ Append(d.clients, c)[Len(d.clients) + 1] = c
      /\ Len(d.clients) \in Nat
  BY <1>1, AppendProperties, LenProperties
<1>3. Grows(WithClient(d, c), d)
  BY <1>1, <1>2 DEF Grows
<1>4. /\ Len(d.clients) + 1 \in DOMAIN WithClient(d, c).clients
      /\ WithClient(d, c).clients[Len(d.clients) + 1] = c
  BY <1>1, <1>2
<1>5. QED
  BY <1>3, <1>4, WithClientType

\* The other statements leave the clients alone, and appointments keep theirs.
LEMMA OthersGrow ==
    ASSUME NEW d \in Databases
    PROVE  /\ \A i \in AptId : /\ WithInvoice(d, i).clients = d.clients
                               /\ WithInvoice(d, i).apts = d.apts
                               /\ WithInvoice(d, i).staff = d.staff
           /\ \A c \in BOOLEAN : /\ WithClosed(d, c).clients = d.clients
                                 /\ WithClosed(d, c).apts = d.apts
                                 /\ WithClosed(d, c).staff = d.staff
           /\ \A s, status : /\ WithStaff(d, s, status).clients = d.clients
                             /\ WithStaff(d, s, status).apts = d.apts
           /\ \A i, status : WithStatus(d, i, status).clients = d.clients
           /\ \A b, c : WithApt(d, b, c).clients = d.clients
<1> USE DEF Databases
<1>1. \A i \in AptId : /\ WithInvoice(d, i).clients = d.clients
                       /\ WithInvoice(d, i).apts = d.apts
                       /\ WithInvoice(d, i).staff = d.staff
  BY DEF WithInvoice
<1>2. \A c \in BOOLEAN : /\ WithClosed(d, c).clients = d.clients
                         /\ WithClosed(d, c).apts = d.apts
                         /\ WithClosed(d, c).staff = d.staff
  BY DEF WithClosed
<1>3. \A s, status : /\ WithStaff(d, s, status).clients = d.clients
                     /\ WithStaff(d, s, status).apts = d.apts
  BY DEF WithStaff
<1>4. \A i, status : WithStatus(d, i, status).clients = d.clients
  BY DEF WithStatus
<1>5. \A b, c : WithApt(d, b, c).clients = d.clients
  BY DEF WithApt
<1>6. QED
  BY <1>1, <1>2, <1>3, <1>4, <1>5

\* A status change changes one status and nothing else of any appointment.
LEMMA WithStatusKeepsRest ==
    ASSUME NEW d \in Databases, NEW i \in DOMAIN d.apts, NEW status \in AptStatus
    PROVE  /\ DOMAIN WithStatus(d, i, status).apts = DOMAIN d.apts
           /\ \A k \in DOMAIN d.apts :
                 LET old == d.apts[k]
                     new == WithStatus(d, i, status).apts[k]
                 IN /\ new.client = old.client /\ new.staff = old.staff
                    /\ new.date = old.date
                    /\ new.start = old.start /\ new.end = old.end
                    /\ new.status = IF k = i THEN status ELSE old.status
<1> DEFINE new == WithStatus(d, i, status)
<1>1. /\ new \in Databases
      /\ DOMAIN new.apts = DOMAIN d.apts
      /\ new.apts = [d.apts EXCEPT ![i] = [d.apts[i] EXCEPT !.status = status]]
      /\ new.staff = [d.staff EXCEPT ![d.apts[i].staff] = StaffStatusFor(status)]
  BY WithStatusType
<1>2. d.apts \in Seq(Apt) /\ d.apts[i] \in Apt
  BY DEF Databases
<1>3. QED
  BY <1>1, <1>2 DEF Apt

\* Whatever is committed, clients stay and every appointment names one.
LEMMA EffectKeepsClients ==
    ASSUME Inv, FiledInv, NEW new, Effect(new)
    PROVE  Grows(new, db) /\ ClientsOK(new)
<1>0. db \in Databases /\ ClientsOK(db)
  BY InvFacts DEF FiledInv
<1>1. CASE \/ new = db
           \/ \E i \in AptId : new = WithInvoice(db, i)
           \/ \E c \in BOOLEAN : new = WithClosed(db, c)
           \/ \E s \in Stylist, status \in {"available", "off"} : new = WithStaff(db, s, status)
  <2>1. new.clients = db.clients /\ new.apts = db.apts
    BY <1>0, <1>1, OthersGrow
  <2>2. QED
    BY <1>0, <2>1 DEF Grows, ClientsOK
<1>2. ASSUME NEW c \in Contact, new = WithClient(db, c)
      PROVE  Grows(new, db) /\ ClientsOK(new)
  BY <1>0, <1>2, WithClientGrows DEF Grows, ClientsOK
<1>3. ASSUME NEW i \in DOMAIN db.apts, NEW status \in AptStatus,
             new = WithStatus(db, i, status)
      PROVE  Grows(new, db) /\ ClientsOK(new)
  <2>1. /\ DOMAIN new.apts = DOMAIN db.apts
        /\ \A k \in DOMAIN db.apts : new.apts[k].client = db.apts[k].client
    BY <1>0, <1>3, WithStatusKeepsRest
  <2>2. new.clients = db.clients
    BY <1>0, <1>3, OthersGrow
  <2>3. QED
    BY <1>0, <2>1, <2>2 DEF Grows, ClientsOK
<1>4. ASSUME NEW w \in Worker, pc[w] = "commitApt", new = WithApt(db, job[w], client[w])
      PROVE  Grows(new, db) /\ ClientsOK(new)
  <2>1. /\ job[w] \in Booking
        /\ client[w] \in Nat
        /\ client[w] \in DOMAIN db.clients
    BY <1>4, InvFacts DEF RequestsTypeOK, BookingPc, FiledInv, BookingsInv, Filed, FiledPc
  <2>2. /\ new.apts = Append(db.apts, NewApt(job[w], client[w]))
        /\ NewApt(job[w], client[w]) \in Apt
        /\ new.clients = db.clients
        /\ db.apts \in Seq(Apt)
    <3>1. /\ WithApt(db, job[w], client[w]).apts = Append(db.apts, NewApt(job[w], client[w]))
          /\ NewApt(job[w], client[w]) \in Apt
      BY <1>0, <2>1, WithAptType
    <3>2. WithApt(db, job[w], client[w]).clients = db.clients
      BY <1>0, OthersGrow
    <3>3. QED
      BY <1>0, <1>4, <3>1, <3>2 DEF Databases
  <2>3. ASSUME NEW i \in DOMAIN new.apts
        PROVE  \/ i \in DOMAIN db.apts /\ new.apts[i] = db.apts[i]
               \/ new.apts[i] = NewApt(job[w], client[w])
    <3>1. i \in 1 .. Len(db.apts) + 1 /\ Len(db.apts) \in Nat
      BY <2>2, AppendProperties, LenProperties
    <3>2. QED
      BY <2>2, <3>1, AppendProperties, LenProperties
  <2>4. NewApt(job[w], client[w]).client = client[w]
    BY DEF NewApt
  <2>5. QED
    BY <1>0, <2>1, <2>2, <2>3, <2>4 DEF Grows, ClientsOK
<1>5. \A c \in Changes : c.status \in AptStatus
  BY SlotAssumption DEF Change
<1>6. QED
  BY <1>1, <1>2, <1>3, <1>4, <1>5 DEF Effect

-----------------------------------------------------------------------------
(***************************************************************************)
(* The actions.  A worker that does not move keeps what it holds, because  *)
(* clients stay; the one that moves is looked at action by action.         *)
(***************************************************************************)

\* What the invariant says of one worker.
WorkerOK(w) ==
    /\ pc[w] \in BookingPc => job[w] \in Bookings
    /\ pc[w] \in {"insertApt", "commitApt"} => job[w].dur # 0
    /\ pc[w] \in FiledPc => Filed(db, client[w], job[w])
    /\ pc[w] \in ChangePc => job[w] \in Changes
    /\ pc[w] # "idle" => resp[w] = "none"

\* The invariant is that of every worker.
LEMMA EveryWorkerOK == FiledInv <=> ClientsOK(db) /\ \A w \in Worker : WorkerOK(w)
BY DEF FiledInv, BookingsInv, ChangesInv, WorkerOK

Still(v) == pc'[v] = pc[v] /\ job'[v] = job[v] /\ client'[v] = client[v] /\ resp'[v] = resp[v]

\* A worker that does not move.
LEMMA StillOK ==
    ASSUME NEW v \in Worker, WorkerOK(v), Still(v), Grows(db', db)
    PROVE  WorkerOK(v)'
BY DEF WorkerOK, Still, Grows, Filed

\* A worker that has answered, or died.
LEMMA IdleOK ==
    ASSUME NEW v \in Worker, pc'[v] = "idle"
    PROVE  WorkerOK(v)'
BY DEF WorkerOK, BookingPc, FiledPc, ChangePc

\* The worker that answers.
LEMMA AnswerMoves ==
    ASSUME RequestsTypeOK, NEW w \in Worker, NEW r, Answer(w, r)
    PROVE  pc'[w] = "idle" /\ \A v \in Worker \ {w} : Still(v)
BY DEF RequestsTypeOK, Answer, Still

\* The worker that goes on.
LEMMA GotoMoves ==
    ASSUME RequestsTypeOK, NEW w \in Worker, NEW next, Goto(w, next),
           UNCHANGED client \/ \E c : client' = [client EXCEPT ![w] = c]
    PROVE  /\ pc'[w] = next /\ job'[w] = job[w] /\ resp'[w] = resp[w]
           /\ \A v \in Worker \ {w} : Still(v)
BY DEF RequestsTypeOK, Goto, Still

\* The worker that accepts a request.
LEMMA AcceptMoves ==
    ASSUME RequestsTypeOK, NEW w \in Worker, NEW j, NEW first, Accept(w, j, first)
    PROVE  /\ pc'[w] = first /\ job'[w] = j /\ resp'[w] = "none"
           /\ \A v \in Worker \ {w} : Still(v)
BY DEF RequestsTypeOK, Accept, Still

\* It is enough to look at the worker that moves.
LEMMA MoverOK ==
    ASSUME FiledInv, NEW w \in Worker, \A v \in Worker \ {w} : Still(v), Grows(db', db),
           WorkerOK(w)'
    PROVE  \A v \in Worker : WorkerOK(v)'
BY EveryWorkerOK, StillOK

\* A request that is answered, fails, or dies.
LEMMA OverOK ==
    ASSUME Inv, FiledInv, NEW w \in Worker, NEW r, Answer(w, r), Grows(db', db)
    PROVE  \A v \in Worker : WorkerOK(v)'
BY InvFacts, AnswerMoves, IdleOK, MoverOK

\* The calls of createAppointment.
LEMMA BookFiled ==
    ASSUME Inv, FiledInv, NEW w \in Worker, Book(w), Grows(db', db)
    PROVE  \A v \in Worker : WorkerOK(v)'
<1>0. RequestsTypeOK /\ db \in Databases /\ WorkerOK(w) /\ client \in [Worker -> Nat]
  BY InvFacts, EveryWorkerOK DEF RequestsTypeOK
<1>1. CASE FindClient(w)
  <2>1. CASE Goto(w, "newClient") /\ UNCHANGED client
    <3>1. WorkerOK(w)'
      BY <1>0, <1>1, <2>1, GotoMoves DEF FindClient, WorkerOK, BookingPc, ChangePc, FiledPc
    <3>2. QED
      BY <1>0, <2>1, <3>1, GotoMoves, MoverOK
  <2>2. ASSUME NEW i \in ClientsOf(db, job[w].contact), Goto(w, "checkSlot"),
               client' = [client EXCEPT ![w] = i]
        PROVE  \A v \in Worker : WorkerOK(v)'
    <3>1. /\ pc'[w] = "checkSlot" /\ job'[w] = job[w] /\ resp'[w] = resp[w]
          /\ \A v \in Worker \ {w} : Still(v)
      BY <1>0, <2>2, GotoMoves
    <3>2. Filed(db', client'[w], job'[w])
      BY <1>0, <1>1, <2>2, <3>1 DEF ClientsOf, Filed, FindClient, walVars
    <3>3. WorkerOK(w)'
      BY <1>0, <1>1, <3>1, <3>2
         DEF FindClient, WorkerOK, BookingPc, ChangePc, FiledPc
    <3>4. QED
      BY <3>1, <3>3, MoverOK
  <2>3. QED
    BY <1>1, <2>1, <2>2 DEF FindClient
<1>2. CASE NewClient(w)
  <2>1. /\ pc'[w] = "checkSlot" /\ job'[w] = job[w] /\ resp'[w] = resp[w]
        /\ \A v \in Worker \ {w} : Still(v)
    BY <1>0, <1>2, GotoMoves DEF NewClient
  <2>2. job[w].contact \in Contact
    BY <1>0, <1>2 DEF NewClient, RequestsTypeOK, BookingPc, Booking
  <2>3. client'[w] = Len(db.clients) + 1 /\ db' = WithClient(db, job[w].contact)
    BY <1>0, <1>2 DEF NewClient, Autocommit, Install
  <2>4. Filed(db', client'[w], job'[w])
    BY <1>0, <2>1, <2>2, <2>3, WithClientGrows DEF Filed
  <2>5. WorkerOK(w)'
    BY <1>0, <1>2, <2>1, <2>4 DEF NewClient, WorkerOK, BookingPc, ChangePc, FiledPc
  <2>6. QED
    BY <2>1, <2>5, MoverOK
<1>3. CASE \E r : Answer(w, r)
  BY <1>3, OverOK
<1>4. CASE \/ CheckSlot(w) /\ job[w].dur # 0 /\ Goto(w, "insertApt") /\ UNCHANGED client
           \/ InsertApt(w) /\ Goto(w, "commitApt") /\ UNCHANGED client
  <2>1. /\ pc'[w] \in {"insertApt", "commitApt"} /\ job'[w] = job[w] /\ resp'[w] = resp[w]
        /\ \A v \in Worker \ {w} : Still(v)
    BY <1>0, <1>4, GotoMoves
  <2>2. /\ pc[w] \in {"checkSlot", "insertApt"} /\ job[w].dur # 0
        /\ client'[w] = client[w]
    BY <1>0, <1>4 DEF CheckSlot, InsertApt, WorkerOK
  <2>3. WorkerOK(w)'
    BY <1>0, <2>1, <2>2 DEF WorkerOK, BookingPc, ChangePc, FiledPc, Filed, Grows
  <2>4. QED
    BY <2>1, <2>3, MoverOK
<1>5. QED
  BY <1>1, <1>2, <1>3, <1>4
     DEF Book, ClientLockTimeout, CheckSlot, InsertApt, CommitApt, Fail

\* The calls of updateStatus and of the automatic invoice.
LEMMA ChangeFiled ==
    ASSUME Inv, FiledInv, NEW w \in Worker, ChangeStatus(w), Grows(db', db)
    PROVE  \A v \in Worker : WorkerOK(v)'
<1>0. RequestsTypeOK /\ WorkerOK(w)
  BY InvFacts, EveryWorkerOK
<1>1. CASE \E r : Answer(w, r)
  BY <1>1, OverOK
<1>2. ASSUME NEW next \in ChangePc, Goto(w, next), UNCHANGED client
      PROVE  \A v \in Worker : WorkerOK(v)'
  <2>1. /\ pc'[w] = next /\ job'[w] = job[w] /\ resp'[w] = resp[w]
        /\ \A v \in Worker \ {w} : Still(v)
    BY <1>0, <1>2, GotoMoves
  <2>2. pc[w] \in ChangePc
    BY DEF ChangeStatus, ReadApt, WriteStatus, CommitStatus, CheckInvoiced, LoadApt,
           InsertInvoice, UpdateDrawer, ChangePc
  <2>3. WorkerOK(w)'
    BY <1>0, <2>1, <2>2 DEF WorkerOK, BookingPc, ChangePc, FiledPc
  <2>4. QED
    BY <2>1, <2>3, MoverOK
<1>3. QED
  BY <1>1, <1>2
     DEF ChangeStatus, ReadApt, WriteStatus, CommitStatus, CheckInvoiced, LoadApt,
         InsertInvoice, UpdateDrawer, Fail, ChangePc

\* New requests.
LEMMA RequestFiled ==
    ASSUME Inv, FiledInv, NEW w \in Worker, Request(w), Grows(db', db)
    PROVE  \A v \in Worker : WorkerOK(v)'
<1>0. RequestsTypeOK
  BY InvFacts
<1>1. CASE \E r : Answer(w, r)
  BY <1>1, OverOK
<1>2. CASE \/ \E b \in Bookings : Accept(w, b, "findClient")
           \/ \E c \in Changes : Accept(w, c, "readApt")
  <2>1. /\ \/ pc'[w] = "findClient" /\ job'[w] \in Bookings
           \/ pc'[w] = "readApt" /\ job'[w] \in Changes
        /\ resp'[w] = "none"
        /\ \A v \in Worker \ {w} : Still(v)
    BY <1>0, <1>2, AcceptMoves
  <2>2. WorkerOK(w)'
    BY <2>1 DEF WorkerOK, BookingPc, ChangePc, FiledPc
  <2>3. QED
    BY <2>1, <2>2, MoverOK
<1>3. QED
  BY <1>1, <1>2
     DEF Request, RequestBooking, RequestStatus, AddClient, ToggleStatus, CloseDrawer, Single

\* Every step keeps the invariant.
LEMMA FiledNext == Inv /\ FiledInv /\ [Next]_vars => FiledInv'
<1> SUFFICES ASSUME Inv, FiledInv, [Next]_vars PROVE FiledInv'
  OBVIOUS
<1>1. Grows(db', db) /\ ClientsOK(db')
  BY StepEffect, EffectKeepsClients
<1>2. \A v \in Worker : WorkerOK(v)'
  <2>1. CASE \A v \in Worker : Still(v)
    BY <1>1, <2>1, EveryWorkerOK, StillOK
  <2>2. CASE UNCHANGED vars \/ NewDay
    BY <2>1, <2>2 DEF vars, NewDay, reqVars, Still
  <2>3. ASSUME NEW w \in Worker, Request(w) \/ Serve(w) \/ Crash(w)
        PROVE  \A v \in Worker : WorkerOK(v)'
    BY <1>1, <2>3, RequestFiled, BookFiled, ChangeFiled, OverOK DEF Serve, Crash, Fail
  <2>4. QED
    BY <2>2, <2>3 DEF Next
<1>3. FiledInv' <=> ClientsOK(db)' /\ \A v \in Worker : WorkerOK(v)'
  BY DEF FiledInv, BookingsInv, ChangesInv, WorkerOK
<1>4. QED
  BY <1>1, <1>2, <1>3 DEF ClientsOK

\* The seeded database satisfies it.
LEMMA FiledInit == Init => FiledInv
BY SeedAssumption
   DEF Init, WalInit, Seeded, FiledInv, ClientsOK, BookingsInv, ChangesInv, BookingPc,
       ChangePc, FiledPc

\* It holds throughout.
LEMMA AlwaysFiled == Spec => [](Inv /\ FiledInv)
<1>1. Init => Inv /\ FiledInv
  BY InitInv, FiledInit
<1>2. Inv /\ FiledInv /\ [Next]_vars => (Inv /\ FiledInv)'
  BY NextInv, FiledNext
<1>3. QED
  BY <1>1, <1>2, PTL DEF Spec

-----------------------------------------------------------------------------
(***************************************************************************)
(* The calendar that people read, and AtomicCalendar's steps on it.        *)
(***************************************************************************)

CalendarIn(d) == CalendarOf(d.apts, d.clients)

\* A row of it, for an appointment of the client with that contact.
RowOf(a, contact) ==
    [contact |-> contact, staff |-> a.staff, date |-> a.date, start |-> a.start,
     end |-> a.end, status |-> a.status]

Row == [contact : Contact, staff : Stylist, date : Date, start : TimeOfDay,
        end : TimeOfDay, status : AptStatus]

\* Row by row.
LEMMA CalendarRows ==
    ASSUME NEW d \in Databases, ClientsOK(d)
    PROVE  /\ CalendarIn(d) \in Seq(Row)
           /\ Len(CalendarIn(d)) = Len(d.apts)
           /\ DOMAIN CalendarIn(d) = DOMAIN d.apts
           /\ \A i \in DOMAIN d.apts :
                 CalendarIn(d)[i] = RowOf(d.apts[i], d.clients[d.apts[i].client])
<1>1. d.apts \in Seq(Apt) /\ d.clients \in Seq(Contact)
  BY DEF Databases
<1>2. /\ DOMAIN d.apts = 1 .. Len(d.apts) /\ Len(d.apts) \in Nat
      /\ \A i \in DOMAIN d.apts : d.apts[i] \in Apt
      /\ \A i \in DOMAIN d.clients : d.clients[i] \in Contact
  BY <1>1, LenProperties, ElementOfSeq
<1>3. CalendarIn(d) = [i \in 1 .. Len(d.apts) |->
                          RowOf(d.apts[i], d.clients[d.apts[i].client])]
  BY <1>2 DEF CalendarIn, CalendarOf, RowOf
<1>4. \A i \in 1 .. Len(d.apts) : RowOf(d.apts[i], d.clients[d.apts[i].client]) \in Row
  BY <1>2 DEF ClientsOK, RowOf, Row, Apt
<1>5. CalendarIn(d) \in Seq(Row)
  BY <1>2, <1>3, <1>4, IsASeq
<1>6. Len(CalendarIn(d)) = Len(d.apts)
  BY <1>2, <1>3, <1>5, LenProperties
<1>7. QED
  BY <1>2, <1>3, <1>5, <1>6

\* The same rows for the same appointments, whoever has become a client since.
LEMMA SameCalendar ==
    ASSUME NEW d \in Databases, NEW new \in Databases, ClientsOK(d), ClientsOK(new),
           Grows(new, d), new.apts = d.apts
    PROVE  CalendarIn(new) = CalendarIn(d)
BY DEF CalendarIn, CalendarOf, Grows, ClientsOK

\* The conflict query on the appointments is that on the calendar.
LEMMA SameClashes ==
    ASSUME NEW d \in Databases, ClientsOK(d), NEW b \in Booking
    PROVE  SlotTaken(d, b) <=>
              \E i \in DOMAIN CalendarIn(d) : Calendar!Clashes(CalendarIn(d)[i], b)
<1>1. /\ DOMAIN CalendarIn(d) = DOMAIN d.apts
      /\ \A i \in DOMAIN d.apts :
            CalendarIn(d)[i] = RowOf(d.apts[i], d.clients[d.apts[i].client])
  BY CalendarRows
<1>2. Calendar!Ending(b) = EndTime(b.start, b.dur)
  BY DEF Calendar!Ending, EndTime
<1>3. ASSUME NEW i \in DOMAIN d.apts
      PROVE  Calendar!Clashes(CalendarIn(d)[i], b) <=>
                /\ d.apts[i].staff = b.staff
                /\ d.apts[i].date = b.date
                /\ d.apts[i].status # "cancelled"
                /\ b.start < d.apts[i].end
                /\ EndTime(b.start, b.dur) > d.apts[i].start
  <2> DEFINE row == CalendarIn(d)[i]
  <2>1. row = RowOf(d.apts[i], d.clients[d.apts[i].client])
    BY <1>1
  <2>2. /\ row.staff = d.apts[i].staff /\ row.date = d.apts[i].date
        /\ row.status = d.apts[i].status
        /\ row.start = d.apts[i].start /\ row.end = d.apts[i].end
    BY <2>1 DEF RowOf
  <2> HIDE DEF row
  <2>3. Calendar!Clashes(row, b) <=>
          /\ row.staff = b.staff
          /\ row.date = b.date
          /\ row.status # "cancelled"
          /\ b.start < row.end
          /\ EndTime(b.start, b.dur) > row.start
    BY <1>2 DEF Calendar!Clashes
  <2>4. Calendar!Clashes(row, b) <=>
          /\ d.apts[i].staff = b.staff
          /\ d.apts[i].date = b.date
          /\ d.apts[i].status # "cancelled"
          /\ b.start < d.apts[i].end
          /\ EndTime(b.start, b.dur) > d.apts[i].start
    BY <2>2, <2>3
  <2>5. QED
    BY <2>4 DEF row
<1>4. QED
  BY <1>1, <1>3 DEF SlotTaken

\* The INSERT of an appointment enters the booking under its caller.
LEMMA BookedCalendar ==
    ASSUME NEW d \in Databases, ClientsOK(d), NEW b \in Booking,
           NEW c \in DOMAIN d.clients, d.clients[c] = b.contact,
           ClientsOK(WithApt(d, b, c))
    PROVE  CalendarIn(WithApt(d, b, c)) = Append(CalendarIn(d), Calendar!Entry(b))
<1> DEFINE new == WithApt(d, b, c)
           n == Len(d.apts) + 1
<1>1. d.clients \in Seq(Contact) /\ d.apts \in Seq(Apt) /\ c \in Nat
  BY LenProperties DEF Databases
<1>2. /\ new \in Databases
      /\ new.apts = Append(d.apts, NewApt(b, c))
      /\ NewApt(b, c) \in Apt
      /\ new.clients = d.clients
  <2>1. /\ new \in Databases
        /\ new.staff = d.staff
        /\ new.apts = Append(d.apts, NewApt(b, c))
        /\ NewApt(b, c) \in Apt
    BY <1>1, WithAptType
  <2>2. new.clients = d.clients
    BY OthersGrow
  <2>3. QED
    BY <2>1, <2>2
<1>3. /\ Len(d.apts) \in Nat
      /\ DOMAIN d.apts = 1 .. Len(d.apts)
      /\ DOMAIN new.apts = 1 .. n
      /\ \A i \in 1 .. Len(d.apts) : new.apts[i] = d.apts[i]
      /\ new.apts[n] = NewApt(b, c)
  BY <1>1, <1>2, AppendProperties, LenProperties
<1>4. Calendar!Entry(b) = RowOf(NewApt(b, c), d.clients[c])
  BY DEF Calendar!Entry, Calendar!Ending, RowOf, NewApt, EndTime
<1>5. Calendar!Entry(b) \in Row
  <2>1. d.clients[c] \in Contact
    BY <1>1, ElementOfSeq, LenProperties
  <2>2. QED
    BY <1>2, <1>4, <2>1 DEF RowOf, Row, Apt
<1>6. /\ CalendarIn(d) \in Seq(Row) /\ Len(CalendarIn(d)) = Len(d.apts)
      /\ CalendarIn(new) \in Seq(Row) /\ Len(CalendarIn(new)) = n
      /\ \A i \in 1 .. Len(d.apts) :
            CalendarIn(d)[i] = RowOf(d.apts[i], d.clients[d.apts[i].client])
      /\ \A i \in 1 .. n :
            CalendarIn(new)[i] = RowOf(new.apts[i], d.clients[new.apts[i].client])
  <2>1. Len(new.apts) = n
    BY <1>1, <1>2, AppendProperties
  <2>2. /\ CalendarIn(d) \in Seq(Row) /\ Len(CalendarIn(d)) = Len(d.apts)
        /\ \A i \in DOMAIN d.apts :
              CalendarIn(d)[i] = RowOf(d.apts[i], d.clients[d.apts[i].client])
    BY CalendarRows
  <2>3. /\ CalendarIn(new) \in Seq(Row) /\ Len(CalendarIn(new)) = Len(new.apts)
        /\ \A i \in DOMAIN new.apts :
              CalendarIn(new)[i] = RowOf(new.apts[i], new.clients[new.apts[i].client])
    BY <1>2, CalendarRows
  <2> HIDE DEF new
  <2>4. QED
    BY <1>2, <1>3, <2>1, <2>2, <2>3
<1>7. NewApt(b, c).client = c
  BY DEF NewApt
<1>8. \A i \in 1 .. n : CalendarIn(new)[i] = Append(CalendarIn(d), Calendar!Entry(b))[i]
  <2>1. /\ \A i \in 1 .. Len(CalendarIn(d)) :
              Append(CalendarIn(d), Calendar!Entry(b))[i] = CalendarIn(d)[i]
        /\ Append(CalendarIn(d), Calendar!Entry(b))[Len(CalendarIn(d)) + 1]
              = Calendar!Entry(b)
    BY <1>5, <1>6, AppendProperties
  <2> HIDE DEF new
  <2>2. /\ n = Len(d.apts) + 1
        /\ \A i \in 1 .. n : i \in 1 .. Len(d.apts) \/ i = n
        /\ n \in 1 .. n /\ 1 .. Len(d.apts) \subseteq 1 .. n
    BY <1>3
  <2> HIDE DEF n
  <2>3. \A i \in 1 .. Len(d.apts) :
           CalendarIn(new)[i] = Append(CalendarIn(d), Calendar!Entry(b))[i]
    BY <1>3, <1>6, <2>1, <2>2
  <2>4. CalendarIn(new)[n] = Append(CalendarIn(d), Calendar!Entry(b))[n]
    BY <1>3, <1>4, <1>6, <1>7, <2>1, <2>2
  <2>5. QED
    BY <2>2, <2>3, <2>4
<1>9. /\ Append(CalendarIn(d), Calendar!Entry(b)) \in Seq(Row)
      /\ Len(Append(CalendarIn(d), Calendar!Entry(b))) = n
  BY <1>5, <1>6, AppendProperties
<1>10. QED
  BY <1>3, <1>6, <1>8, <1>9, SeqEqual

\* A status change is one on the calendar.
LEMMA ChangedCalendar ==
    ASSUME NEW d \in Databases, ClientsOK(d), NEW i \in DOMAIN d.apts,
           NEW status \in AptStatus, ClientsOK(WithStatus(d, i, status))
    PROVE  CalendarIn(WithStatus(d, i, status)) =
              [CalendarIn(d) EXCEPT ![i].status = status]
<1> DEFINE new == WithStatus(d, i, status)
<1>1. new.clients = d.clients
  BY OthersGrow
<1>2. /\ DOMAIN new.apts = DOMAIN d.apts
      /\ \A k \in DOMAIN d.apts :
            RowOf(new.apts[k], new.clients[new.apts[k].client]) =
            IF k = i THEN [RowOf(d.apts[i], d.clients[d.apts[i].client])
                              EXCEPT !.status = status]
            ELSE RowOf(d.apts[k], d.clients[d.apts[k].client])
  BY <1>1, WithStatusKeepsRest DEF RowOf
<1>3. /\ DOMAIN CalendarIn(d) = DOMAIN d.apts
      /\ \A k \in DOMAIN d.apts :
            CalendarIn(d)[k] = RowOf(d.apts[k], d.clients[d.apts[k].client])
  BY CalendarRows
<1>4. CalendarIn(new) =
        [k \in DOMAIN d.apts |-> RowOf(new.apts[k], new.clients[new.apts[k].client])]
  BY <1>2 DEF CalendarIn, CalendarOf, RowOf
<1>5. CalendarIn(new) =
        [k \in DOMAIN d.apts |->
            IF k = i THEN [CalendarIn(d)[i] EXCEPT !.status = status] ELSE CalendarIn(d)[k]]
  BY <1>2, <1>3, <1>4
<1>6. [CalendarIn(d) EXCEPT ![i].status = status] =
        [k \in DOMAIN d.apts |->
            IF k = i THEN [CalendarIn(d)[i] EXCEPT !.status = status] ELSE CalendarIn(d)[k]]
  BY <1>3
<1>7. QED
  BY <1>5, <1>6

-----------------------------------------------------------------------------
(***************************************************************************)
(* Every step is one of AtomicCalendar, or leaves the calendar alone.      *)
(***************************************************************************)

CalendarVars == <<CalendarIn(db), db.staff>>

\* A step of AtomicCalendar, from this state to the next.
Implements == Calendar!Next \/ UNCHANGED CalendarVars

LEMMA StepImplements ==
    ASSUME Inv, FiledInv, Inv', FiledInv', [Next]_vars
    PROVE  Implements
<1>0. /\ db \in Databases /\ ClientsOK(db)
      /\ db' \in Databases /\ ClientsOK(db')
      /\ Effect(db') /\ Grows(db', db)
  BY StepEffect, EffectKeepsClients DEF Inv, TypeOK, FiledInv, ClientsOK
<1>1. ASSUME db'.apts = db.apts, db'.staff = db.staff
      PROVE  Implements
  BY <1>0, <1>1, SameCalendar DEF Implements, CalendarVars, CalendarIn
<1>2. CASE \/ db' = db
           \/ \E c \in Contact : db' = WithClient(db, c)
           \/ \E i \in AptId : db' = WithInvoice(db, i)
           \/ \E c \in BOOLEAN : db' = WithClosed(db, c)
  BY <1>0, <1>1, <1>2, WithClientGrows, OthersGrow
<1>3. ASSUME NEW s \in Stylist, NEW status \in {"available", "off"},
             db' = WithStaff(db, s, status)
      PROVE  Implements
  <2>1. db'.apts = db.apts /\ db'.staff = [db.staff EXCEPT ![s] = status]
    <3>1. status \in StaffStatus
      BY DEF StaffStatus
    <3>2. /\ WithStaff(db, s, status).apts = db.apts
          /\ WithStaff(db, s, status).staff = [db.staff EXCEPT ![s] = status]
      BY <1>0, <3>1, WithStaffType
    <3>3. QED
      BY <1>3, <3>2
  <2>2. CalendarIn(db') = CalendarIn(db)
    BY <1>0, <2>1, SameCalendar
  <2>3. Calendar!Switch
    BY <2>1, <2>2 DEF Calendar!Switch, CalendarIn
  <2>4. QED
    BY <2>3 DEF Implements, Calendar!Next
<1>4. ASSUME NEW c \in Changes, c.apt \in DOMAIN db.apts,
             db' = WithStatus(db, c.apt, c.status)
      PROVE  Implements
  <2>1. c.status \in AptStatus
    BY SlotAssumption DEF Change
  <2>2. CalendarIn(db') = [CalendarIn(db) EXCEPT ![c.apt].status = c.status]
    BY <1>0, <1>4, <2>1, ChangedCalendar
  <2>3. db'.staff = [db.staff EXCEPT ![db.apts[c.apt].staff] = StaffStatusFor(c.status)]
    BY <1>4 DEF WithStatus
  <2>4. /\ c.apt \in DOMAIN CalendarIn(db)
        /\ CalendarIn(db)[c.apt].staff = db.apts[c.apt].staff
    <3>1. /\ DOMAIN CalendarIn(db) = DOMAIN db.apts
          /\ \A i \in DOMAIN db.apts :
                CalendarIn(db)[i] = RowOf(db.apts[i], db.clients[db.apts[i].client])
      BY <1>0, CalendarRows
    <3>2. CalendarIn(db)[c.apt] = RowOf(db.apts[c.apt], db.clients[db.apts[c.apt].client])
      BY <1>4, <3>1
    <3>3. QED
      BY <1>4, <3>1, <3>2 DEF RowOf
  <2>5. Calendar!SetStatus
    BY <2>2, <2>3, <2>4 DEF Calendar!SetStatus, StaffStatusFor, CalendarIn
  <2>6. QED
    BY <2>5 DEF Implements, Calendar!Next
<1>5. ASSUME NEW w \in Worker, pc[w] = "commitApt", db' = WithApt(db, job[w], client[w])
      PROVE  Implements
  <2>1. /\ job[w] \in Bookings /\ job[w] \in Booking /\ job[w].dur # 0
        /\ client[w] \in DOMAIN db.clients
        /\ db.clients[client[w]] = job[w].contact
        /\ ~SlotTaken(db, job[w])
    BY <1>5, SlotAssumption
       DEF FiledInv, BookingsInv, BookingPc, FiledPc, Filed, Inv, IsolationInv, PendingInv
  <2>2. CalendarIn(db') = Append(CalendarIn(db), Calendar!Entry(job[w]))
    BY <1>0, <1>5, <2>1, BookedCalendar
  <2>3. db'.staff = db.staff
    BY <1>0, <1>5 DEF WithApt, Databases
  <2>4. \A i \in DOMAIN CalendarIn(db) : ~Calendar!Clashes(CalendarIn(db)[i], job[w])
    BY <1>0, <2>1, SameClashes
  <2>5. Calendar!Book
    BY <2>1, <2>2, <2>3, <2>4 DEF Calendar!Book, CalendarIn
  <2>6. QED
    BY <2>5 DEF Implements, Calendar!Next
<1>6. QED
  BY <1>0, <1>2, <1>3, <1>4, <1>5 DEF Effect

\* Under any interleaving of requests, crashes and midnights the appointments
\* change as if every booking and every status change happened at once.
THEOREM CalendarRefinement == Spec => CalendarSpec
<1>1. Init => Calendar!Init
  BY DEF Init, WalInit, Seeded, Calendar!Init
<1>2. ASSUME Inv, FiledInv, Inv', FiledInv', [Next]_vars
      PROVE  [Calendar!Next]_(Calendar!vars)
  BY <1>2, StepImplements DEF Implements, CalendarVars, Calendar!vars, CalendarIn
<1>3. QED
  BY <1>1, <1>2, AlwaysFiled, PTL DEF Spec, CalendarSpec, Calendar!Spec

-----------------------------------------------------------------------------
(***************************************************************************)
(* The automatic invoices.  Once a visit has an invoice nobody passes the  *)
(* check any more, so the workers that passed it before and have not       *)
(* committed are all that can still add one: with the invoices there are,  *)
(* never more than there are workers.                                      *)
(***************************************************************************)

LatePc == {"loadApt", "insertInvoice", "updateDrawer"}

\* Past the check for visit i, its invoice not yet committed.
Late(i) == {w \in Worker : pc[w] \in LatePc /\ job[w].apt = i}

RaceInv == \A i \in AptId : db.invoices[i] + Cardinality(Late(i)) <= Cardinality(Worker)

\* Nobody becomes late unless the worker that moves does.
LEMMA LateKept ==
    ASSUME NEW w \in Worker, \A v \in Worker \ {w} : Still(v),
           pc'[w] \notin LatePc \/ (pc[w] \in LatePc /\ job'[w] = job[w])
    PROVE  \A i : Late(i)' \subseteq Late(i)
BY DEF Late, Still

\* Every step that is neither the check nor the COMMIT of an invoice.
LEMMA OtherStepsKeepLate ==
    ASSUME Inv, FiledInv, [Next]_vars, \A w \in Worker : ~CheckInvoiced(w)
    PROVE  \A i : Late(i)' \subseteq Late(i)
<1>0. RequestsTypeOK
  BY InvFacts
<1>1. ASSUME NEW w \in Worker, NEW r, Answer(w, r)
      PROVE  \A i : Late(i)' \subseteq Late(i)
  BY <1>0, <1>1, AnswerMoves, LateKept DEF LatePc
<1>2. ASSUME NEW w \in Worker, NEW next, Goto(w, next),
             UNCHANGED client \/ \E c : client' = [client EXCEPT ![w] = c],
             next \notin LatePc \/ pc[w] \in LatePc
      PROVE  \A i : Late(i)' \subseteq Late(i)
  BY <1>0, <1>2, GotoMoves, LateKept
<1>3. ASSUME NEW w \in Worker, Request(w)
      PROVE  \A i : Late(i)' \subseteq Late(i)
  <2>1. ASSUME NEW j, NEW first, Accept(w, j, first), first \in {"findClient", "readApt"}
        PROVE  \A i : Late(i)' \subseteq Late(i)
    BY <1>0, <2>1, AcceptMoves, LateKept DEF LatePc
  <2>2. QED
    BY <1>1, <1>3, <2>1
       DEF Request, RequestBooking, RequestStatus, AddClient, ToggleStatus, CloseDrawer,
           Single
<1>4. ASSUME NEW w \in Worker, Book(w)
      PROVE  \A i : Late(i)' \subseteq Late(i)
  <2>1. \/ \E r : Answer(w, r)
        \/ \E next \in BookingPc : /\ Goto(w, next)
                                   /\ \/ UNCHANGED client
                                      \/ \E c : client' = [client EXCEPT ![w] = c]
    BY <1>4 DEF Book, FindClient, NewClient, ClientLockTimeout, CheckSlot, InsertApt,
                CommitApt, Fail, BookingPc
  <2>2. \A next \in BookingPc : next \notin LatePc
    BY DEF BookingPc, LatePc
  <2>3. QED
    BY <1>1, <1>2, <2>1, <2>2
<1>5. ASSUME NEW w \in Worker, ChangeStatus(w)
      PROVE  \A i : Late(i)' \subseteq Late(i)
  <2>1. \/ \E r : Answer(w, r)
        \/ \E next : /\ Goto(w, next) /\ UNCHANGED client
                     /\ next \notin LatePc \/ pc[w] \in LatePc
    BY <1>5 DEF ChangeStatus, ReadApt, WriteStatus, CommitStatus, LoadApt, InsertInvoice,
                UpdateDrawer, Fail, LatePc
  <2>2. QED
    BY <1>1, <1>2, <2>1
<1>6. ASSUME NEW w \in Worker, Crash(w)
      PROVE  \A i : Late(i)' \subseteq Late(i)
  BY <1>1, <1>6 DEF Crash, Fail
<1>7. CASE NewDay \/ UNCHANGED vars
  BY <1>7 DEF NewDay, vars, reqVars, Late
<1>8. QED
  BY <1>3, <1>4, <1>5, <1>6, <1>7 DEF Next, Serve

\* Only the COMMIT of an invoice changes the invoices.
LEMMA InvoicesKept ==
    ASSUME Inv, FiledInv, Effect(db')
    PROVE  \/ db'.invoices = db.invoices
           \/ \E w \in Worker : /\ UpdateDrawer(w) /\ job[w].apt \in AptId
                                /\ db' = WithInvoice(db, job[w].apt)
<1> USE InvFacts DEF Databases
<1>1. \A c : WithClient(db, c).invoices = db.invoices
  BY DEF WithClient
<1>2. \A c : WithClosed(db, c).invoices = db.invoices
  BY DEF WithClosed
<1>3. \A s, status : WithStaff(db, s, status).invoices = db.invoices
  BY DEF WithStaff
<1>4. \A i, status : WithStatus(db, i, status).invoices = db.invoices
  BY DEF WithStatus
<1>5. \A b, c : WithApt(db, b, c).invoices = db.invoices
  BY DEF WithApt
<1>6. QED
  BY <1>1, <1>2, <1>3, <1>4, <1>5 DEF Effect

\* The race is bounded by the number of workers, step by step.
LEMMA RaceNext ==
    ASSUME IsFiniteSet(Worker), Inv, FiledInv, RaceInv, [Next]_vars
    PROVE  RaceInv'
<1>0. /\ Effect(db') /\ RequestsTypeOK
      /\ db.invoices \in [AptId -> Nat]
  BY StepEffect, InvFacts DEF Databases
<1>1. ASSUME NEW S, S \subseteq Worker
      PROVE  /\ IsFiniteSet(S) /\ Cardinality(S) \in Nat
             /\ \A T \in SUBSET S : Cardinality(T) \in Nat /\ Cardinality(T) <= Cardinality(S)
             /\ \A w \in S : Cardinality(S \ {w}) = Cardinality(S) - 1
  <2>1. IsFiniteSet(S)
    BY <1>1, FS_Subset
  <2>2. \A T \in SUBSET S : IsFiniteSet(T) /\ Cardinality(T) <= Cardinality(S)
    BY <2>1, FS_Subset
  <2>3. \A w \in S : Cardinality(S \ {w}) = Cardinality(S) - 1
    BY <2>1, FS_RemoveElement
  <2>4. QED
    BY <2>1, <2>2, <2>3, FS_CardinalityType
<1>2. \A i : Late(i) \subseteq Worker /\ Late(i)' \subseteq Worker
  BY DEF Late
<1>3. ASSUME NEW w \in Worker, CheckInvoiced(w)
      PROVE  RaceInv'
  <2>1. /\ db' = db
        /\ \A v \in Worker \ {w} : Still(v)
        /\ job[w].apt \in AptId
        /\ \/ pc'[w] = "idle"
           \/ pc'[w] = "loadApt" /\ job'[w] = job[w] /\ db.invoices[job[w].apt] = 0
    <3>1. /\ db' = db
          /\ \/ Answer(w, "ok")
             \/ /\ Goto(w, "loadApt") /\ UNCHANGED client
                /\ db.invoices[job[w].apt] = 0
      BY <1>3 DEF CheckInvoiced, walVars
    <3>2. job[w].apt \in AptId
      BY <1>0, <1>3 DEF CheckInvoiced, RequestsTypeOK, ChangePc, Change
    <3>3. QED
      BY <1>0, <3>1, <3>2, AnswerMoves, GotoMoves
  <2>2. ASSUME NEW i \in AptId
        PROVE  db.invoices[i] + Cardinality(Late(i)') <= Cardinality(Worker)
    <3>1. CASE i = job[w].apt /\ db.invoices[i] = 0
      <4>1. Cardinality(Late(i)') \in Nat /\ Cardinality(Late(i)') <= Cardinality(Worker)
        BY <1>1, <1>2
      <4>2. QED
        BY <3>1, <4>1
    <3>2. CASE ~(i = job[w].apt /\ db.invoices[i] = 0)
      <4>1. Late(i)' \subseteq Late(i)
        BY <2>1, <3>2 DEF Late, Still, LatePc
      <4>2. /\ Cardinality(Late(i)') <= Cardinality(Late(i))
            /\ Cardinality(Late(i)') \in Nat /\ Cardinality(Late(i)) \in Nat
            /\ Cardinality(Worker) \in Nat
        BY <1>1, <1>2, <4>1
      <4>3. QED
        BY <1>0, <4>2 DEF RaceInv
    <3>3. QED
      BY <3>1, <3>2
  <2>3. QED
    BY <2>1, <2>2 DEF RaceInv
<1>4. ASSUME \A w \in Worker : ~CheckInvoiced(w), db'.invoices = db.invoices
      PROVE  RaceInv'
  <2>1. \A i : Late(i)' \subseteq Late(i)
    BY <1>4, OtherStepsKeepLate
  <2>2. ASSUME NEW i \in AptId
        PROVE  db.invoices[i] + Cardinality(Late(i)') <= Cardinality(Worker)
    <3>1. /\ Cardinality(Late(i)') <= Cardinality(Late(i))
          /\ Cardinality(Late(i)') \in Nat /\ Cardinality(Late(i)) \in Nat
          /\ Cardinality(Worker) \in Nat
      BY <1>1, <1>2, <2>1
    <3>2. QED
      BY <1>0, <3>1 DEF RaceInv
  <2>3. QED
    BY <1>4, <2>2 DEF RaceInv
<1>5. ASSUME NEW w \in Worker, UpdateDrawer(w), job[w].apt \in AptId,
             db' = WithInvoice(db, job[w].apt)
      PROVE  RaceInv'
  <2>1. \E r : Answer(w, r)
    BY <1>5 DEF UpdateDrawer, Fail
  <2>2. pc'[w] = "idle" /\ \A v \in Worker \ {w} : Still(v)
    BY <1>0, <2>1, AnswerMoves
  <2>3. w \in Late(job[w].apt)
    BY <1>5 DEF UpdateDrawer, Late, LatePc
  <2>4. \A i : Late(i)' \subseteq Late(i) \ {w}
    BY <2>2 DEF Late, Still, LatePc
  <2>5. \A i \in AptId : db'.invoices[i] =
            IF i = job[w].apt THEN db.invoices[i] + 1 ELSE db.invoices[i]
    BY <1>0, <1>5, InvFacts DEF WithInvoice, Databases
  <2>6. ASSUME NEW i \in AptId
        PROVE  db'.invoices[i] + Cardinality(Late(i)') <= Cardinality(Worker)
    <3>1. /\ db.invoices[i] \in Nat
          /\ db.invoices[i] + Cardinality(Late(i)) <= Cardinality(Worker)
      BY <1>0 DEF RaceInv
    <3>2. CASE i = job[w].apt
      <4>1. Late(i) \ {w} \subseteq Worker
        BY <1>2
      <4>2. Cardinality(Late(i)') \in Nat /\ Cardinality(Late(i)') <= Cardinality(Late(i) \ {w})
        BY <1>1, <2>4, <4>1
      <4>3. /\ Cardinality(Late(i) \ {w}) = Cardinality(Late(i)) - 1
            /\ Cardinality(Late(i)) \in Nat /\ Cardinality(Worker) \in Nat
        BY <1>1, <1>2, <2>3, <3>2
      <4>4. db'.invoices[i] = db.invoices[i] + 1
        BY <2>5, <3>2
      <4>5. QED
        BY <3>1, <4>2, <4>3, <4>4
    <3>3. CASE i # job[w].apt
      <4>1. /\ Cardinality(Late(i)') <= Cardinality(Late(i))
            /\ Cardinality(Late(i)') \in Nat /\ Cardinality(Late(i)) \in Nat
            /\ Cardinality(Worker) \in Nat
        BY <1>1, <1>2, <2>4
      <4>2. db'.invoices[i] = db.invoices[i]
        BY <2>5, <3>3
      <4>3. QED
        BY <3>1, <4>1, <4>2
    <3>4. QED
      BY <3>2, <3>3
  <2>7. QED
    BY <2>6 DEF RaceInv
<1>6. QED
  BY <1>0, <1>3, <1>4, <1>5, InvoicesKept

\* However many workers race, a visit gets no more invoices than there are
\* workers: the second check of createFromCompletedAppointment sees the first.
THEOREM InvoiceRaceBounded == IsFiniteSet(Worker) => (Spec => []InvoicesPerVisitBounded)
<1> SUFFICES ASSUME IsFiniteSet(Worker) PROVE Spec => []InvoicesPerVisitBounded
  OBVIOUS
<1>1. Init => RaceInv
  <2>1. ASSUME Init, NEW i \in AptId
        PROVE  db.invoices[i] + Cardinality(Late(i)) <= Cardinality(Worker)
    <3>1. db.invoices[i] = 0 /\ Late(i) = {}
      BY <2>1 DEF Init, WalInit, Seeded, Late, LatePc
    <3>2. Cardinality(Late(i)) = 0 /\ Cardinality(Worker) \in Nat
      BY <3>1, FS_EmptySet, FS_CardinalityType
    <3>3. QED
      BY <3>1, <3>2
  <2>2. QED
    BY <2>1 DEF RaceInv
<1>2. RaceInv /\ Inv /\ FiledInv /\ [Next]_vars => RaceInv'
  BY RaceNext
<1>3. Inv /\ RaceInv => InvoicesPerVisitBounded
  <2>1. ASSUME Inv, RaceInv, NEW i \in AptId
        PROVE  db.invoices[i] <= Cardinality(Worker)
    <3>1. Late(i) \in SUBSET Worker
      BY DEF Late
    <3>2. Cardinality(Late(i)) \in Nat /\ Cardinality(Worker) \in Nat
      BY <3>1, FS_Subset, FS_CardinalityType
    <3>3. db.invoices[i] \in Nat
      BY <2>1, InvFacts DEF Databases
    <3>4. QED
      BY <2>1, <3>2, <3>3 DEF RaceInv
  <2>2. QED
    BY <2>1 DEF InvoicesPerVisitBounded
<1>4. QED
  BY <1>1, <1>2, <1>3, AlwaysFiled, PTL DEF Spec

\* A completion answered with success has its invoice by then: success is said
\* only where the invoice was committed or seen to be there.
THEOREM SuccessInvoiced == Spec => SuccessHasInvoice
<1>1. ASSUME Inv, FiledInv, Inv', [Next]_vars, NEW w \in Worker, pc[w] \in ChangePc,
             job[w].status = "completed", resp'[w] = "ok"
      PROVE  db'.invoices[job[w].apt] > 0
  <2>0. /\ RequestsTypeOK /\ resp[w] = "none" /\ pc[w] # "idle"
        /\ job[w].apt \in AptId /\ db.invoices \in [AptId -> Nat]
    BY <1>1, InvFacts DEF FiledInv, ChangesInv, ChangePc, RequestsTypeOK, Change, Databases
  <2>1. ~Still(w)
    BY <1>1, <2>0 DEF Still
  <2>2. ASSUME NEW v \in Worker, \A u \in Worker \ {v} : Still(u) PROVE v = w
    BY <2>1, <2>2
  <2>3. ASSUME NEW next, Goto(w, next) PROVE FALSE
    BY <1>1, <2>0, <2>3 DEF Goto
  <2>4. ASSUME NEW r, Answer(w, r) PROVE r = "ok"
    BY <1>1, <2>0, <2>4 DEF Answer, RequestsTypeOK
  <2>5. ~(NewDay \/ UNCHANGED vars)
    BY <2>1 DEF NewDay, vars, reqVars, Still
  <2>6. PICK v \in Worker : Request(v) \/ Serve(v) \/ Crash(v)
    BY <1>1, <2>5 DEF Next
  <2>7. \A u \in Worker \ {v} : Still(u)
    <3>1. \/ \E r : Answer(v, r)
          \/ \E next : Goto(v, next) /\ (UNCHANGED client \/ \E c : client' = [client EXCEPT ![v] = c])
          \/ \E j, first : Accept(v, j, first)
      BY <2>6
         DEF Request, RequestBooking, RequestStatus, AddClient, ToggleStatus, CloseDrawer,
             Single, Serve, Book, FindClient, NewClient, ClientLockTimeout, CheckSlot,
             InsertApt, CommitApt, Fail, ChangeStatus, ReadApt, WriteStatus, CommitStatus,
             CheckInvoiced, LoadApt, InsertInvoice, UpdateDrawer, Crash
    <3>2. QED
      BY <2>0, <3>1, AnswerMoves, GotoMoves, AcceptMoves
  <2>8. v = w
    BY <2>2, <2>7
  <2>9. ~Request(w) /\ ~Book(w) /\ ~Crash(w)
    <3>1. ~Request(w)
      BY <2>0 DEF Request, RequestBooking, RequestStatus, Accept, AddClient, ToggleStatus,
                  CloseDrawer, Single
    <3>2. ~Book(w)
      BY <1>1 DEF Book, FindClient, NewClient, ClientLockTimeout, CheckSlot, InsertApt,
                  CommitApt, ChangePc
    <3>3. ~Crash(w)
      BY <2>4 DEF Crash, Fail
    <3>4. QED
      BY <3>1, <3>2, <3>3
  <2>10. ChangeStatus(w)
    BY <2>6, <2>8, <2>9 DEF Serve
  <2>11. \/ CheckInvoiced(w) /\ db.invoices[job[w].apt] > 0
         \/ UpdateDrawer(w) /\ db' = pending
    BY <1>1, <2>3, <2>4, <2>10
       DEF ChangeStatus, ReadApt, WriteStatus, CommitStatus, CheckInvoiced, LoadApt,
           InsertInvoice, UpdateDrawer, Fail, Commit, Install
  <2>12. CASE CheckInvoiced(w) /\ db.invoices[job[w].apt] > 0
    BY <2>12 DEF CheckInvoiced, walVars
  <2>13. CASE UpdateDrawer(w) /\ db' = pending
    <3>1. db' = WithInvoice(db, job[w].apt)
      BY <1>1, <2>13 DEF UpdateDrawer, Inv, IsolationInv, PendingInv
    <3>2. QED
      BY <1>1, <2>0, <3>1, InvFacts DEF WithInvoice, Databases
  <2>14. QED
    BY <2>11, <2>12, <2>13
<1>2. Inv /\ FiledInv /\ Inv' /\ [Next]_vars
      => [\A w \in Worker :
            /\ pc[w] \in ChangePc
            /\ job[w].status = "completed"
            /\ resp'[w] = "ok"
            => db'.invoices[job[w].apt] > 0]_vars
  BY <1>1
<1>3. QED
  BY <1>2, AlwaysFiled, PTL DEF Spec, SuccessHasInvoice

-----------------------------------------------------------------------------
(***************************************************************************)
(* The booking pages over the server.                                      *)
(***************************************************************************)

\* BookingPage's theorems, of the pages of this composition.
PagesProofs == INSTANCE BookingPageProofs WITH
    sent <- net \cup InServer, booked <- made, Clashing <- ClashingTimes

-----------------------------------------------------------------------------
(***************************************************************************)
(* The invariant.                                                          *)
(***************************************************************************)

Busy(w) == pc[w] # "idle"

\* A busy worker books what its request asks for.
ServingInv ==
    /\ serving \in [Worker -> Form!Request \cup {NoRequest}]
    /\ \A w \in Worker : Busy(w) =>
        /\ serving[w] \in Form!Request
        /\ pc[w] \in BookingPc
        /\ job[w] = BodyOf(serving[w])

\* A request is in one place at a time, on its way or with one worker, and a
\* page numbers its requests, so that the next one is none of them.
OnceInv ==
    /\ net \subseteq Form!Request
    /\ \A w \in Worker : Busy(w) => serving[w] \notin net
    /\ \A v, w \in Worker : Busy(v) /\ Busy(w) /\ serving[v] = serving[w] => v = w
    /\ \A r \in net \cup InServer : r.try <= tries[r.page]

\* Row i of the calendar is what request r asked for.
Standing(d, i, r) ==
    LET a == d.apts[i] IN
    /\ a.staff = r.staff
    /\ a.date = Day
    /\ a.start = r.slot
    /\ a.end = EndTime(r.slot, Duration)
    /\ a.status # "cancelled"
    /\ d.clients[a.client] = ContactOf[r.page]

\* The day's calendar and the committed requests are the same bookings.
MadeIn(d, requests) ==
    /\ \A i \in DOMAIN d.apts : d.apts[i].date = Day =>
          \E r \in requests : Standing(d, i, r)
    /\ \A r \in requests : \E i \in DOMAIN d.apts : Standing(d, i, r)

MadeInv == made \subseteq Form!Request /\ MadeIn(db, made)

ServerInv == Inv /\ FiledInv

OnlineInv == ServerInv /\ ServingInv /\ OnceInv /\ MadeInv /\ PagesProofs!PageInv
-----------------------------------------------------------------------------
(***************************************************************************)
(* What the steps of the server do.                                        *)
(***************************************************************************)

\* Worker w is the only one that moves.
Alone(w) == \A v \in Worker \ {w} : Still(v)

Growth(new) == new = db \/ \E c \in Contact : new = WithClient(db, c)

\* createAppointment goes on: it may have added a client.
GoesOn(w) ==
    /\ pc'[w] \in BookingPc
    /\ job'[w] = job[w]
    /\ Growth(db')

\* createAppointment refuses: nothing is changed, and if the conflict query
\* was the reason the slot is taken.
Refuses(w) ==
    /\ pc'[w] = "idle"
    /\ db' = db
    /\ resp'[w] = "failed"
    /\ pc[w] = "checkSlot" => job[w].dur = 0 \/ SlotTaken(db, job[w])

\* It accepts: the booking is in the calendar, and the slot was free.
Accepts(w) ==
    /\ pc[w] = "commitApt"
    /\ pc'[w] = "idle"
    /\ resp'[w] = "ok"
    /\ db' = WithApt(db, job[w], client[w])
    /\ ~SlotTaken(db, job[w])

LEMMA BookEffect ==
    ASSUME ServerInv, NEW w \in Worker, Book(w)
    PROVE  /\ pc[w] \in BookingPc
           /\ Alone(w)
           /\ GoesOn(w) \/ Refuses(w) \/ Accepts(w)
<1> USE DEF ServerInv
<1>0. RequestsTypeOK /\ IsolationInv
  BY InvFacts DEF Inv
<1>1. pc[w] \in BookingPc
  BY DEF Book, FindClient, NewClient, ClientLockTimeout, CheckSlot, InsertApt, CommitApt,
         BookingPc
<1>2. job[w] \in Booking /\ job[w].contact \in Contact
  BY <1>0, <1>1 DEF RequestsTypeOK, Booking
<1>3. ASSUME Fail(w, "failed"), pc[w] = "checkSlot" => job[w].dur = 0 \/ SlotTaken(db, job[w])
      PROVE  Alone(w) /\ Refuses(w)
  BY <1>0, <1>3, AnswerMoves DEF Fail, Rollback, Answer, RequestsTypeOK, Alone, Refuses
<1>4. ASSUME NEW next \in BookingPc, Goto(w, next), Growth(db'),
             UNCHANGED client \/ \E c : client' = [client EXCEPT ![w] = c]
      PROVE  Alone(w) /\ GoesOn(w)
  BY <1>0, <1>4, GotoMoves DEF Alone, GoesOn
<1>5. CASE FindClient(w)
  <2>1. Growth(db') /\ "newClient" \in BookingPc /\ "checkSlot" \in BookingPc
    BY <1>5 DEF FindClient, walVars, BookingPc, Growth
  <2>2. \/ Goto(w, "newClient") /\ UNCHANGED client
        \/ Goto(w, "checkSlot") /\ \E c : client' = [client EXCEPT ![w] = c]
    BY <1>5 DEF FindClient
  <2>3. CASE Goto(w, "newClient") /\ UNCHANGED client
    BY <1>1, <1>4, <2>1, <2>3
  <2>4. CASE Goto(w, "checkSlot") /\ \E c : client' = [client EXCEPT ![w] = c]
    BY <1>1, <1>4, <2>1, <2>4
  <2>5. QED
    BY <2>2, <2>3, <2>4
<1>6. CASE NewClient(w)
  BY <1>1, <1>2, <1>4, <1>6 DEF NewClient, Autocommit, Install, BookingPc, Growth
<1>7. CASE ClientLockTimeout(w)
  <2>1. Fail(w, "failed") /\ pc[w] # "checkSlot"
    BY <1>7 DEF ClientLockTimeout
  <2>2. QED
    BY <1>1, <1>3, <2>1
<1>8. CASE CheckSlot(w)
  BY <1>1, <1>3, <1>4, <1>8 DEF CheckSlot, OpenSnapshot, BookingPc, Growth
<1>9. CASE InsertApt(w)
  BY <1>1, <1>3, <1>4, <1>9 DEF InsertApt, TakeLock, BookingPc, Growth
<1>10. CASE CommitApt(w)
  <2>1. Alone(w) /\ pc'[w] = "idle" /\ resp'[w] = "ok"
    BY <1>0, <1>10, AnswerMoves DEF CommitApt, Answer, RequestsTypeOK, Alone
  <2>2. db' = WithApt(db, job[w], client[w]) /\ ~SlotTaken(db, job[w])
    BY <1>0, <1>10 DEF CommitApt, Commit, Install, IsolationInv, PendingInv
  <2>3. QED
    BY <1>1, <1>10, <2>1, <2>2 DEF CommitApt, Accepts
<1>11. QED
  BY <1>1, <1>5, <1>6, <1>7, <1>8, <1>9, <1>10 DEF Book

\* A worker that dies takes nothing with it.
LEMMA CrashEffect ==
    ASSUME ServerInv, NEW w \in Worker, Crash(w)
    PROVE  pc[w] # "idle" /\ pc'[w] = "idle" /\ Alone(w) /\ db' = db
BY InvFacts, AnswerMoves DEF ServerInv, Crash, Fail, Rollback, Alone

\* The front desk's request is over at once.
LEMMA DeskEffect ==
    ASSUME ServerInv, NEW w \in Worker, AddClient(w)
    PROVE  pc[w] = "idle" /\ pc'[w] = "idle" /\ Alone(w) /\ Growth(db')
BY InvFacts, AnswerMoves
   DEF ServerInv, AddClient, Single, Autocommit, Install, Alone, Growth

\* A worker takes a request up.
LEMMA TakeEffect ==
    ASSUME ServerInv, NEW w \in Worker, NEW r \in Form!Request, Take(w, r)
    PROVE  /\ pc[w] = "idle" /\ pc'[w] = "findClient" /\ job'[w] = BodyOf(r)
           /\ Alone(w) /\ db' = db
           /\ ServerInv'
<1> USE DEF ServerInv
<1>0. BodyOf(r) \in Bookings /\ BodyOf(r) \in Booking
  BY BodyAssumption, SlotAssumption
<1>1. Accept(w, BodyOf(r), "findClient")
  BY DEF Take
<1>2. /\ RequestsTypeOK' /\ Others(w) /\ UNCHANGED walVars
      /\ pc[w] = "idle" /\ pc'[w] = "findClient"
  BY <1>0, <1>1, InvFacts, AcceptStep
<1>3. /\ job'[w] = BodyOf(r) /\ resp'[w] = "none"
      /\ Alone(w)
  BY <1>1, InvFacts, AcceptMoves DEF Alone
<1>4. Inv'
  BY <1>2, ThinkStep DEF PlainPc, BookingPc, WritingPc
<1>5. db' = db /\ Grows(db', db)
  BY <1>2 DEF walVars, Grows
<1>6. WorkerOK(w)'
  BY <1>0, <1>2, <1>3 DEF WorkerOK, FiledPc, ChangePc
<1>7. FiledInv'
  <2>1. \A v \in Worker : WorkerOK(v)'
    BY <1>3, <1>5, <1>6, MoverOK DEF Alone
  <2>2. ClientsOK(db)'
    BY <1>5 DEF FiledInv
  <2>3. QED
    BY <2>1, <2>2 DEF FiledInv, BookingsInv, ChangesInv, WorkerOK
<1>8. QED
  BY <1>2, <1>3, <1>4, <1>5, <1>7

\* The server's own invariant holds in the composition.
LEMMA ServerKeeps ==
    ASSUME ServerInv, net \subseteq Form!Request, [OnlineNext]_onlineVars
    PROVE  ServerInv'
<1> USE DEF ServerInv
<1>1. ASSUME [Next]_vars PROVE ServerInv'
  BY <1>1, NextInv, FiledNext
<1>2. CASE UNCHANGED vars
  BY <1>1, <1>2
<1>3. ASSUME NEW w \in Worker, Work(w) \/ Reply(w) \/ Die(w) \/ Desk(w)
      PROVE  ServerInv'
  BY <1>1, <1>3 DEF Work, Reply, Die, Desk, Next, Serve, Request
<1>4. ASSUME NEW w \in Worker, NEW r \in net, Take(w, r)
      PROVE  ServerInv'
  BY <1>4, TakeEffect
<1>5. QED
  BY <1>2, <1>3, <1>4 DEF OnlineNext, PageStep, Deliver, Lose, onlineVars
-----------------------------------------------------------------------------
(***************************************************************************)
(* Where the requests are.                                                 *)
(***************************************************************************)

LEMMA SameRequests == PagesProofs!Request = Form!Request /\ Pages!Request = Form!Request
BY DEF PagesProofs!Request, Pages!Request, Form!Request

\* What the pages' invariant says of the shared state.
LEMMA PageFacts ==
    ASSUME PagesProofs!PageInv
    PROVE  /\ tries \in [Page -> 0 .. MaxTries]
           /\ net \subseteq Form!Request /\ InServer \subseteq Form!Request
           /\ \A r \in Form!Request : r.page \in Page /\ r.try \in 1 .. MaxTries
                                      /\ r.staff \in Stylist /\ r.slot \in Slot
BY SameRequests DEF PagesProofs!PageInv, PagesProofs!TypeOK, Form!Request

\* No worker takes anything up or puts anything down.
LEMMA InServerSame ==
    ASSUME UNCHANGED serving, \A v \in Worker : Busy(v)' <=> Busy(v)
    PROVE  InServer' = InServer
BY DEF InServer, Busy

\* A worker takes a request up.
LEMMA InServerMore ==
    ASSUME ServingInv, NEW w \in Worker, ~Busy(w), Busy(w)', Alone(w),
           NEW r, serving' = [serving EXCEPT ![w] = r]
    PROVE  InServer' = InServer \cup {r}
<1>1. serving'[w] = r /\ \A v \in Worker \ {w} : serving'[v] = serving[v]
  BY DEF ServingInv
<1>2. {v \in Worker : pc'[v] # "idle"} = {v \in Worker : pc[v] # "idle"} \cup {w}
  BY DEF Alone, Still, Busy
<1>3. QED
  BY <1>1, <1>2 DEF InServer, Busy

\* A worker is done with its request, and nobody else has it.
LEMMA InServerLess ==
    ASSUME ServingInv, OnceInv, NEW w \in Worker, Busy(w), ~Busy(w)', Alone(w),
           serving' = [serving EXCEPT ![w] = NoRequest]
    PROVE  /\ InServer' = InServer \ {serving[w]}
           /\ net \cup InServer' = (net \cup InServer) \ {serving[w]}
           /\ serving[w] \in InServer
<1>1. \A v \in Worker \ {w} : serving'[v] = serving[v]
  BY DEF ServingInv
<1>2. {v \in Worker : pc'[v] # "idle"} = {v \in Worker : pc[v] # "idle"} \ {w}
  BY DEF Alone, Still, Busy
<1>3. \A v \in Worker \ {w} : pc[v] # "idle" => serving[v] # serving[w]
  BY DEF OnceInv, Busy
<1>4. InServer' = InServer \ {serving[w]}
  BY <1>1, <1>2, <1>3 DEF InServer, Busy
<1>5. serving[w] \notin net /\ serving[w] \in InServer
  BY DEF OnceInv, InServer, Busy
<1>6. QED
  BY <1>4, <1>5

\* What a worker holds is no request on its way.
LEMMA NetApart ==
    ASSUME OnceInv
    PROVE  \A r \in net : r \notin InServer
BY DEF OnceInv, InServer, Busy
-----------------------------------------------------------------------------
(***************************************************************************)
(* Every step is a step of the pages over a server of one step, or none.   *)
(***************************************************************************)

\* The conflict query on the tables is that on the bookings made.
LEMMA SameTaken ==
    ASSUME MadeInv, PagesProofs!PageInv, NEW r \in Form!Request
    PROVE  SlotTaken(db, BodyOf(r)) <=> Pages!Taken(r.staff, r.slot)
<1> DEFINE b == BodyOf(r)
<1>1. /\ b.staff = r.staff /\ b.date = Day /\ b.start = r.slot /\ b.dur = Duration
      /\ r.slot \in Slot
  BY PageFacts DEF BodyOf
<1>2. \A m \in made : m.slot \in Slot
  BY PageFacts DEF MadeInv
<1>3. ASSUME NEW m \in made
      PROVE  <<m.slot, r.slot>> \in ClashingTimes <=>
                m.slot < EndTime(r.slot, Duration) /\ r.slot < EndTime(m.slot, Duration)
  BY <1>1, <1>2 DEF ClashingTimes
<1> HIDE DEF b
<1>4. ASSUME NEW i \in DOMAIN db.apts, NEW m \in made, Standing(db, i, m)
      PROVE  <<m.slot, r.slot>> \in ClashingTimes /\ m.staff = r.staff <=>
                /\ db.apts[i].staff = b.staff
                /\ db.apts[i].date = b.date
                /\ db.apts[i].status # "cancelled"
                /\ b.start < db.apts[i].end
                /\ EndTime(b.start, b.dur) > db.apts[i].start
  <2>1. /\ m.slot \in Int /\ r.slot \in Int
        /\ EndTime(m.slot, Duration) \in Int /\ EndTime(r.slot, Duration) \in Int
    <3>1. m.slot \in TimeOfDay /\ r.slot \in TimeOfDay /\ Duration \in Nat
      BY <1>1, <1>2, VisitorAssumption
    <3>2. EndTime(m.slot, Duration) \in TimeOfDay /\ EndTime(r.slot, Duration) \in TimeOfDay
      BY <3>1, EndTimeType
    <3>3. QED
      BY <3>1, <3>2 DEF TimeOfDay
  <2>2. QED
    BY <1>1, <1>3, <1>4, <2>1 DEF Standing
<1>5. ASSUME SlotTaken(db, b) PROVE Pages!Taken(r.staff, r.slot)
  <2>1. PICK i \in DOMAIN db.apts : /\ db.apts[i].staff = b.staff
                                    /\ db.apts[i].date = b.date
                                    /\ db.apts[i].status # "cancelled"
                                    /\ b.start < db.apts[i].end
                                    /\ EndTime(b.start, b.dur) > db.apts[i].start
    BY <1>5 DEF SlotTaken
  <2>2. PICK m \in made : Standing(db, i, m)
    BY <1>1, <2>1 DEF MadeInv, MadeIn
  <2>3. QED
    BY <1>4, <2>1, <2>2 DEF Pages!Taken
<1>6. ASSUME Pages!Taken(r.staff, r.slot) PROVE SlotTaken(db, b)
  <2>1. PICK m \in made : m.staff = r.staff /\ <<m.slot, r.slot>> \in ClashingTimes
    BY <1>6 DEF Pages!Taken
  <2>2. PICK i \in DOMAIN db.apts : Standing(db, i, m)
    BY <2>1 DEF MadeInv, MadeIn
  <2>3. QED
    BY <1>4, <2>1, <2>2 DEF SlotTaken
<1>7. QED
  BY <1>5, <1>6 DEF b

\* What the pages and the network do.
LEMMA PageStepsImplement ==
    ASSUME OnceInv,
           \/ \E p \in Page : PageStep(p)
           \/ \E r \in net : Lose(r)
           \/ \E a \in answers : Deliver(a)
    PROVE  Pages!Next
<1>0. ASSUME UNCHANGED <<vars, serving>> PROVE InServer' = InServer
  BY <1>0, InServerSame DEF vars, Busy
<1>1. ASSUME NEW p \in Page, PageStep(p) PROVE Pages!Next
  <2>0. InServer' = InServer
    BY <1>0, <1>1 DEF PageStep
  <2>1. CASE Form!Choose(p)
    BY <2>0, <2>1 DEF Form!Choose, Pages!Choose, Pages!Next
  <2>2. CASE Form!Submit(p)
    <3>1. Pages!Submit(p)
      BY <2>0, <2>2 DEF Form!Submit, Pages!Submit, Form!StaffFor, Pages!StaffFor
    <3>2. QED
      BY <3>1 DEF Pages!Next
  <2>3. CASE Form!NetworkError(p)
    BY <2>0, <2>3 DEF Form!NetworkError, Pages!NetworkError, Pages!Next
  <2>4. CASE Form!ResetForm(p)
    BY <2>0, <2>4
       DEF Form!ResetForm, Pages!ResetForm, Form!Unchosen, Pages!Unchosen, Pages!Next
  <2>5. QED
    BY <1>1, <2>1, <2>2, <2>3, <2>4 DEF PageStep
<1>2. ASSUME NEW r \in net, Lose(r) PROVE Pages!Next
  <2>1. InServer' = InServer /\ r \notin InServer
    BY <1>0, <1>2, NetApart DEF Lose
  <2>2. Pages!Lose(r)
    BY <1>2, <2>1 DEF Lose, Form!Lose, Pages!Lose, Form!pageVars, Pages!pageVars
  <2>3. QED
    BY <2>2 DEF Pages!Next
<1>3. ASSUME NEW a \in answers, Deliver(a) PROVE Pages!Next
  <2>1. InServer' = InServer
    BY <1>0, <1>3 DEF Deliver
  <2>2. Pages!Deliver(a)
    BY <1>3, <2>1 DEF Deliver, Form!Deliver, Pages!Deliver, Form!Answered, Pages!Answered
  <2>3. QED
    BY <2>2 DEF Pages!Next
<1>4. QED
  BY <1>1, <1>2, <1>3

\* An answer of the server is the one step in which BookingPage books.
LEMMA ReplyImplements ==
    ASSUME OnlineInv, NEW w \in Worker, Reply(w)
    PROVE  Pages!Next
<1>1. /\ pc[w] \in BookingPc /\ Busy(w) /\ ~Busy(w)' /\ Alone(w)
      /\ Refuses(w) \/ Accepts(w)
  BY BookEffect DEF OnlineInv, Reply, GoesOn, BookingPc, Busy
<1>2. /\ serving[w] \in Form!Request /\ job[w] = BodyOf(serving[w])
      /\ job[w].dur # 0
  BY <1>1, VisitorAssumption DEF OnlineInv, ServingInv, BodyOf
<1>3. /\ serving[w] \in InServer
      /\ (net \cup InServer)' = (net \cup InServer) \ {serving[w]}
  BY <1>1, InServerLess DEF OnlineInv, Reply
<1>4. SlotTaken(db, job[w]) <=> Pages!Taken(serving[w].staff, serving[w].slot)
  BY <1>2, SameTaken DEF OnlineInv
<1>5. /\ answers' = answers \cup {[request |-> serving[w], result |-> Outcome(w)]}
      /\ made' = IF resp'[w] = "ok" THEN made \cup {serving[w]} ELSE made
      /\ UNCHANGED pageVars
  BY DEF Reply
<1>6. CASE Accepts(w)
  BY <1>3, <1>4, <1>5, <1>6
     DEF Accepts, Outcome, Pages!Serve, Pages!pageVars, pageVars, Pages!Next
<1>7. CASE Refuses(w)
  <2>1. /\ made' = made
        /\ Outcome(w) = IF pc[w] = "checkSlot" THEN "taken" ELSE "locked"
        /\ pc[w] = "checkSlot" => Pages!Taken(serving[w].staff, serving[w].slot)
    BY <1>2, <1>4, <1>5, <1>7 DEF Refuses, Outcome
  <2>2. Pages!Serve(serving[w])
    BY <1>3, <1>5, <2>1 DEF Pages!Serve, Pages!pageVars, pageVars
  <2>3. QED
    BY <1>3, <2>2 DEF Pages!Next
<1>8. QED
  BY <1>1, <1>6, <1>7

\* The rest of what the server does shows on no page.
LEMMA ServerStepsImplement ==
    ASSUME OnlineInv, NEW w \in Worker,
           Work(w) \/ Die(w) \/ Desk(w) \/ (\E r \in net : Take(w, r))
    PROVE  Pages!Next \/ UNCHANGED Pages!vars
<1> USE DEF OnlineInv
<1>1. CASE Work(w)
  <2>1. InServer' = InServer
    BY <1>1, BookEffect, InServerSame DEF Work, BookingPc, Alone, Still, Busy
  <2>2. QED
    BY <1>1, <2>1 DEF Work, pageVars, Pages!vars, Pages!pageVars
<1>2. CASE Desk(w)
  <2>1. InServer' = InServer
    BY <1>2, DeskEffect, InServerSame DEF Desk, Alone, Still, Busy
  <2>2. QED
    BY <1>2, <2>1 DEF Desk, pageVars, Pages!vars, Pages!pageVars
<1>3. CASE Die(w)
  <2>1. Busy(w) /\ ~Busy(w)' /\ Alone(w)
    BY <1>3, CrashEffect DEF Die, Busy
  <2>2. /\ serving[w] \in InServer
        /\ (net \cup InServer)' = (net \cup InServer) \ {serving[w]}
    BY <1>3, <2>1, InServerLess DEF Die
  <2>3. Pages!Lose(serving[w])
    BY <1>3, <2>2 DEF Die, pageVars, Pages!Lose, Pages!pageVars
  <2>4. QED
    BY <2>2, <2>3 DEF Pages!Next
<1>4. ASSUME NEW r \in net, Take(w, r)
      PROVE  UNCHANGED Pages!vars
  <2>1. ~Busy(w) /\ Busy(w)' /\ Alone(w)
    BY <1>4, PageFacts, TakeEffect DEF Busy
  <2>2. InServer' = InServer \cup {r}
    BY <1>4, <2>1, InServerMore DEF Take
  <2>3. QED
    BY <1>4, <2>2 DEF Take, pageVars, Pages!vars, Pages!pageVars
<1>5. QED
  BY <1>1, <1>2, <1>3, <1>4

LEMMA StepImplementsPages ==
    ASSUME OnlineInv, [OnlineNext]_onlineVars
    PROVE  [Pages!Next]_(Pages!vars)
<1>1. CASE UNCHANGED onlineVars
  <2>1. InServer' = InServer
    BY <1>1, InServerSame DEF onlineVars, vars, Busy
  <2>2. QED
    BY <1>1, <2>1 DEF onlineVars, pageVars, Pages!vars, Pages!pageVars
<1>2. CASE OnlineNext
  BY <1>2, PageStepsImplement, ReplyImplements, ServerStepsImplement
     DEF OnlineNext, OnlineInv
<1>3. QED
  BY <1>1, <1>2
-----------------------------------------------------------------------------
(***************************************************************************)
(* The invariant is kept.                                                  *)
(***************************************************************************)

\* Steps in which no worker takes up or puts down a request.
LEMMA ServingSame ==
    ASSUME ServingInv, UNCHANGED serving,
           \A v \in Worker : Busy(v)' =>
               Busy(v) /\ pc'[v] \in BookingPc /\ job'[v] = job[v]
    PROVE  ServingInv'
BY DEF ServingInv, Busy, BodyOf

LEMMA ServingKept ==
    ASSUME OnlineInv, [OnlineNext]_onlineVars
    PROVE  ServingInv'
<1> USE DEF OnlineInv
<1>0. /\ serving \in [Worker -> Form!Request \cup {NoRequest}]
      /\ net \subseteq Form!Request
      /\ \A w \in Worker : Busy(w) => serving[w] \in Form!Request /\ pc[w] \in BookingPc
                                      /\ job[w] = BodyOf(serving[w])
  BY DEF ServingInv, OnceInv
<1>1. CASE UNCHANGED <<vars, serving>>
  BY <1>0, <1>1, ServingSame DEF vars, Busy
<1>2. ASSUME NEW w \in Worker, Work(w) PROVE ServingInv'
  <2>1. Alone(w) /\ GoesOn(w) /\ pc[w] \in BookingPc
    BY <1>2, BookEffect DEF Work, Refuses, Accepts
  <2>2. QED
    BY <1>0, <1>2, <2>1, ServingSame DEF Work, GoesOn, Alone, Still, Busy, BookingPc
<1>3. ASSUME NEW w \in Worker, ~Busy(w)', Alone(w), NEW r \in {serving[w], NoRequest},
             serving' = [serving EXCEPT ![w] = r]
      PROVE  ServingInv'
  BY <1>0, <1>3 DEF ServingInv, Alone, Still, Busy, BodyOf
<1>4. ASSUME NEW w \in Worker, Reply(w) PROVE ServingInv'
  BY <1>3, <1>4, BookEffect DEF Reply, Busy
<1>5. ASSUME NEW w \in Worker, Die(w) PROVE ServingInv'
  BY <1>3, <1>5, CrashEffect DEF Die, Busy
<1>6. ASSUME NEW w \in Worker, Desk(w) PROVE ServingInv'
  <2>1. serving' = [serving EXCEPT ![w] = serving[w]]
    BY <1>0, <1>6 DEF Desk
  <2>2. QED
    BY <1>3, <1>6, <2>1, DeskEffect DEF Desk, Busy
<1>7. ASSUME NEW w \in Worker, NEW r \in net, Take(w, r) PROVE ServingInv'
  <2>1. /\ pc'[w] = "findClient" /\ job'[w] = BodyOf(r) /\ Alone(w)
        /\ serving' = [serving EXCEPT ![w] = r] /\ r \in Form!Request
    BY <1>0, <1>7, TakeEffect DEF Take
  <2>2. QED
    BY <1>0, <2>1 DEF ServingInv, Alone, Still, Busy, BookingPc, BodyOf
<1>8. QED
  BY <1>1, <1>2, <1>4, <1>5, <1>6, <1>7
     DEF OnlineNext, PageStep, Deliver, Lose, onlineVars

\* A press sends a request of its own number.
LEMMA PressOnce ==
    ASSUME OnlineInv, NEW p \in Page, PageStep(p)
    PROVE  OnceInv'
<1> USE DEF OnlineInv
<1>0. /\ InServer' = InServer /\ UNCHANGED <<pc, serving>>
      /\ net \subseteq Form!Request /\ InServer \subseteq Form!Request
      /\ \A r \in net \cup InServer : r.try <= tries[r.page]
      /\ tries \in [Page -> 0 .. MaxTries]
      /\ \A w \in Worker : Busy(w) => serving[w] \in InServer
  BY PageFacts, InServerSame DEF PageStep, vars, Busy, OnceInv, InServer
<1>1. CASE UNCHANGED <<net, tries>>
  BY <1>0, <1>1 DEF OnceInv, Busy
<1>2. CASE Form!Submit(p)
  <2> DEFINE request == [page |-> p, try |-> tries[p] + 1,
                         staff |-> Form!StaffFor(choice[p].staff), slot |-> choice[p].slot]
  <2>1. /\ net' = net \cup {request}
        /\ tries' = [tries EXCEPT ![p] = tries[p] + 1]
    BY <1>2 DEF Form!Submit
  <2>2. request.page = p /\ request.try = tries[p] + 1
    OBVIOUS
  <2>3. request \in Form!Request
    <3>1. /\ choice[p].staff \in Stylist \cup {FirstAvailable}
          /\ choice[p].slot \in Slot \cup {NoSlot}
          /\ tries[p] \in 0 .. MaxTries /\ tries[p] < MaxTries /\ choice[p].slot # NoSlot
          /\ choice[p].staff = FirstAvailable => StaffList # <<>>
      BY <1>2 DEF Form!Submit, PagesProofs!PageInv, PagesProofs!TypeOK, PagesProofs!Choice
    <3>2. /\ Form!StaffFor(choice[p].staff) \in Stylist
          /\ tries[p] + 1 \in 1 .. MaxTries
      BY <3>1, VisitorAssumption DEF Form!StaffFor
    <3>3. QED
      BY <3>1, <3>2 DEF Form!Request
  <2> HIDE DEF request
  <2>4. request \notin net \cup InServer
    BY <1>0, <2>2
  <2>5. \A r \in net' \cup InServer' : r.try <= tries'[r.page]
    <3>1. ASSUME NEW r \in net \cup InServer PROVE r.try <= tries'[r.page]
      BY <1>0, <2>1, PageFacts
    <3>2. request.try <= tries'[request.page]
      BY <1>0, <2>1, <2>2
    <3>3. QED
      BY <1>0, <2>1, <3>1, <3>2
  <2>6. QED
    BY <1>0, <2>1, <2>3, <2>4, <2>5 DEF OnceInv, Busy
<1>3. QED
  BY <1>1, <1>2 DEF PageStep, Form!Choose, Form!NetworkError, Form!ResetForm

LEMMA OnceKept ==
    ASSUME OnlineInv, [OnlineNext]_onlineVars
    PROVE  OnceInv'
<1> USE DEF OnlineInv
<1>0. /\ serving \in [Worker -> Form!Request \cup {NoRequest}]
      /\ \A w \in Worker : Busy(w) => serving[w] \in InServer
  BY DEF ServingInv, InServer, Busy
<1>1. ASSUME net' \subseteq net, UNCHANGED <<tries, serving>>, InServer' \subseteq InServer,
             \A v \in Worker : Busy(v)' => Busy(v)
      PROVE  OnceInv'
  BY <1>1 DEF OnceInv, Busy
<1>2. CASE (\E r \in net : Lose(r)) \/ (\E a \in answers : Deliver(a)) \/ UNCHANGED onlineVars
  <2>1. /\ net' \subseteq net /\ UNCHANGED <<tries, serving>>
        /\ \A v \in Worker : Busy(v)' <=> Busy(v)
    BY <1>2
       DEF Lose, Form!Lose, Form!pageVars, Deliver, Form!Deliver, onlineVars, vars, pageVars,
           Busy
  <2>2. QED
    BY <1>1, <2>1, InServerSame
<1>3. ASSUME NEW w \in Worker, Work(w) \/ Desk(w) PROVE OnceInv'
  <2>1. \A v \in Worker : Busy(v)' <=> Busy(v)
    BY <1>3, BookEffect, DeskEffect DEF Work, Desk, BookingPc, Alone, Still, Busy
  <2>2. QED
    BY <1>1, <1>3, <2>1, InServerSame DEF Work, Desk, pageVars
<1>4. ASSUME NEW w \in Worker, Busy(w), ~Busy(w)', Alone(w),
             serving' = [serving EXCEPT ![w] = NoRequest], UNCHANGED <<net, tries>>
      PROVE  OnceInv'
  <2>1. InServer' \subseteq InServer
    BY <1>4, InServerLess
  <2>2. \A v \in Worker : Busy(v)' => v # w /\ Busy(v) /\ serving'[v] = serving[v]
    BY <1>0, <1>4 DEF Alone, Still, Busy
  <2>3. QED
    BY <1>4, <2>1, <2>2 DEF OnceInv
<1>5. ASSUME NEW w \in Worker, Reply(w) \/ Die(w) PROVE OnceInv'
  BY <1>4, <1>5, BookEffect, CrashEffect DEF Reply, Die, BookingPc, Busy, pageVars
<1>6. ASSUME NEW w \in Worker, NEW r \in net, Take(w, r) PROVE OnceInv'
  <2>1. /\ ~Busy(w) /\ Busy(w)' /\ Alone(w)
        /\ serving' = [serving EXCEPT ![w] = r] /\ net' = net \ {r} /\ tries' = tries
    BY <1>6, TakeEffect, PageFacts DEF Take, Busy, pageVars
  <2>2. InServer' = InServer \cup {r}
    BY <2>1, InServerMore
  <2>3. /\ serving'[w] = r
        /\ \A v \in Worker \ {w} : serving'[v] = serving[v] /\ (Busy(v)' <=> Busy(v))
    BY <1>0, <2>1 DEF Alone, Still, Busy
  <2>4. QED
    BY <2>1, <2>2, <2>3 DEF OnceInv
<1>7. QED
  BY <1>2, <1>3, <1>5, <1>6, PressOnce DEF OnlineNext

\* A client added, or nothing: the rows stand for the same requests.
LEMMA GrowthKeepsMade ==
    ASSUME ServerInv, MadeInv, Growth(db'), made' = made
    PROVE  MadeInv'
<1>1. /\ db'.apts = db.apts
      /\ \A i \in DOMAIN db.apts : db'.clients[db.apts[i].client] = db.clients[db.apts[i].client]
  <2>1. db \in Databases /\ ClientsOK(db)
    BY InvFacts DEF ServerInv, FiledInv
  <2>2. CASE db' = db
    BY <2>2
  <2>3. ASSUME NEW c \in Contact, db' = WithClient(db, c)
        PROVE  db'.apts = db.apts /\ Grows(db', db)
    BY <2>1, <2>3, WithClientGrows
  <2>4. QED
    BY <2>1, <2>2, <2>3 DEF Growth, Grows, ClientsOK
<1>2. \A i \in DOMAIN db.apts : \A r : Standing(db', i, r) <=> Standing(db, i, r)
  BY <1>1 DEF Standing
<1>3. QED
  BY <1>1, <1>2 DEF MadeInv, MadeIn

\* A booking committed: a row at the end that is what its request asked for.
LEMMA AcceptKeepsMade ==
    ASSUME ServerInv, MadeInv, NEW w \in Worker, Accepts(w), NEW r \in Form!Request,
           job[w] = BodyOf(r), made' = made \cup {r}
    PROVE  MadeInv'
<1> DEFINE row == NewApt(job[w], client[w])
           n == Len(db.apts) + 1
<1>1. /\ db \in Databases /\ ClientsOK(db) /\ job[w] \in Booking /\ client[w] \in Nat
      /\ Filed(db, client[w], job[w])
  BY InvFacts
     DEF ServerInv, FiledInv, BookingsInv, FiledPc, BookingPc, RequestsTypeOK, Accepts
<1>2. /\ db'.apts = Append(db.apts, row)
      /\ db'.clients = db.clients
      /\ db.apts \in Seq(Apt) /\ row \in Apt
  BY <1>1, WithAptType, OthersGrow DEF Accepts, Databases
<1>3. /\ DOMAIN db.apts = 1 .. Len(db.apts) /\ Len(db.apts) \in Nat
      /\ DOMAIN db'.apts = 1 .. n
      /\ db'.apts[n] = row
      /\ \A i \in DOMAIN db.apts : db'.apts[i] = db.apts[i]
  BY <1>2, AppendProperties, LenProperties
<1>4. Standing(db', n, r)
  BY <1>1, <1>2, <1>3 DEF Standing, NewApt, BodyOf, Filed
<1> HIDE DEF row
<1>5. \A i \in DOMAIN db.apts : \A m : Standing(db', i, m) <=> Standing(db, i, m)
  BY <1>2, <1>3 DEF Standing
<1>6. MadeIn(db', made')
  <2>1. ASSUME NEW i \in DOMAIN db'.apts, db'.apts[i].date = Day
        PROVE  \E m \in made' : Standing(db', i, m)
    BY <1>3, <1>4, <1>5, <2>1 DEF MadeInv, MadeIn
  <2>2. ASSUME NEW m \in made'
        PROVE  \E i \in DOMAIN db'.apts : Standing(db', i, m)
    BY <1>3, <1>4, <1>5, <2>2 DEF MadeInv, MadeIn
  <2>3. QED
    BY <2>1, <2>2 DEF MadeIn
<1>7. QED
  BY <1>6 DEF MadeInv

LEMMA MadeKept ==
    ASSUME OnlineInv, [OnlineNext]_onlineVars
    PROVE  MadeInv'
<1> USE DEF OnlineInv
<1>1. ASSUME UNCHANGED <<db, made>> PROVE MadeInv'
  BY <1>1, GrowthKeepsMade DEF Growth
<1>2. ASSUME NEW w \in Worker, Work(w) PROVE MadeInv'
  BY <1>2, BookEffect, GrowthKeepsMade DEF Work, GoesOn, Refuses, Accepts
<1>3. ASSUME NEW w \in Worker, Reply(w) PROVE MadeInv'
  <2>1. pc[w] \in BookingPc /\ (Refuses(w) \/ Accepts(w))
    BY <1>3, BookEffect DEF Reply, GoesOn, BookingPc
  <2>2. serving[w] \in Form!Request /\ job[w] = BodyOf(serving[w])
    BY <2>1 DEF ServingInv, BookingPc, Busy
  <2>3. CASE Refuses(w)
    BY <1>1, <1>3, <2>3 DEF Reply, Refuses
  <2>4. CASE Accepts(w)
    BY <1>3, <2>2, <2>4, AcceptKeepsMade DEF Reply, Accepts
  <2>5. QED
    BY <2>1, <2>3, <2>4
<1>4. ASSUME NEW w \in Worker, Die(w) \/ Desk(w) PROVE MadeInv'
  BY <1>4, CrashEffect, DeskEffect, GrowthKeepsMade DEF Die, Desk, Growth
<1>5. ASSUME NEW w \in Worker, NEW r \in net, Take(w, r) PROVE MadeInv'
  BY <1>1, <1>5, PageFacts, TakeEffect DEF Take
<1>6. CASE \/ \E p \in Page : PageStep(p)
           \/ \E r \in net : Lose(r)
           \/ \E a \in answers : Deliver(a)
           \/ UNCHANGED onlineVars
  BY <1>1, <1>6
     DEF PageStep, Form!Choose, Form!Submit, Form!NetworkError, Form!ResetForm, Lose,
         Form!Lose, Deliver, Form!Deliver, onlineVars, vars
<1>7. QED
  BY <1>2, <1>3, <1>4, <1>5, <1>6 DEF OnlineNext
-----------------------------------------------------------------------------
(***************************************************************************)
(* BookingPage's own invariant, by its own proof.                          *)
(***************************************************************************)

LEMMA ClashingTimesType == ClashingTimes \subseteq Slot \X Slot
BY DEF ClashingTimes

LEMMA SamePages ==
    /\ Pages!Init <=> PagesProofs!Init
    /\ [Pages!Next]_(Pages!vars) <=> [PagesProofs!Next]_(PagesProofs!vars)
<1>1. Pages!Init <=> PagesProofs!Init
  BY DEF Pages!Init, PagesProofs!Init, Pages!Unchosen, PagesProofs!Unchosen
<1>2. ASSUME NEW p \in Page
      PROVE  /\ Pages!Choose(p) <=> PagesProofs!Choose(p)
             /\ Pages!Submit(p) <=> PagesProofs!Submit(p)
             /\ Pages!NetworkError(p) <=> PagesProofs!NetworkError(p)
             /\ Pages!ResetForm(p) <=> PagesProofs!ResetForm(p)
  BY DEF Pages!Choose, PagesProofs!Choose, Pages!Submit, PagesProofs!Submit,
         Pages!StaffFor, PagesProofs!StaffFor, Pages!NetworkError, PagesProofs!NetworkError,
         Pages!ResetForm, PagesProofs!ResetForm, Pages!Unchosen, PagesProofs!Unchosen
<1>3. \A r : /\ Pages!Serve(r) <=> PagesProofs!Serve(r)
             /\ Pages!Lose(r) <=> PagesProofs!Lose(r)
  BY DEF Pages!Serve, PagesProofs!Serve, Pages!Taken, PagesProofs!Taken, Pages!Lose,
         PagesProofs!Lose, Pages!pageVars, PagesProofs!pageVars
<1>4. \A a : Pages!Deliver(a) <=> PagesProofs!Deliver(a)
  BY DEF Pages!Deliver, PagesProofs!Deliver, Pages!Answered, PagesProofs!Answered
<1>5. Pages!vars = PagesProofs!vars /\ (Pages!vars)' = (PagesProofs!vars)'
  BY DEF Pages!vars, PagesProofs!vars, Pages!pageVars, PagesProofs!pageVars
<1>6. Pages!Next <=> PagesProofs!Next
  BY <1>2, <1>3, <1>4 DEF Pages!Next, PagesProofs!Next
<1>7. QED
  BY <1>1, <1>5, <1>6

LEMMA PagesKeepInv ==
    /\ Pages!Init => PagesProofs!PageInv
    /\ PagesProofs!PageInv /\ [Pages!Next]_(Pages!vars) => PagesProofs!PageInv'
<1>1. NoRequest \notin PagesProofs!Request
  BY SameRequests, BodyAssumption
<1>2. PagesProofs!Init => PagesProofs!PageInv
  BY <1>1, PagesProofs!PageInit, VisitorAssumption, ClashingTimesType
<1>3. PagesProofs!PageInv /\ [PagesProofs!Next]_(PagesProofs!vars) => PagesProofs!PageInv'
  BY <1>1, PagesProofs!PageNext, VisitorAssumption, ClashingTimesType
<1>4. QED
  BY <1>2, <1>3, SamePages
-----------------------------------------------------------------------------
(***************************************************************************)
(* Theorems                                                                *)
(***************************************************************************)

LEMMA OnlineStart == OnlineInit => OnlineInv /\ Pages!Init
<1> SUFFICES ASSUME OnlineInit PROVE OnlineInv /\ Pages!Init
  OBVIOUS
<1>1. Init /\ Form!Init /\ serving = [w \in Worker |-> NoRequest]
  BY DEF OnlineInit
<1>2. \A w \in Worker : ~Busy(w)
  BY <1>1 DEF Init, Busy
<1>3. InServer = {}
  BY <1>2 DEF InServer, Busy
<1>4. Pages!Init
  BY <1>1, <1>3 DEF Form!Init, Pages!Init, Form!Unchosen, Pages!Unchosen
<1>5. ServerInv
  BY <1>1, InitInv, FiledInit DEF ServerInv
<1>6. ServingInv
  BY <1>1, <1>2 DEF ServingInv
<1>7. OnceInv
  BY <1>1, <1>2, <1>3 DEF OnceInv, Form!Init
<1>8. MadeInv
  BY <1>1, VisitorAssumption DEF Init, WalInit, Seeded, Form!Init, MadeInv, MadeIn
<1>9. QED
  BY <1>4, <1>5, <1>6, <1>7, <1>8, PagesKeepInv DEF OnlineInv

LEMMA OnlineStep == OnlineInv /\ [OnlineNext]_onlineVars => OnlineInv'
<1> SUFFICES ASSUME OnlineInv, [OnlineNext]_onlineVars PROVE OnlineInv'
  OBVIOUS
<1>1. ServerInv'
  BY ServerKeeps DEF OnlineInv, OnceInv
<1>2. PagesProofs!PageInv'
  BY StepImplementsPages, PagesKeepInv DEF OnlineInv
<1>3. QED
  BY <1>1, <1>2, ServingKept, OnceKept, MadeKept DEF OnlineInv

LEMMA AlwaysOnlineInv == OnlineSpec => []OnlineInv
BY OnlineStart, OnlineStep, PTL DEF OnlineSpec

\* Over the server call by call, with crashes, lost requests and retries that
\* meet the first request inside its transaction, the pages behave as over one
\* that books in a single step.
THEOREM PagesRefined == OnlineSpec => PagesSpec
<1>1. OnlineInv /\ [OnlineNext]_onlineVars => [Pages!Next]_(Pages!vars)
  BY StepImplementsPages
<1>2. OnlineInit => Pages!Init
  BY OnlineStart
<1>3. QED
  BY <1>1, <1>2, AlwaysOnlineInv, PTL DEF OnlineSpec, PagesSpec, Pages!Spec

\* Whoever sees the confirmation has an appointment filed under his contact, at
\* the time and with the stylist of his last request.
THEOREM VisitorFiled == OnlineSpec => []ConfirmedIsFiled
<1>1. ASSUME OnlineInv PROVE ConfirmedIsFiled
  <2>1. ASSUME NEW p \in Page, panel[p] = "confirmed"
        PROVE  \E r \in made, i \in DOMAIN db.apts :
                  /\ r.page = p /\ r.try = tries[p]
                  /\ db.apts[i].staff = r.staff
                  /\ db.apts[i].date = Day /\ db.apts[i].start = r.slot
                  /\ db.apts[i].status # "cancelled"
                  /\ db.clients[db.apts[i].client] = ContactOf[p]
    <3>1. PICK r \in made : r.page = p /\ r.try = tries[p]
      BY <1>1, <2>1 DEF OnlineInv, PagesProofs!PageInv, PagesProofs!ConfirmedIsBooked
    <3>2. PICK i \in DOMAIN db.apts : Standing(db, i, r)
      BY <1>1, <3>1 DEF OnlineInv, MadeInv, MadeIn
    <3>3. QED
      BY <3>1, <3>2 DEF Standing
  <2>2. QED
    BY <2>1 DEF ConfirmedIsFiled
<1>2. QED
  BY <1>1, AlwaysOnlineInv, PTL
=============================================================================
