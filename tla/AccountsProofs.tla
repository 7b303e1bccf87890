--------------------------- MODULE AccountsProofs ---------------------------
(***************************************************************************)
(* Proofs about Accounts, for every set of workers, usernames and          *)
(* requests.  The argument is that of LedgerProofs: an inductive invariant *)
(* of the concurrent system, in which every commit installs what one whole *)
(* registration or edit makes of the committed accounts.                   *)
(***************************************************************************)
EXTENDS Accounts, TLAPS

\* Accounts as login and the appointments need them.
Good(d) == d \in Databases /\ DistinctUsernames(d) /\ OneRowPerStylist(d)

-----------------------------------------------------------------------------
(***************************************************************************)
(* What the two kinds of transaction make of good accounts.                *)
(***************************************************************************)

\* Registering: the first INSERT, and what both make of the tables.
Registered(d, r) == WithStaffOf(WithUser(d, r), Len(d.users) + 1)

\* Editing: both UPDATEs.
Edited(d, e) == WithStaffDetails(WithDetails(d, e), e)

\* The INSERT of the user appends one row.
LEMMA WithUserRows ==
    ASSUME NEW d \in Databases, NEW r \in Registrations
    PROVE  /\ WithUser(d, r) \in Databases
           /\ WithUser(d, r).staff = d.staff
           /\ Len(d.users) \in Nat
           /\ DOMAIN d.users = 1 .. Len(d.users)
           /\ DOMAIN WithUser(d, r).users = 1 .. Len(d.users) + 1
           /\ \A i \in 1 .. Len(d.users) : WithUser(d, r).users[i] = d.users[i]
           /\ WithUser(d, r).users[Len(d.users) + 1] = r
<1>1. r \in User /\ d.users \in Seq(User)
  BY AccountAssumption DEF Databases
<1>2. /\ Append(d.users, r) \in Seq(User)
      /\ Len(d.users) \in Nat
      /\ DOMAIN d.users = 1 .. Len(d.users)
      /\ DOMAIN Append(d.users, r) = 1 .. Len(d.users) + 1
      /\ \A i \in 1 .. Len(d.users) : Append(d.users, r)[i] = d.users[i]
      /\ Append(d.users, r)[Len(d.users) + 1] = r
  BY <1>1
<1>3. WithUser(d, r) = [d EXCEPT !.users = Append(d.users, r)]
  BY DEF WithUser
<1>4. QED
  BY <1>2, <1>3 DEF Databases

\* The INSERT of a row of staff appends it.
LEMMA AppendedRow ==
    ASSUME NEW staff \in Seq(StaffRow), NEW row \in StaffRow
    PROVE  /\ Append(staff, row) \in Seq(StaffRow)
           /\ Len(staff) \in Nat
           /\ DOMAIN staff = 1 .. Len(staff)
           /\ DOMAIN Append(staff, row) = 1 .. Len(staff) + 1
           /\ \A k \in 1 .. Len(staff) : Append(staff, row)[k] = staff[k]
           /\ Append(staff, row)[Len(staff) + 1] = row
OBVIOUS

\* A new user whose username was free, with the row of a stylist.
LEMMA RegisterGood ==
    ASSUME NEW d, Good(d), NEW r \in Registrations, ~UsernameTaken(d, r.username)
    PROVE  Good(Registered(d, r))
<1> DEFINE n == Len(d.users) + 1
           e == WithUser(d, r)
           row == [user |-> n, name |-> r.name]
           new == Registered(d, r)
<1>1. d \in Databases /\ d.staff \in Seq(StaffRow) /\ r \in User
  BY AccountAssumption DEF Good, Databases
<1>2. /\ e \in Databases /\ e.staff = d.staff /\ n \in Nat \ {0}
      /\ DOMAIN d.users = 1 .. n - 1 /\ DOMAIN e.users = 1 .. n
      /\ \A i \in 1 .. n - 1 : e.users[i] = d.users[i]
      /\ e.users[n] = r
  BY <1>1, WithUserRows
<1>3. row \in StaffRow /\ row.user = n /\ row.name = r.name
  BY <1>1, <1>2 DEF StaffRow, User
<1>4. \A k \in DOMAIN d.staff : d.staff[k].user \in 1 .. n - 1 /\ d.staff[k].user # n
  BY <1>1, <1>2 DEF Good, OneRowPerStylist
<1>5. new = IF r.role = "stylist" THEN [e EXCEPT !.staff = Append(d.staff, row)] ELSE e
  BY <1>2 DEF Registered, WithStaffOf
<1> HIDE DEF n, e, row, new
<1>6. DistinctUsernames(e)
  <2>1. \A i \in 1 .. n - 1 : d.users[i].username # r.username
    BY <1>2 DEF UsernameTaken
  <2>2. \A i, k \in 1 .. n - 1 : d.users[i].username = d.users[k].username => i = k
    BY <1>2 DEF Good, DistinctUsernames
  <2>3. SUFFICES ASSUME NEW i \in 1 .. n, NEW k \in 1 .. n,
                        e.users[i].username = e.users[k].username
                 PROVE  i = k
    BY <1>2 DEF DistinctUsernames
  <2>4. \A j \in 1 .. n : j = n \/ j \in 1 .. n - 1
    BY <1>2
  <2>5. QED
    BY <1>2, <2>1, <2>2, <2>3, <2>4
<1>7. CASE r.role = "stylist"
  <2> DEFINE m == Len(d.staff)
  <2>1. /\ Append(d.staff, row) \in Seq(StaffRow)
        /\ m \in Nat /\ DOMAIN d.staff = 1 .. m
        /\ DOMAIN Append(d.staff, row) = 1 .. m + 1
        /\ \A k \in 1 .. m : Append(d.staff, row)[k] = d.staff[k]
        /\ Append(d.staff, row)[m + 1] = row
    BY <1>1, <1>3, AppendedRow
  <2>2. new.users = e.users /\ new.staff = Append(d.staff, row) /\ new \in Databases
    BY <1>2, <1>5, <1>7, <2>1 DEF Databases
  <2> HIDE DEF m
  <2>3. \A u \in 1 .. n - 1 : RowsOf(new, u) = RowsOf(d, u)
    BY <1>2, <1>3, <2>1, <2>2 DEF RowsOf
  <2>4. RowsOf(new, n) = {m + 1}
    BY <1>3, <1>4, <2>1, <2>2 DEF RowsOf
  <2>5. \A u \in DOMAIN new.users :
           IF new.users[u].role = "stylist"
           THEN \E k \in RowsOf(new, u) : RowsOf(new, u) = {k}
           ELSE RowsOf(new, u) = {}
    <3> SUFFICES ASSUME NEW u \in 1 .. n
                 PROVE  IF e.users[u].role = "stylist"
                        THEN \E k \in RowsOf(new, u) : RowsOf(new, u) = {k}
                        ELSE RowsOf(new, u) = {}
      BY <1>2, <2>2
    <3>1. CASE u = n
      BY <1>2, <1>7, <2>4, <3>1
    <3>2. CASE u # n
      <4>1. u \in 1 .. n - 1
        BY <1>2, <3>2
      <4>2. QED
        BY <1>2, <2>3, <4>1 DEF Good, OneRowPerStylist
    <3>3. QED
      BY <3>1, <3>2
  <2>6. \A k \in DOMAIN new.staff : /\ new.staff[k].user \in DOMAIN new.users
                                    /\ new.staff[k].name = new.users[new.staff[k].user].name
    <3> SUFFICES ASSUME NEW k \in 1 .. m + 1
                 PROVE  /\ new.staff[k].user \in 1 .. n
                        /\ new.staff[k].name = e.users[new.staff[k].user].name
      BY <1>2, <2>1, <2>2
    <3>1. CASE k = m + 1
      <4>1. new.staff[k] = row
        BY <2>1, <2>2, <3>1
      <4>2. n \in 1 .. n
        BY <1>2
      <4>3. QED
        BY <1>2, <1>3, <4>1, <4>2
    <3>2. CASE k # m + 1
      <4>1. k \in 1 .. m /\ new.staff[k] = d.staff[k]
        BY <2>1, <2>2, <3>2
      <4>2. /\ d.staff[k].user \in 1 .. n - 1
            /\ d.staff[k].name = d.users[d.staff[k].user].name
        BY <1>4, <2>1, <4>1 DEF Good, OneRowPerStylist
      <4>3. \A i \in 1 .. n - 1 : i \in 1 .. n /\ e.users[i] = d.users[i]
        BY <1>2
      <4>4. QED
        BY <4>1, <4>2, <4>3
    <3>3. QED
      BY <3>1, <3>2
  <2>7. QED
    BY <1>6, <2>2, <2>5, <2>6 DEF new, Good, OneRowPerStylist, DistinctUsernames
<1>8. CASE r.role # "stylist"
  <2>1. new = e
    BY <1>5, <1>8
  <2>2. \A u : RowsOf(e, u) = RowsOf(d, u)
    BY <1>2 DEF RowsOf
  <2>3. RowsOf(d, n) = {}
    BY <1>4 DEF RowsOf
  <2>4. OneRowPerStylist(e)
    <3>1. \A u \in 1 .. n : IF e.users[u].role = "stylist"
                            THEN \E k \in RowsOf(d, u) : RowsOf(d, u) = {k}
                            ELSE RowsOf(d, u) = {}
      <4> SUFFICES ASSUME NEW u \in 1 .. n
                   PROVE  IF e.users[u].role = "stylist"
                          THEN \E k \in RowsOf(d, u) : RowsOf(d, u) = {k}
                          ELSE RowsOf(d, u) = {}
        OBVIOUS
      <4>1. CASE u = n
        BY <1>2, <1>8, <2>3, <4>1
      <4>2. CASE u # n
        <5>1. u \in 1 .. n - 1
          BY <1>2, <4>2
        <5>2. QED
          BY <1>2, <5>1 DEF Good, OneRowPerStylist
      <4>3. QED
        BY <4>1, <4>2
    <3>2. \A k \in DOMAIN d.staff :
             /\ d.staff[k].user \in 1 .. n
             /\ d.staff[k].name = e.users[d.staff[k].user].name
      BY <1>2, <1>4 DEF Good, OneRowPerStylist
    <3>3. QED
      BY <1>2, <2>2, <3>1, <3>2 DEF OneRowPerStylist
  <2>5. QED
    BY <1>2, <1>6, <2>1, <2>4 DEF new, Good
<1>9. QED
  BY <1>7, <1>8

\* The UPDATE of users changes one row, or none.
LEMMA WithDetailsRows ==
    ASSUME NEW d \in Databases, NEW e \in Edits
    PROVE  /\ WithDetails(d, e) \in Databases
           /\ WithDetails(d, e).staff = d.staff
           /\ DOMAIN WithDetails(d, e).users = DOMAIN d.users
           /\ \A i \in DOMAIN d.users :
                 /\ WithDetails(d, e).users[i].role = d.users[i].role
                 /\ i # e.user => WithDetails(d, e).users[i] = d.users[i]
                 /\ i = e.user => /\ WithDetails(d, e).users[i].username = e.username
                                  /\ WithDetails(d, e).users[i].name = e.name
<1>1. CASE e.user \notin DOMAIN d.users
  BY <1>1 DEF WithDetails
<1>2. CASE e.user \in DOMAIN d.users
  <2> DEFINE user == [username |-> e.username, name |-> e.name,
                      role |-> d.users[e.user].role]
  <2>1. d.users \in Seq(User) /\ e \in Edit /\ d.users[e.user] \in User
    BY <1>2, AccountAssumption DEF Databases
  <2>2. user \in User
    BY <1>2, <2>1 DEF User, Edit
  <2> DEFINE users == [d.users EXCEPT ![e.user] = user]
  <2>3. WithDetails(d, e) = [d EXCEPT !.users = users]
    BY <1>2 DEF WithDetails
  <2>4. /\ user.username = e.username /\ user.name = e.name
        /\ user.role = d.users[e.user].role
    OBVIOUS
  <2> HIDE DEF user
  <2>5. /\ users \in Seq(User) /\ DOMAIN users = DOMAIN d.users
        /\ \A i \in DOMAIN d.users :
              users[i] = IF i = e.user THEN user ELSE d.users[i]
    BY <1>2, <2>1, <2>2
  <2> HIDE DEF users
  <2>6. WithDetails(d, e) \in Databases
    BY <2>3, <2>5 DEF Databases
  <2>7. WithDetails(d, e).users = users /\ WithDetails(d, e).staff = d.staff
    BY <2>3 DEF Databases
  <2>8. QED
    BY <2>4, <2>5, <2>6, <2>7
<1>3. QED
  BY <1>1, <1>2

\* The second UPDATE writes the new name into the row of a stylist, whose row
\* exists: its INSERT is never needed.
LEMMA EditGood ==
    ASSUME NEW d, Good(d), NEW e \in Edits, ~UsernameClashes(d, e)
    PROVE  Good(Edited(d, e))
<1> DEFINE f == WithDetails(d, e)
           staff == [k \in DOMAIN d.staff |->
                        IF d.staff[k].user = e.user THEN [d.staff[k] EXCEPT !.name = e.name]
                                                    ELSE d.staff[k]]
           new == Edited(d, e)
<1>1. d \in Databases /\ d.staff \in Seq(StaffRow) /\ e \in Edit
  BY AccountAssumption DEF Good, Databases
<1>2. /\ f \in Databases /\ f.staff = d.staff
      /\ DOMAIN f.users = DOMAIN d.users
      /\ \A i \in DOMAIN d.users :
            /\ f.users[i].role = d.users[i].role
            /\ i # e.user => f.users[i] = d.users[i]
            /\ i = e.user => f.users[i].username = e.username /\ f.users[i].name = e.name
  BY <1>1, WithDetailsRows
<1>3. \A u \in DOMAIN d.users :
         IF d.users[u].role = "stylist" THEN \E k \in RowsOf(d, u) : RowsOf(d, u) = {k}
                                        ELSE RowsOf(d, u) = {}
  BY DEF Good, OneRowPerStylist
<1>4. new = IF e.user \in DOMAIN d.users /\ d.users[e.user].role = "stylist"
            THEN [f EXCEPT !.staff = staff] ELSE f
  <2>1. \A u : RowsOf(f, u) = RowsOf(d, u)
    BY <1>2 DEF RowsOf
  <2>2. e.user \in DOMAIN d.users /\ d.users[e.user].role = "stylist" =>
           RowsOf(f, e.user) # {}
    BY <1>3, <2>1
  <2>3. QED
    BY <1>2, <2>2 DEF Edited, WithStaffDetails
<1>5. /\ staff \in Seq(StaffRow)
      /\ DOMAIN staff = DOMAIN d.staff
      /\ \A k \in DOMAIN d.staff :
            /\ staff[k].user = d.staff[k].user
            /\ staff[k].name = IF d.staff[k].user = e.user THEN e.name ELSE d.staff[k].name
  <2>1. e.name \in Name
    BY <1>1 DEF Edit
  <2>2. \A k \in DOMAIN d.staff :
           /\ d.staff[k] \in StaffRow
           /\ [d.staff[k] EXCEPT !.name = e.name] \in StaffRow
           /\ [d.staff[k] EXCEPT !.name = e.name].user = d.staff[k].user
           /\ [d.staff[k] EXCEPT !.name = e.name].name = e.name
    <3>1. \A row \in StaffRow : /\ [row EXCEPT !.name = e.name] \in StaffRow
                                /\ [row EXCEPT !.name = e.name].user = row.user
                                /\ [row EXCEPT !.name = e.name].name = e.name
      BY <2>1 DEF StaffRow
    <3>2. \A k \in DOMAIN d.staff : d.staff[k] \in StaffRow
      BY <1>1
    <3>3. QED
      BY <3>1, <3>2
  <2>3. \A k \in DOMAIN d.staff : staff[k] \in StaffRow
    BY <2>2
  <2>4. DOMAIN d.staff = 1 .. Len(d.staff) /\ Len(d.staff) \in Nat
    BY <1>1
  <2>5. QED
    BY <2>2, <2>3, <2>4
<1> HIDE DEF f, staff, new
<1>6. DistinctUsernames(f)
  <2>1. \A i, k \in DOMAIN d.users : d.users[i].username = d.users[k].username => i = k
    BY DEF Good, DistinctUsernames
  <2>2. e.user \in DOMAIN d.users =>
           \A i \in DOMAIN d.users : i # e.user => d.users[i].username # e.username
    BY DEF UsernameClashes
  <2>3. SUFFICES ASSUME NEW i \in DOMAIN d.users, NEW k \in DOMAIN d.users,
                        f.users[i].username = f.users[k].username
                 PROVE  i = k
    BY <1>2 DEF DistinctUsernames
  <2>4. QED
    BY <1>2, <2>1, <2>2, <2>3
<1>7. CASE e.user \in DOMAIN d.users /\ d.users[e.user].role = "stylist"
  <2>1. new.users = f.users /\ new.staff = staff /\ new \in Databases
    BY <1>2, <1>4, <1>5, <1>7 DEF Databases
  <2>2. \A u : RowsOf(new, u) = RowsOf(d, u)
    BY <1>5, <2>1 DEF RowsOf
  <2>3. \A k \in DOMAIN d.staff : /\ d.staff[k].user \in DOMAIN d.users
                                  /\ staff[k].name = f.users[d.staff[k].user].name
    BY <1>2, <1>5 DEF Good, OneRowPerStylist
  <2>4. OneRowPerStylist(new)
    BY <1>2, <1>3, <1>5, <2>1, <2>2, <2>3 DEF OneRowPerStylist
  <2>5. QED
    BY <1>6, <2>1, <2>4 DEF new, Good, DistinctUsernames
<1>8. CASE ~(e.user \in DOMAIN d.users /\ d.users[e.user].role = "stylist")
  <2>1. new = f
    BY <1>4, <1>8
  <2>2. \A u : RowsOf(f, u) = RowsOf(d, u)
    BY <1>2 DEF RowsOf
  <2>3. \A k \in DOMAIN d.staff : d.staff[k].user # e.user
    <3>1. \A k \in DOMAIN d.staff : d.staff[k].user \in DOMAIN d.users
      BY DEF Good, OneRowPerStylist
    <3>2. e.user \in DOMAIN d.users => RowsOf(d, e.user) = {}
      BY <1>3, <1>8
    <3>3. QED
      BY <3>1, <3>2 DEF RowsOf
  <2>4. \A k \in DOMAIN d.staff : /\ d.staff[k].user \in DOMAIN d.users
                                  /\ d.staff[k].name = f.users[d.staff[k].user].name
    BY <1>2, <2>3 DEF Good, OneRowPerStylist
  <2>5. OneRowPerStylist(f)
    BY <1>2, <1>3, <2>2, <2>4 DEF OneRowPerStylist
  <2>6. QED
    BY <1>2, <1>6, <2>1, <2>5 DEF new, Good
<1>9. QED
  BY <1>7, <1>8

-----------------------------------------------------------------------------
(***************************************************************************)
(* The invariant of the concurrent system, and how each kind of step on    *)
(* the variables preserves it.                                             *)
(***************************************************************************)

Inv == TypeOK /\ IsolationInv /\ UsernamesUnique /\ StaffRowsMatch

\* Every step is one of AtomicAccounts or leaves the accounts alone.
Refines == Atomic!Next \/ db' = db

Others(w) == \A v \in Worker \ {w} : pc'[v] = pc[v] /\ job'[v] = job[v]

\* What the invariant says of the requests and the accounts.
LEMMA InvFacts ==
    ASSUME Inv
    PROVE  RequestsTypeOK /\ db \in Databases /\ Good(db)
BY DEF Inv, TypeOK, UsernamesUnique, StaffRowsMatch, Good

\* The request goes on with a further call of the same handler.
LEMMA GotoStep ==
    ASSUME RequestsTypeOK, NEW w \in Worker, NEW next, Goto(w, next),
           \/ pc[w] \in RegisterPc /\ next \in RegisterPc
           \/ pc[w] \in EditPc /\ next \in EditPc
    PROVE  /\ RequestsTypeOK' /\ Others(w)
           /\ pc'[w] = next /\ job'[w] = job[w]
BY DEF RequestsTypeOK, Goto, Others, RegisterPc, EditPc

\* The request is answered, or its worker dies.
LEMMA AnswerStep ==
    ASSUME RequestsTypeOK, NEW w \in Worker, NEW r \in {"none", "ok", "failed"},
           Answer(w, r)
    PROVE  RequestsTypeOK' /\ Others(w) /\ pc'[w] = "idle"
BY DEF RequestsTypeOK, Answer, Others, RegisterPc, EditPc

\* A step that reads, at most: a username may be looked up on the way.
LEMMA ReadStep ==
    ASSUME Inv, NEW w \in Worker, RequestsTypeOK', Others(w),
           UNCHANGED walVars \/ OpenSnapshot(w),
           pc[w] \notin WritingPc, pc'[w] \notin WritingPc,
           pc'[w] = "insertUser" => ~UsernameTaken(db, job'[w].username)
    PROVE  Inv' /\ Refines
<1>1. UNCHANGED <<db, pending, writer>> /\ WalTypeOK'
  BY DEF Inv, TypeOK, WalTypeOK, OpenSnapshot, walVars
<1>2. \A v \in Worker \ {w} : snapshot'[v] = snapshot[v]
  BY DEF Inv, TypeOK, WalTypeOK, OpenSnapshot, walVars
<1>3. TypeOK'
  BY <1>1 DEF Inv, TypeOK
<1>4. LockInv'
  BY <1>1 DEF Inv, IsolationInv, LockInv, LockFree, Others
<1>5. PendingInv'
  BY <1>1, <1>2 DEF Inv, IsolationInv, PendingInv, Others, WritingPc
<1>6. QED
  BY <1>1, <1>3, <1>4, <1>5 DEF Inv, IsolationInv, UsernamesUnique, StaffRowsMatch, Refines

\* The first statement of a transaction that writes: nothing is committed, and
\* the writer is known to have written new.
LEMMA WriteStep ==
    ASSUME Inv, NEW w \in Worker, RequestsTypeOK', Others(w),
           NEW new \in Databases, TakeLock(w, new), pc'[w] \in WritingPc,
           pc'[w] = "insertStaff" => /\ new = WithUser(db, job'[w])
                                     /\ ~UsernameTaken(db, job'[w].username),
           pc'[w] = "updateStaff" => /\ new = WithDetails(db, job'[w])
                                     /\ ~UsernameClashes(db, job'[w])
    PROVE  Inv' /\ Refines
<1>1. /\ writer' = w /\ pending' = new /\ db' = db /\ LockFree
      /\ \A v \in Worker \ {w} : snapshot'[v] = snapshot[v]
  BY DEF Inv, TypeOK, WalTypeOK, TakeLock
<1>2. TypeOK'
  BY <1>1 DEF Inv, TypeOK, WalTypeOK, TakeLock
<1>3. \A v \in Worker \ {w} : pc'[v] \notin WritingPc
  BY <1>1, NoWorkerAssumption DEF Inv, IsolationInv, LockInv, LockFree, Others
<1>4. LockInv'
  BY <1>1, <1>3, NoWorkerAssumption DEF LockInv, LockFree
<1>5. PendingInv'
  BY <1>1, <1>3 DEF Inv, IsolationInv, PendingInv, Others, WritingPc
<1>6. QED
  BY <1>1, <1>2, <1>4, <1>5 DEF Inv, IsolationInv, UsernamesUnique, StaffRowsMatch, Refines

\* The COMMIT of a transaction, which outdates every snapshot.
LEMMA CommitStep ==
    ASSUME Inv, NEW w \in Worker, RequestsTypeOK', Others(w),
           NEW new, Good(new), Commit(w, new), pc'[w] = "idle"
    PROVE  Inv'
<1>1. /\ writer = w /\ db' = new /\ pending' = new /\ writer' = NoWorker
      /\ \A v \in Worker : snapshot'[v] # "fresh"
  BY DEF Inv, TypeOK, WalTypeOK, Commit, Install, OutdatedBy
<1>2. TypeOK'
  BY <1>1 DEF Inv, TypeOK, WalTypeOK, Commit, Install, OutdatedBy, Good
<1>3. \A v \in Worker : pc'[v] \notin WritingPc
  BY <1>1, NoWorkerAssumption DEF Inv, IsolationInv, LockInv, Others, WritingPc
<1>4. LockInv'
  BY <1>1, <1>3, NoWorkerAssumption DEF LockInv, LockFree
<1>5. PendingInv'
  BY <1>1, <1>3 DEF PendingInv, WritingPc
<1>6. QED
  BY <1>1, <1>2, <1>4, <1>5 DEF Inv, IsolationInv, Good, UsernamesUnique, StaffRowsMatch

\* A request that fails, or dies, rolls back and is over.
LEMMA FailStep ==
    ASSUME Inv, NEW w \in Worker, NEW r \in {"none", "failed"}, Fail(w, r)
    PROVE  Inv' /\ Refines
<1>1. RequestsTypeOK' /\ Others(w) /\ pc'[w] = "idle"
  BY InvFacts, AnswerStep DEF Fail
<1>2. Rollback(w) /\ db' = db
  BY DEF Fail, Rollback
<1>3. TypeOK'
  BY <1>1, <1>2 DEF Inv, TypeOK, WalTypeOK, Rollback
<1>4. LockInv'
  BY <1>1, <1>2, NoWorkerAssumption
     DEF Inv, IsolationInv, LockInv, LockFree, Rollback, Others, WritingPc
<1>5. PendingInv'
  <2>1. ASSUME NEW v \in Worker, pc'[v] # "idle"
        PROVE  pc[v] = pc'[v] /\ job'[v] = job[v] /\ snapshot'[v] = snapshot[v]
    BY <1>1, <1>2, <2>1 DEF Inv, TypeOK, WalTypeOK, Rollback, Others
  <2>2. ASSUME NEW v \in Worker, pc'[v] \in WritingPc
        PROVE  pending' = pending
    BY <1>1, <1>2, <2>1, <2>2 DEF Inv, IsolationInv, LockInv, Rollback, WritingPc
  <2>3. QED
    BY <1>2, <2>1, <2>2 DEF Inv, IsolationInv, PendingInv, WritingPc
<1>6. QED
  BY <1>2, <1>3, <1>4, <1>5 DEF Inv, IsolationInv, UsernamesUnique, StaffRowsMatch, Refines

\* A new request arrives.
LEMMA AcceptStep ==
    ASSUME RequestsTypeOK, NEW w \in Worker, NEW j, NEW first, Accept(w, j, first),
           \/ j \in Registrations /\ first = "checkUsername"
           \/ j \in Edits /\ first = "updateUser"
    PROVE  /\ RequestsTypeOK' /\ Others(w)
           /\ pc[w] = "idle" /\ pc'[w] = first
BY DEF RequestsTypeOK, Accept, Others, RegisterPc, EditPc

-----------------------------------------------------------------------------
(***************************************************************************)
(* The actions, one by one.                                                *)
(***************************************************************************)

\* The operators of AtomicAccounts, under the refinement mapping, are those of
\* Accounts.
LEMMA SameOperators ==
    /\ \A d, name : UsernameTaken(d, name) = Atomic!UsernameTaken(d, name)
    /\ \A d, e : UsernameClashes(d, e) = Atomic!UsernameClashes(d, e)
    /\ \A d, r : Registered(d, r) =
                    Atomic!WithStaffOf(Atomic!WithUser(d, r), Len(d.users) + 1)
    /\ \A d, e : Edited(d, e) = Atomic!WithStaffDetails(Atomic!WithDetails(d, e), e)
    /\ Seeded = Atomic!Seeded
<1>1. \A d, name : UsernameTaken(d, name) = Atomic!UsernameTaken(d, name)
  BY DEF UsernameTaken, Atomic!UsernameTaken
<1>2. \A d, e : UsernameClashes(d, e) = Atomic!UsernameClashes(d, e)
  BY DEF UsernameClashes, Atomic!UsernameClashes
<1>3. /\ \A d, r : WithUser(d, r) = Atomic!WithUser(d, r)
      /\ \A d, u : WithStaffOf(d, u) = Atomic!WithStaffOf(d, u)
  BY DEF WithUser, Atomic!WithUser, WithStaffOf, Atomic!WithStaffOf
<1>4. \A d, e : WithDetails(d, e) = Atomic!WithDetails(d, e)
  BY DEF WithDetails, Atomic!WithDetails
<1>5. \A d, e : WithStaffDetails(d, e) = Atomic!WithStaffDetails(d, e)
  BY DEF WithStaffDetails, Atomic!WithStaffDetails, RowsOf, Atomic!RowsOf
<1>6. Seeded = Atomic!Seeded
  BY DEF Seeded, Atomic!Seeded
<1>7. QED
  BY <1>1, <1>2, <1>3, <1>4, <1>5, <1>6 DEF Registered, Edited

\* User::register up to its first INSERT: the username found free on a snapshot
\* is free as long as the snapshot is current.
LEMMA RegisterReadStep ==
    ASSUME Inv, NEW w \in Worker, RequestRegister(w) \/ CheckUsername(w)
    PROVE  Inv' /\ Refines
<1>1. CASE RequestRegister(w)
  <2>1. PICK r \in Registrations : Accept(w, r, "checkUsername")
    BY <1>1 DEF RequestRegister
  <2>2. /\ RequestsTypeOK' /\ Others(w)
        /\ pc[w] = "idle" /\ pc'[w] = "checkUsername"
    BY <2>1, InvFacts, AcceptStep
  <2>3. UNCHANGED walVars
    BY <2>1 DEF Accept
  <2>4. QED
    BY <2>2, <2>3, ReadStep DEF WritingPc
<1>2. CASE CheckUsername(w)
  <2>1. CASE Fail(w, "failed")
    BY <2>1, FailStep
  <2>2. CASE /\ ~UsernameTaken(db, job[w].username)
             /\ OpenSnapshot(w)
             /\ Goto(w, "insertUser")
    <3>1. pc[w] = "checkUsername"
      BY <1>2 DEF CheckUsername
    <3>2. /\ RequestsTypeOK' /\ Others(w)
          /\ pc'[w] = "insertUser" /\ job'[w] = job[w]
      BY <2>2, <3>1, InvFacts, GotoStep DEF RegisterPc
    <3>3. QED
      BY <2>2, <3>1, <3>2, ReadStep DEF WritingPc
  <2>3. QED
    BY <1>2, <2>1, <2>2 DEF CheckUsername
<1>3. QED
  BY <1>1, <1>2

\* The INSERTs of User::register; the COMMIT is AtomicAccounts' Register.
LEMMA RegisterWriteStep ==
    ASSUME Inv, NEW w \in Worker, InsertUser(w) \/ InsertStaff(w)
    PROVE  Inv' /\ Refines
<1>1. pc[w] \in RegisterPc /\ job[w] \in Registrations /\ db \in Databases
  BY InvFacts DEF InsertUser, InsertStaff, RequestsTypeOK, RegisterPc
<1>2. CASE InsertUser(w)
  <2>1. CASE Fail(w, "failed")
    BY <2>1, FailStep
  <2>2. CASE /\ CanUpgrade(w)
             /\ TakeLock(w, WithUser(db, job[w]))
             /\ Goto(w, "insertStaff")
    <3>1. ~UsernameTaken(db, job[w].username)
      BY <1>2, <2>2 DEF InsertUser, CanUpgrade, Inv, IsolationInv, PendingInv
    <3>2. /\ RequestsTypeOK' /\ Others(w)
          /\ pc'[w] = "insertStaff" /\ job'[w] = job[w]
      BY <1>1, <2>2, InvFacts, GotoStep DEF RegisterPc
    <3>3. WithUser(db, job[w]) \in Databases
      BY <1>1, WithUserRows
    <3>4. QED
      BY <2>2, <3>1, <3>2, <3>3, WriteStep DEF WritingPc
  <2>3. QED
    BY <1>2, <2>1, <2>2 DEF InsertUser
<1>3. CASE InsertStaff(w)
  <2> DEFINE new == Registered(db, job[w])
  <2>1. pending = WithUser(db, job[w]) /\ ~UsernameTaken(db, job[w].username)
    BY <1>3 DEF InsertStaff, Inv, IsolationInv, PendingInv
  <2>2. Len(pending.users) = Len(db.users) + 1
    <3>1. db.users \in Seq(User) /\ job[w] \in User
      BY <1>1, AccountAssumption DEF Databases
    <3>2. pending.users = Append(db.users, job[w])
      BY <1>1, <2>1 DEF WithUser, Databases
    <3>3. QED
      BY <3>1, <3>2
  <2>3. Commit(w, new)
    BY <1>3, <2>1, <2>2 DEF InsertStaff, Registered
  <2>4. RequestsTypeOK' /\ Others(w) /\ pc'[w] = "idle"
    BY <1>3, InvFacts, AnswerStep DEF InsertStaff
  <2>5. Good(new)
    BY <1>1, <2>1, InvFacts, RegisterGood
  <2> HIDE DEF new
  <2>6. Inv'
    BY <2>3, <2>4, <2>5, CommitStep
  <2>7. Atomic!Register
    <3>1. db' = new
      BY <2>3 DEF Commit, Install
    <3>2. QED
      BY <1>1, <2>1, <3>1, SameOperators DEF new, Atomic!Register
  <2>8. QED
    BY <2>6, <2>7 DEF Refines, Atomic!Next
<1>4. QED
  BY <1>2, <1>3

\* User::updateStaffDetails; its COMMIT is AtomicAccounts' Update.
LEMMA EditStep ==
    ASSUME Inv, NEW w \in Worker, RequestEdit(w) \/ UpdateUser(w) \/ UpdateStaff(w)
    PROVE  Inv' /\ Refines
<1>1. CASE RequestEdit(w)
  <2>1. PICK e \in Edits : Accept(w, e, "updateUser")
    BY <1>1 DEF RequestEdit
  <2>2. /\ RequestsTypeOK' /\ Others(w)
        /\ pc[w] = "idle" /\ pc'[w] = "updateUser"
    BY <2>1, InvFacts, AcceptStep
  <2>3. UNCHANGED walVars
    BY <2>1 DEF Accept
  <2>4. QED
    BY <2>2, <2>3, ReadStep DEF WritingPc
<1>2. CASE UpdateUser(w)
  <2>1. pc[w] \in EditPc /\ job[w] \in Edits /\ db \in Databases
    BY <1>2, InvFacts DEF UpdateUser, RequestsTypeOK, EditPc
  <2>2. CASE Fail(w, "failed")
    BY <2>2, FailStep
  <2>3. CASE /\ ~UsernameClashes(db, job[w])
             /\ TakeLock(w, WithDetails(db, job[w]))
             /\ Goto(w, "updateStaff")
    <3>1. /\ RequestsTypeOK' /\ Others(w)
          /\ pc'[w] = "updateStaff" /\ job'[w] = job[w]
      BY <2>1, <2>3, InvFacts, GotoStep DEF EditPc
    <3>2. WithDetails(db, job[w]) \in Databases
      BY <2>1, WithDetailsRows
    <3>3. QED
      BY <2>3, <3>1, <3>2, WriteStep DEF WritingPc
  <2>4. QED
    BY <1>2, <2>2, <2>3 DEF UpdateUser
<1>3. CASE UpdateStaff(w)
  <2> DEFINE new == Edited(db, job[w])
  <2>1. job[w] \in Edits
    BY <1>3, InvFacts DEF UpdateStaff, RequestsTypeOK, EditPc
  <2>2. pending = WithDetails(db, job[w]) /\ ~UsernameClashes(db, job[w])
    BY <1>3 DEF UpdateStaff, Inv, IsolationInv, PendingInv
  <2>3. Commit(w, new)
    BY <1>3, <2>2 DEF UpdateStaff, Edited
  <2>4. RequestsTypeOK' /\ Others(w) /\ pc'[w] = "idle"
    BY <1>3, InvFacts, AnswerStep DEF UpdateStaff
  <2>5. Good(new)
    BY <2>1, <2>2, InvFacts, EditGood
  <2> HIDE DEF new
  <2>6. Inv'
    BY <2>3, <2>4, <2>5, CommitStep
  <2>7. Atomic!Update
    <3>1. db' = new
      BY <2>3 DEF Commit, Install
    <3>2. QED
      BY <2>1, <2>2, <3>1, SameOperators DEF new, Atomic!Update
  <2>8. QED
    BY <2>6, <2>7 DEF Refines, Atomic!Next
<1>4. QED
  BY <1>1, <1>2, <1>3

\* The seeded accounts satisfy the invariant and are where AtomicAccounts starts.
LEMMA InitStep ==
    ASSUME Init
    PROVE  Inv /\ Atomic!Init
<1>1. Good(Seeded)
  BY AccountAssumption, SeedAssumption DEF Good, Seeded, Databases
<1>2. TypeOK
  BY <1>1 DEF Init, WalInit, Good, TypeOK, WalTypeOK, RequestsTypeOK, RegisterPc, EditPc
<1>3. IsolationInv
  BY NoWorkerAssumption
     DEF Init, WalInit, IsolationInv, LockInv, LockFree, PendingInv, WritingPc
<1>4. UsernamesUnique /\ StaffRowsMatch
  BY <1>1 DEF Init, WalInit, Good, UsernamesUnique, StaffRowsMatch
<1>5. Atomic!Init
  BY SameOperators DEF Init, WalInit, Atomic!Init
<1>6. QED
  BY <1>2, <1>3, <1>4, <1>5 DEF Inv

\* Every step preserves the invariant and refines.
LEMMA NextStep ==
    ASSUME Inv, [Next]_vars
    PROVE  Inv' /\ Refines
<1>1. CASE UNCHANGED vars
  BY <1>1
     DEF vars, Inv, TypeOK, WalTypeOK, RequestsTypeOK, IsolationInv, LockInv, LockFree,
         PendingInv, UsernamesUnique, StaffRowsMatch, Refines
<1>2. ASSUME NEW w \in Worker, LockTimeout(w) \/ Crash(w) PROVE Inv' /\ Refines
  BY <1>2, FailStep DEF LockTimeout, Crash
<1>3. QED
  BY <1>1, <1>2, RegisterReadStep, RegisterWriteStep, EditStep DEF Next

\* The invariant holds throughout.
LEMMA AlwaysInv == Spec => []Inv
<1>1. Init => Inv
  BY InitStep
<1>2. Inv /\ [Next]_vars => Inv'
  BY NextStep
<1>3. QED
  BY <1>1, <1>2, PTL DEF Spec

-----------------------------------------------------------------------------
(***************************************************************************)
(* Theorems                                                                *)
(***************************************************************************)

\* The tables and every request variable of register and updateStaff keep their
\* types.
THEOREM TypeCorrect == Spec => []TypeOK
<1>1. Inv => TypeOK
  BY DEF Inv
<1>2. QED
  BY <1>1, AlwaysInv, PTL

\* The username User::register found free is still free when it inserts the
\* user, and a transaction commits what it has written upon the accounts.
THEOREM Isolation == Spec => []IsolationInv
<1>1. Inv => IsolationInv
  BY DEF Inv
<1>2. QED
  BY <1>1, AlwaysInv, PTL

\* No two users get the same username, whoever registers or renames whom.
THEOREM UsernamesStayUnique == Spec => []UsernamesUnique
<1>1. Inv => UsernamesUnique
  BY DEF Inv
<1>2. QED
  BY <1>1, AlwaysInv, PTL

\* Every stylist has one row of staff, of the stylist's name, and nobody else
\* has one, although each handler writes it in a second statement.
THEOREM StaffMatches == Spec => []StaffRowsMatch
<1>1. Inv => StaffRowsMatch
  BY DEF Inv
<1>2. QED
  BY <1>1, AlwaysInv, PTL

\* Interleaved, failed and crashed requests leave the accounts that whole
\* registrations and edits, one after the other, leave.
THEOREM Refinement == Spec => AtomicSpec
<1>1. Init => Atomic!Init
  BY InitStep
<1>2. Inv /\ [Next]_vars => [Atomic!Next]_db
  BY NextStep DEF Refines
<1>3. QED
  BY <1>1, <1>2, AlwaysInv, PTL DEF Spec, AtomicSpec, Atomic!Spec
=============================================================================
