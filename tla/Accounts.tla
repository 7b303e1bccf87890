------------------------------ MODULE Accounts ------------------------------
(***************************************************************************)
(* Staff administration as concurrent requests run it:                     *)
(* AuthController.register and AuthController.updateStaff, whose           *)
(* transactions User::register and User::updateStaffDetails are.           *)
(*                                                                         *)
(* register reads before it writes and hashes a password in between: it    *)
(* must upgrade its snapshot.  updateStaffDetails writes first: it waits   *)
(* for the lock, and reads under it.                                       *)
(***************************************************************************)
EXTENDS AccountTables, SqliteWal, FiniteSets

CONSTANT MaxUsers       \* bound: users ever registered

ASSUME MaxUsersAssumption == MaxUsers \in Nat

VARIABLES
    pc,         \* the next database call of each worker
    job,        \* the body of the request it serves
    resp        \* the last answer: success, failure (HTTP 400), or none

vars == <<db, pending, writer, snapshot, pc, job, resp>>

RegisterPc == {"checkUsername", "insertUser", "insertStaff"}
EditPc == {"updateUser", "updateStaff"}
WritingPc == {"insertStaff", "updateStaff"}

NoJob == [user |-> 0]
-----------------------------------------------------------------------------
Init ==
    /\ WalInit(Seeded)
    /\ pc = [w \in Worker |-> "idle"]
    /\ job = [w \in Worker |-> NoJob]
    /\ resp = [w \in Worker |-> "none"]

Accept(w, j, first) ==
    /\ pc[w] = "idle"
    /\ pc' = [pc EXCEPT ![w] = first]
    /\ job' = [job EXCEPT ![w] = j]
    /\ resp' = [resp EXCEPT ![w] = "none"]
    /\ UNCHANGED walVars

Goto(w, next) ==
    /\ pc' = [pc EXCEPT ![w] = next]
    /\ UNCHANGED <<job, resp>>

Answer(w, r) ==
    /\ pc' = [pc EXCEPT ![w] = "idle"]
    /\ job' = [job EXCEPT ![w] = NoJob]
    /\ resp' = [resp EXCEPT ![w] = r]

\* An exception: catch, rollBack, HTTP 400.
Fail(w, r) == Rollback(w) /\ Answer(w, r)
-----------------------------------------------------------------------------
RequestRegister(w) ==
    /\ Len(db.users) + Cardinality({v \in Worker : pc[v] \in RegisterPc}) < MaxUsers
    /\ \E r \in Registrations : Accept(w, r, "checkUsername")

\* BEGIN and the look for the username.
CheckUsername(w) ==
    /\ pc[w] = "checkUsername"
    /\ \/ /\ UsernameTaken(db, job[w].username)
          /\ Fail(w, "failed")
       \/ /\ ~UsernameTaken(db, job[w].username)
          /\ OpenSnapshot(w)
          /\ Goto(w, "insertUser")

\* A mistake to compare with: no transaction around the two INSERTs.
InsertUserCommitted(w) ==
    /\ pc[w] = "insertUser"
    /\ \/ /\ CanUpgrade(w)
          /\ Autocommit(w, WithUser(db, job[w]))
          /\ Goto(w, "insertStaff")
       \/ /\ ~CanUpgrade(w)
          /\ Fail(w, "failed")

\* A mistake to compare with: the look for the username before the
\* transaction, and no UNIQUE on the column.
InsertUserUnchecked(w) ==
    /\ pc[w] = "insertUser"
    /\ TakeLock(w, WithUser(db, job[w]))
    /\ Goto(w, "insertStaff")

\* The password is hashed, then the user inserted.
InsertUser(w) ==
    /\ pc[w] = "insertUser"
    /\ \/ /\ CanUpgrade(w)
          /\ TakeLock(w, WithUser(db, job[w]))
          /\ Goto(w, "insertStaff")
       \/ /\ ~CanUpgrade(w)
          /\ Fail(w, "failed")

InsertStaff(w) ==
    /\ pc[w] = "insertStaff"
    /\ Commit(w, WithStaffOf(pending, Len(pending.users)))
    /\ Answer(w, "ok")
-----------------------------------------------------------------------------
RequestEdit(w) ==
    \E e \in Edits : Accept(w, e, "updateUser")

\* BEGIN and the UPDATE of users, once the lock is free.
UpdateUser(w) ==
    /\ pc[w] = "updateUser"
    /\ \/ /\ UsernameClashes(db, job[w])
          /\ LockFree
          /\ Fail(w, "failed")
       \/ /\ ~UsernameClashes(db, job[w])
          /\ TakeLock(w, WithDetails(db, job[w]))
          /\ Goto(w, "updateStaff")

\* The role and the row of staff are read under the lock.
UpdateStaff(w) ==
    /\ pc[w] = "updateStaff"
    /\ Commit(w, WithStaffDetails(pending, job[w]))
    /\ Answer(w, "ok")

\* busy_timeout expires while another worker holds the lock.
LockTimeout(w) ==
    /\ pc[w] = "updateUser"
    /\ ~LockFree
    /\ Fail(w, "failed")

\* The worker or the container dies; its client never gets an answer.
Crash(w) ==
    /\ pc[w] # "idle"
    /\ Fail(w, "none")
-----------------------------------------------------------------------------
Next ==
    \E w \in Worker :
        \/ RequestRegister(w) \/ CheckUsername(w) \/ InsertUser(w) \/ InsertStaff(w)
        \/ RequestEdit(w) \/ UpdateUser(w) \/ UpdateStaff(w) \/ LockTimeout(w)
        \/ Crash(w)

Spec == Init /\ [][Next]_vars
-----------------------------------------------------------------------------
(***************************************************************************)
(* Properties                                                              *)
(***************************************************************************)

RequestsTypeOK ==
    /\ pc \in [Worker -> {"idle"} \cup RegisterPc \cup EditPc]
    /\ job \in [Worker -> Registrations \cup Edits \cup {NoJob}]
    /\ \A w \in Worker :
          /\ pc[w] \in RegisterPc => job[w] \in Registrations
          /\ pc[w] \in EditPc => job[w] \in Edits
    /\ resp \in [Worker -> {"none", "ok", "failed"}]

\* The types of the tables and of each request's own variables.
TypeOK ==
    /\ WalTypeOK
    /\ db \in Databases
    /\ pending \in Databases
    /\ RequestsTypeOK

\* Exactly the worker inside its writing statements holds the lock; with the
\* lock free nothing is uncommitted.
LockInv ==
    /\ \A w \in Worker : writer = w <=> pc[w] \in WritingPc
    /\ LockFree => pending = db

\* A username found free is free as long as the snapshot it was found on is
\* current, and the writer sees its own statements only.
PendingInv ==
    \A w \in Worker :
        /\ pc[w] = "insertUser" /\ snapshot[w] = "fresh" =>
              ~UsernameTaken(db, job[w].username)
        /\ pc[w] = "insertStaff" =>
              /\ pending = WithUser(db, job[w])
              /\ ~UsernameTaken(db, job[w].username)
        /\ pc[w] = "updateStaff" =>
              /\ pending = WithDetails(db, job[w])
              /\ ~UsernameClashes(db, job[w])

\* A request is isolated from every other from its first writing statement on,
\* and from the look for the username when that comes first: the strengthening
\* under which the properties below are inductive.
IsolationInv == LockInv /\ PendingInv

\* No two users share a username, whoever registers or renames whom at once:
\* login looks a user up by it.
UsernamesUnique == DistinctUsernames(db)

\* Every stylist has exactly one row of staff, nobody else has one, and it bears
\* the stylist's name: appointments name stylists by that row, commissions are
\* found from it, and it is written in a second statement of both handlers.
StaffRowsMatch == OneRowPerStylist(db)

\* Concurrent requests have the effect of registrations and edits that happen
\* at once, one after the other.
Atomic == INSTANCE AtomicAccounts

AtomicSpec == Atomic!Spec
=============================================================================
