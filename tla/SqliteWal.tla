------------------------------ MODULE SqliteWal ------------------------------
(***************************************************************************)
(* The database all requests share: one SQLite file in WAL mode, reached   *)
(* through PDO (api/core/Database.php opens it with journal_mode = WAL and *)
(* busy_timeout = 5000).  SQLite is not part of the repository; this is    *)
(* what its requests can observe of it:                                    *)
(*                                                                         *)
(*   - one writer at a time; readers never wait and see committed data;    *)
(*   - the first SELECT of a transaction fixes its snapshot, and any       *)
(*     commit by another connection makes that snapshot stale;             *)
(*   - a transaction that has read and now writes must upgrade: it gets    *)
(*     SQLITE_BUSY at once when its snapshot is stale or another           *)
(*     connection holds the write lock (the busy handler is not called);   *)
(*   - a transaction, or a single statement, whose first statement writes  *)
(*     waits for the lock, at most busy_timeout, then gets SQLITE_BUSY;    *)
(*   - COMMIT installs everything at once, ROLLBACK and the death of the   *)
(*     connection install nothing.                                         *)
(*                                                                         *)
(* The operators are conjuncts of the actions of the modules that extend   *)
(* this one; each fixes the next value of all four variables.              *)
(***************************************************************************)

CONSTANTS
    Worker,     \* the Apache prefork workers, one PDO connection each
    NoWorker    \* nobody holds the write lock

ASSUME NoWorkerAssumption == NoWorker \notin Worker

VARIABLES
    db,         \* the committed database
    pending,    \* the database as the writing transaction sees it
    writer,     \* who holds the write lock
    snapshot    \* per worker: no read transaction, a current one, a stale one

walVars == <<db, pending, writer, snapshot>>

LockFree == writer = NoWorker

WalInit(initial) ==
    /\ db = initial
    /\ pending = initial
    /\ writer = NoWorker
    /\ snapshot = [w \in Worker |-> "none"]

WalTypeOK ==
    /\ writer \in Worker \cup {NoWorker}
    /\ snapshot \in [Worker -> {"none", "fresh", "stale"}]

\* The first SELECT of a transaction.
OpenSnapshot(w) ==
    /\ snapshot' = [snapshot EXCEPT ![w] = "fresh"]
    /\ UNCHANGED <<db, pending, writer>>

\* Whether a transaction that has already read may start writing.
CanUpgrade(w) == LockFree /\ snapshot[w] = "fresh"

\* The statement that takes the write lock; new is what the writer now sees.
TakeLock(w, new) ==
    /\ LockFree
    /\ writer' = w
    /\ pending' = new
    /\ snapshot' = [snapshot EXCEPT ![w] = "none"]
    /\ UNCHANGED db

\* A later statement of the transaction that holds the lock.
Amend(w, new) ==
    /\ writer = w
    /\ pending' = new
    /\ UNCHANGED <<db, writer, snapshot>>

\* Every snapshot but w's is behind the database once w has committed.
OutdatedBy(w) ==
    [v \in Worker |-> IF v = w THEN "none"
                      ELSE IF snapshot[v] = "fresh" THEN "stale" ELSE snapshot[v]]

Install(w, new) ==
    /\ db' = new
    /\ pending' = new
    /\ writer' = NoWorker
    /\ snapshot' = OutdatedBy(w)

\* The last statement of a transaction and its COMMIT.
Commit(w, new) == writer = w /\ Install(w, new)

\* A writing statement outside any transaction: begins, writes and commits.
Autocommit(w, new) == LockFree /\ Install(w, new)

\* ROLLBACK, a failed upgrade, or the loss of the connection.
Rollback(w) ==
    /\ writer' = IF writer = w THEN NoWorker ELSE writer
    /\ pending' = IF writer = w THEN db ELSE pending
    /\ snapshot' = [snapshot EXCEPT ![w] = "none"]
    /\ UNCHANGED db

=============================================================================
