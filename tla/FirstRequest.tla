---------------------------- MODULE FirstRequest -----------------------------
(***************************************************************************)
(* The creation of the database, Database.getConnection and createTables,  *)
(* by the first requests after a deployment.  Whoever finds no file runs   *)
(* the whole script, one autocommitted statement after the other; nobody   *)
(* looks whether another request is running it.  Of what a connected       *)
(* request may write meanwhile only today's drawer is kept, the one row    *)
(* the script inserts too; there is one day.                               *)
(*                                                                         *)
(* The other modules start from the database this one ends with.           *)
(***************************************************************************)
EXTENDS Naturals, Sequences, FiniteSets

CONSTANT Worker

Tables == <<"users", "services", "staff", "clients", "appointments", "products",
            "invoices", "invoice_items", "expenses", "cash_reconciliation">>
Table == {Tables[i] : i \in DOMAIN Tables}

\* The seeds, in the order of the three exec calls.
SeededTables == <<"users", "services", "staff", "products", "clients",
                  "appointments", "cash_reconciliation">>

Statement == [does : {"create", "seed"}, table : Table]

\* A mistake to compare with: the users, whose names are unique, last.
ScriptUsersLast ==
    [i \in DOMAIN Tables |-> [does |-> "create", table |-> Tables[i]]]
    \o [i \in DOMAIN Tail(SeededTables) |->
           [does |-> "seed", table |-> Tail(SeededTables)[i]]]
    \o <<[does |-> "seed", table |-> "users"]>>

Script ==
    [i \in DOMAIN Tables |-> [does |-> "create", table |-> Tables[i]]]
    \o [i \in DOMAIN SeededTables |-> [does |-> "seed", table |-> SeededTables[i]]]

\* The columns the seeds fill that admit no second copy.
UniqueTables == {"users", "cash_reconciliation"}

VARIABLES
    file,       \* whether the file exists
    created,    \* the tables it has
    copies,     \* how many times each table was seeded; for the drawers, today's rows
    pc,         \* where each worker's request is
    line,       \* the statement of the script it runs next
    gaveUp      \* history: a worker that found no file has died, or was refused
                \* by a lock, between creating the file and the script's end

vars == <<file, created, copies, pc, line, gaveUp>>

Init ==
    /\ file = FALSE
    /\ created = {}
    /\ copies = [t \in Table |-> 0]
    /\ pc = [w \in Worker |-> "idle"]
    /\ line = [w \in Worker |-> 1]
    /\ gaveUp = FALSE

Places == {"idle", "openOld", "openNew", "pragmaOld", "pragmaNew", "creating", "connected"}

Goto(w, next) == pc' = [pc EXCEPT ![w] = next]

\* The places of a request that owes the database its contents.
Owing == {"pragmaNew", "creating"}

\* The places of a request with a connection to the file.
Connected(w) == pc[w] \in {"pragmaOld", "pragmaNew", "creating", "connected"}
-----------------------------------------------------------------------------
\* A mistake to compare with: the file looked for once it is opened.
LookAfterOpen(w) ==
    /\ pc[w] = "idle"
    /\ file' = TRUE
    /\ Goto(w, "pragmaOld")
    /\ UNCHANGED <<created, copies, line, gaveUp>>

\* file_exists.
Look(w) ==
    /\ pc[w] = "idle"
    /\ Goto(w, IF file THEN "openOld" ELSE "openNew")
    /\ UNCHANGED <<file, created, copies, line, gaveUp>>

\* new PDO creates the file, empty, when there is none.
Open(w) ==
    /\ pc[w] \in {"openOld", "openNew"}
    /\ file' = TRUE
    /\ line' = [line EXCEPT ![w] = 1]
    /\ Goto(w, IF pc[w] = "openNew" THEN "pragmaNew" ELSE "pragmaOld")
    /\ UNCHANGED <<created, copies, gaveUp>>

\* The pragmas; that of journal_mode is the first to need the file's locks.
SetJournal(w) ==
    /\ pc[w] \in {"pragmaOld", "pragmaNew"}
    /\ Goto(w, IF pc[w] = "pragmaNew" THEN "creating" ELSE "connected")
    /\ UNCHANGED <<file, created, copies, line, gaveUp>>

\* A PDOException of the connection, of a pragma or of a statement, HTTP 500:
\* the file cannot be opened, or another connection keeps it locked (SQLITE_BUSY).
Refused(w) ==
    /\ \/ pc[w] \in {"openOld", "openNew"}
       \/ /\ pc[w] \in {"pragmaOld", "pragmaNew", "creating"}
          /\ \E v \in Worker \ {w} : Connected(v)
    /\ Goto(w, "idle")
    /\ gaveUp' = (gaveUp \/ pc[w] \in Owing)
    /\ UNCHANGED <<file, created, copies, line>>

Create(w, t) ==     \* IF NOT EXISTS
    /\ created' = created \cup {t}
    /\ line' = [line EXCEPT ![w] = @ + 1]
    /\ UNCHANGED <<copies, pc>>

Seed(w, t) ==
    /\ UNCHANGED created
    /\ \/ /\ t \in UniqueTables /\ copies[t] > 0    \* PDOException: HTTP 500
          /\ Goto(w, "idle")
          /\ UNCHANGED <<copies, line>>
       \/ /\ t \notin UniqueTables \/ copies[t] = 0
          /\ copies' = [copies EXCEPT ![t] = @ + 1]
          /\ line' = [line EXCEPT ![w] = @ + 1]
          /\ UNCHANGED pc

RunStatement(w) ==
    /\ pc[w] = "creating"
    /\ line[w] \in DOMAIN Script
    /\ LET s == Script[line[w]] IN
          \/ s.does = "create" /\ Create(w, s.table)
          \/ s.does = "seed" /\ Seed(w, s.table)
    /\ UNCHANGED <<file, gaveUp>>

\* createTables returns.
Finish(w) ==
    /\ pc[w] = "creating"
    /\ line[w] \notin DOMAIN Script
    /\ Goto(w, "connected")
    /\ UNCHANGED <<file, created, copies, line, gaveUp>>

\* What a request of the till does first: getTodayStatus inserts today's drawer
\* when it finds none, and then the script's last seed is refused.
OpenDrawer(w) ==
    /\ pc[w] = "connected"
    /\ "cash_reconciliation" \in created
    /\ copies["cash_reconciliation"] = 0
    /\ copies' = [copies EXCEPT !["cash_reconciliation"] = 1]
    /\ UNCHANGED <<file, created, pc, line, gaveUp>>

\* The request is over, and with it its connection.
Close(w) ==
    /\ pc[w] = "connected"
    /\ Goto(w, "idle")
    /\ UNCHANGED <<file, created, copies, line, gaveUp>>

\* The worker or the container dies.
Crash(w) ==
    /\ pc[w] # "idle"
    /\ Goto(w, "idle")
    /\ gaveUp' = (gaveUp \/ pc[w] \in Owing)
    /\ UNCHANGED <<file, created, copies, line>>
-----------------------------------------------------------------------------
Serve(w) ==
    \/ Look(w) \/ Open(w) \/ SetJournal(w) \/ RunStatement(w) \/ Finish(w)
    \/ OpenDrawer(w) \/ Close(w)

Next == \E w \in Worker : Serve(w) \/ Refused(w) \/ Crash(w)

Spec == Init /\ [][Next]_vars

(***************************************************************************)
(* A request that has begun runs on; whether one begins, is refused or     *)
(* dies is open.                                                           *)
(***************************************************************************)
FairSpec ==
    /\ Spec
    /\ \A w \in Worker :
          WF_vars(Open(w) \/ SetJournal(w) \/ RunStatement(w) \/ Finish(w))
-----------------------------------------------------------------------------
(***************************************************************************)
(* Properties                                                              *)
(***************************************************************************)

\* The types of the file's contents and of the requests.
TypeOK ==
    /\ file \in BOOLEAN
    /\ created \subseteq Table
    /\ copies \in [Table -> Nat]
    /\ pc \in [Worker -> Places]
    /\ line \in [Worker -> 1 .. Len(Script) + 1]
    /\ gaveUp \in BOOLEAN

\* However many first requests run the script at once, nothing is seeded twice,
\* not even the tables that would take a second copy: the users come first,
\* and the request that is not the first to insert them goes no further.
SeededOnce == \A t \in Table : copies[t] <= 1

Complete ==
    /\ created = Table
    /\ \A i \in DOMAIN SeededTables : copies[SeededTables[i]] = 1

\* A database that nobody is creating is complete, unless a worker gave up after
\* it had made the file: of requests that all found no file, those the fastest
\* one's rows refuse leave nothing undone, and neither does the one whose
\* last row a request of the till has inserted before it.
PartialMeansGivenUp ==
    file /\ ~gaveUp /\ (\A w \in Worker : pc[w] \notin Owing) => Complete

\* Once there is a file there will be a complete database, or a worker gave up.
EventuallyComplete == file ~> Complete \/ gaveUp
=============================================================================
