-------------------------- MODULE FirstRequestProofs --------------------------
(***************************************************************************)
(* Proofs about FirstRequest, for every set of workers: how often a table  *)
(* is seeded and what a database lacks that nobody is creating.            *)
(***************************************************************************)
EXTENDS FirstRequest, SequenceTheorems, TLAPS

-----------------------------------------------------------------------------
(***************************************************************************)
(* The script.                                                             *)
(***************************************************************************)

LEMMA TablesShape ==
    /\ DOMAIN Tables = 1 .. 10
    /\ \A i \in 1 .. 10 : Tables[i] \in Table
    /\ Table = {Tables[i] : i \in 1 .. 10}
BY DEF Tables, Table

LEMMA SeedsShape ==
    /\ DOMAIN SeededTables = 1 .. 7
    /\ \A j \in 1 .. 7 : SeededTables[j] \in Table
    /\ \A i, j \in 1 .. 7 : SeededTables[i] = SeededTables[j] => i = j
    /\ SeededTables[1] = "users" /\ "users" \in Table
    /\ SeededTables[7] = "cash_reconciliation" /\ "cash_reconciliation" \in Table
    /\ \A t \in UniqueTables : t = "users" \/ t = "cash_reconciliation"
<1>1. DOMAIN SeededTables = 1 .. 7
  BY DEF SeededTables
<1>2. /\ "users" \in Table /\ "services" \in Table /\ "staff" \in Table
      /\ "products" \in Table /\ "clients" \in Table /\ "appointments" \in Table
      /\ "cash_reconciliation" \in Table
  <2>1. /\ Tables[1] = "users" /\ Tables[2] = "services" /\ Tables[3] = "staff"
        /\ Tables[4] = "clients" /\ Tables[5] = "appointments" /\ Tables[6] = "products"
        /\ Tables[10] = "cash_reconciliation"
    BY DEF Tables
  <2>2. QED
    BY <2>1, TablesShape
<1>3. /\ SeededTables[1] = "users" /\ SeededTables[2] = "services"
      /\ SeededTables[3] = "staff" /\ SeededTables[4] = "products"
      /\ SeededTables[5] = "clients" /\ SeededTables[6] = "appointments"
      /\ SeededTables[7] = "cash_reconciliation"
  BY DEF SeededTables
<1>4. \A j \in 1 .. 7 : j = 1 \/ j = 2 \/ j = 3 \/ j = 4 \/ j = 5 \/ j = 6 \/ j = 7
  OBVIOUS
<1>5. \A j \in 1 .. 7 : SeededTables[j] \in Table
  BY <1>2, <1>3, <1>4
<1>6. \A i, j \in 1 .. 7 : SeededTables[i] = SeededTables[j] => i = j
  BY <1>3, <1>4
<1>7. QED
  BY <1>1, <1>2, <1>3, <1>5, <1>6 DEF UniqueTables

\* Ten tables are created, then seven seeded.
LEMMA ScriptShape ==
    /\ DOMAIN Script = 1 .. 17 /\ Len(Script) = 17
    /\ \A i \in 1 .. 10 : Script[i] = [does |-> "create", table |-> Tables[i]]
    /\ \A j \in 1 .. 7 : Script[10 + j] = [does |-> "seed", table |-> SeededTables[j]]
<1> DEFINE creates == [i \in DOMAIN Tables |-> [does |-> "create", table |-> Tables[i]]]
           seeds == [i \in DOMAIN SeededTables |->
                        [does |-> "seed", table |-> SeededTables[i]]]
<1>1. creates \in [1 .. 10 -> Statement] /\ seeds \in [1 .. 7 -> Statement]
  BY TablesShape, SeedsShape DEF Statement
<1>2. /\ \A i \in 1 .. 10 : creates[i] = [does |-> "create", table |-> Tables[i]]
      /\ \A j \in 1 .. 7 : seeds[j] = [does |-> "seed", table |-> SeededTables[j]]
  BY TablesShape, SeedsShape
<1>3. Script = creates \o seeds
  BY DEF Script
<1> HIDE DEF creates, seeds
<1>4. creates \in Seq(Statement) /\ seeds \in Seq(Statement)
  <2>1. \A n \in Nat : [1 .. n -> Statement] \subseteq Seq(Statement)
    BY SeqDef
  <2>2. 10 \in Nat /\ 7 \in Nat
    OBVIOUS
  <2>3. QED
    BY <1>1, <2>1, <2>2, Zenon
<1>5. Len(creates) = 10 /\ Len(seeds) = 7
  BY <1>1, <1>4
<1>6. /\ Script \in Seq(Statement) /\ Len(Script) = 17
      /\ \A i \in 1 .. 17 : Script[i] = IF i <= 10 THEN creates[i] ELSE seeds[i - 10]
  <2>1. /\ Len(creates \o seeds) = Len(creates) + Len(seeds)
        /\ creates \o seeds \in Seq(Statement)
        /\ \A i \in 1 .. Len(creates) + Len(seeds) :
               (creates \o seeds)[i] =
                   IF i <= Len(creates) THEN creates[i] ELSE seeds[i - Len(creates)]
    BY <1>4, ConcatProperties, Zenon
  <2>2. Len(creates) + Len(seeds) = 17
    BY <1>5
  <2>3. Script \in Seq(Statement) /\ Len(Script) = 17
    BY <1>3, <2>1, <2>2, Zenon
  <2>4. \A i \in 1 .. 17 : Script[i] = IF i <= 10 THEN creates[i] ELSE seeds[i - 10]
    BY <1>3, <1>5, <2>1, <2>2, Zenon
  <2>5. QED
    BY <2>3, <2>4
<1>7. \A i \in 1 .. 10 : Script[i] = creates[i]
  BY <1>6
<1>8. \A j \in 1 .. 7 : Script[10 + j] = seeds[j]
  <2>1. \A j \in 1 .. 7 : 10 + j \in 1 .. 17 /\ ~(10 + j <= 10) /\ (10 + j) - 10 = j
    OBVIOUS
  <2>2. QED
    BY <1>6, <2>1
<1>9. DOMAIN Script = 1 .. 17
  BY <1>6
<1>10. QED
  BY <1>2, <1>6, <1>7, <1>8, <1>9

-----------------------------------------------------------------------------
(***************************************************************************)
(* The invariant.  Whoever has inserted the users is alone in the rest of  *)
(* the script; the tables seeded so far are the ones it has passed.        *)
(***************************************************************************)

Seeder(w) == pc[w] = "creating" /\ line[w] > 11

\* Today's drawer may be another request's, before the script is so far.
SeedInv ==
    /\ \A v, w \in Worker : Seeder(v) /\ Seeder(w) => v = w
    /\ \A w \in Worker : Seeder(w) =>
          \A j \in 1 .. 6 : copies[SeededTables[j]] = IF 10 + j < line[w] THEN 1 ELSE 0
    /\ \A w \in Worker : Seeder(w) /\ 17 < line[w] => copies["cash_reconciliation"] = 1
    /\ copies["users"] = 0 =>
          \A t \in Table \ {"cash_reconciliation"} : copies[t] = 0

CreateInv ==
    /\ \A w \in Worker : pc[w] = "creating" =>
          \A i \in 1 .. 10 : i < line[w] => Tables[i] \in created
    /\ \A w \in Worker : pc[w] = "pragmaNew" => line[w] = 1

\* Before there is a file nobody is past opening it.
FileInv ==
    ~file => copies["users"] = 0 /\ \A w \in Worker : pc[w] \in {"idle", "openNew"}

\* With a file, and nobody given up, somebody is still at it, or it is done.
WorkInv ==
    file /\ ~gaveUp =>
        \/ copies["users"] = 0 /\ \E w \in Worker : pc[w] \in Owing
        \/ \E w \in Worker : Seeder(w)
        \/ Complete

Inv == TypeOK /\ SeededOnce /\ SeedInv /\ CreateInv /\ FileInv /\ WorkInv

LEMMA InitInv == Init => Inv
<1> SUFFICES ASSUME Init PROVE Inv
  OBVIOUS
<1>1. TypeOK
  <2>1. 1 \in 1 .. Len(Script) + 1
    BY ScriptShape
  <2>2. QED
    BY <2>1 DEF Init, TypeOK, Places
<1>2. "users" \in Table
  BY SeedsShape
<1>3. QED
  BY <1>1, <1>2
     DEF Init, Inv, SeededOnce, SeedInv, CreateInv, FileInv, WorkInv, Seeder

\* A statement of the script, by its place.
LEMMA Place ==
    ASSUME NEW n \in DOMAIN Script
    PROVE  \/ n \in 1 .. 10 /\ Script[n] = [does |-> "create", table |-> Tables[n]]
           \/ \E j \in 1 .. 7 :
                 n = 10 + j /\ Script[n] = [does |-> "seed", table |-> SeededTables[j]]
<1>1. n \in 1 .. 17
  BY ScriptShape
<1>2. CASE n \in 1 .. 10
  BY <1>2, ScriptShape
<1>3. CASE n \notin 1 .. 10
  <2>1. n - 10 \in 1 .. 7 /\ n = 10 + (n - 10)
    BY <1>1, <1>3
  <2>2. Script[10 + (n - 10)] = [does |-> "seed", table |-> SeededTables[n - 10]]
    BY <2>1, ScriptShape
  <2>3. QED
    BY <2>1, <2>2
<1>4. QED
  BY <1>2, <1>3

\* A worker that owes nothing moves to a place where it owes nothing.
LEMMA ElsewhereStep ==
    ASSUME Inv, NEW w \in Worker, pc[w] \notin Owing,
           NEW place \in {"idle", "openOld", "openNew", "connected"},
           ~file => place \in {"idle", "openNew"}, Goto(w, place),
           UNCHANGED <<file, created, copies, line, gaveUp>>
    PROVE  Inv'
<1>1. /\ pc' \in [Worker -> Places]
      /\ pc'[w] = place /\ \A v \in Worker \ {w} : pc'[v] = pc[v]
  BY DEF Inv, TypeOK, Goto, Places
<1>2. TypeOK' /\ SeededOnce'
  BY <1>1 DEF Inv, TypeOK, SeededOnce
<1>3. \A v \in Worker : /\ pc'[v] = "creating" <=> pc[v] = "creating"
                        /\ pc'[v] = "pragmaNew" <=> pc[v] = "pragmaNew"
  BY <1>1 DEF Owing
<1>4. \A v \in Worker : Seeder(v)' <=> Seeder(v)
  BY <1>3 DEF Seeder
<1>5. SeedInv'
  BY <1>4 DEF Inv, SeedInv
<1>6. CreateInv'
  BY <1>3 DEF Inv, CreateInv
<1>7. FileInv'
  BY <1>1 DEF Inv, FileInv
<1>8. WorkInv'
  BY <1>3, <1>4 DEF Inv, WorkInv, Complete, Owing
<1>9. QED
  BY <1>2, <1>5, <1>6, <1>7, <1>8 DEF Inv

LEMMA LookStep ==
    ASSUME Inv, NEW w \in Worker, Look(w)
    PROVE  Inv'
<1>1. pc[w] \notin Owing
  BY DEF Look, Owing
<1>2. CASE file
  BY <1>1, <1>2, ElsewhereStep DEF Look
<1>3. CASE ~file
  BY <1>1, <1>3, ElsewhereStep DEF Look
<1>4. QED
  BY <1>2, <1>3

LEMMA CloseStep ==
    ASSUME Inv, NEW w \in Worker, Close(w)
    PROVE  Inv'
<1>1. pc[w] \notin Owing
  BY DEF Close, Owing
<1>2. QED
  BY <1>1, ElsewhereStep DEF Close

\* A worker that dies or is refused while it owes the database its contents
\* leaves everything to nobody.
LEMMA LeaveStep ==
    ASSUME Inv, NEW w \in Worker, Goto(w, "idle"),
           gaveUp' = (gaveUp \/ pc[w] \in Owing),
           UNCHANGED <<file, created, copies, line>>
    PROVE  Inv'
<1>1. gaveUp \in BOOLEAN
  BY DEF Inv, TypeOK
<1>2. CASE pc[w] \notin Owing
  <2>1. gaveUp' = gaveUp
    BY <1>1, <1>2
  <2>2. QED
    BY <1>2, <2>1, ElsewhereStep
<1>3. CASE pc[w] \in Owing
  <2>1. /\ pc'[w] = "idle" /\ \A v \in Worker \ {w} : pc'[v] = pc[v]
        /\ pc' \in [Worker -> Places] /\ gaveUp' = TRUE
    BY <1>1, <1>3 DEF Inv, TypeOK, Goto, Places
  <2>2. TypeOK' /\ SeededOnce'
    BY <2>1 DEF Inv, TypeOK, SeededOnce
  <2>3. \A v \in Worker : /\ pc'[v] = "creating" => pc[v] = "creating"
                          /\ pc'[v] = "pragmaNew" => pc[v] = "pragmaNew"
                          /\ Seeder(v)' => Seeder(v)
    BY <2>1 DEF Seeder
  <2>4. SeedInv' /\ CreateInv' /\ FileInv' /\ WorkInv'
    BY <2>1, <2>3 DEF Inv, SeedInv, CreateInv, FileInv, WorkInv
  <2>5. QED
    BY <2>2, <2>4 DEF Inv
<1>4. QED
  BY <1>2, <1>3

\* The first to open the file finds nothing in it, and starts at the top.
LEMMA OpenStep ==
    ASSUME Inv, NEW w \in Worker, Open(w)
    PROVE  Inv'
<1>1. /\ file' = TRUE /\ UNCHANGED <<created, copies, gaveUp>>
      /\ line'[w] = 1 /\ \A v \in Worker \ {w} : line'[v] = line[v] /\ pc'[v] = pc[v]
      /\ line' \in [Worker -> 1 .. Len(Script) + 1]
      /\ pc[w] = "openNew" \/ pc[w] = "openOld"
      /\ pc'[w] = IF pc[w] = "openNew" THEN "pragmaNew" ELSE "pragmaOld"
      /\ pc' \in [Worker -> Places]
  BY ScriptShape DEF Inv, TypeOK, Open, Goto, Places
<1>2. TypeOK' /\ SeededOnce'
  BY <1>1 DEF Inv, TypeOK, SeededOnce
<1>3. \A v \in Worker : Seeder(v)' <=> Seeder(v)
  BY <1>1 DEF Seeder
<1>4. SeedInv'
  BY <1>1, <1>3 DEF Inv, SeedInv, Seeder
<1>5. CreateInv'
  BY <1>1 DEF Inv, CreateInv
<1>6. FileInv'
  BY <1>1 DEF FileInv
<1>7. WorkInv'
  <2>1. CASE file
    BY <1>1, <1>3, <2>1 DEF Inv, WorkInv, Complete, Owing
  <2>2. CASE ~file
    BY <1>1, <2>2 DEF Inv, FileInv, WorkInv, Owing
  <2>3. QED
    BY <2>1, <2>2 DEF Inv, TypeOK
<1>8. QED
  BY <1>2, <1>4, <1>5, <1>6, <1>7 DEF Inv

\* The pragmas behind it, the creator is at the first statement.
LEMMA JournalStep ==
    ASSUME Inv, NEW w \in Worker, SetJournal(w)
    PROVE  Inv'
<1>1. CASE pc[w] = "pragmaOld"
  <2>1. pc[w] \notin Owing /\ file
    BY <1>1 DEF Owing, Inv, FileInv
  <2>2. QED
    BY <1>1, <2>1, ElsewhereStep DEF SetJournal
<1>2. CASE pc[w] = "pragmaNew"
  <2>1. /\ UNCHANGED <<file, created, copies, line, gaveUp>>
        /\ pc'[w] = "creating" /\ \A v \in Worker \ {w} : pc'[v] = pc[v]
        /\ pc' \in [Worker -> Places] /\ line[w] = 1 /\ file
    BY <1>2 DEF Inv, TypeOK, CreateInv, FileInv, SetJournal, Goto, Places
  <2>2. TypeOK' /\ SeededOnce'
    BY <2>1 DEF Inv, TypeOK, SeededOnce
  <2>3. \A v \in Worker : Seeder(v)' <=> Seeder(v)
    BY <1>2, <2>1 DEF Seeder
  <2>4. SeedInv' /\ FileInv'
    BY <2>1, <2>3 DEF Inv, SeedInv, FileInv
  <2>5. CreateInv'
    BY <2>1 DEF Inv, CreateInv
  <2>6. WorkInv'
    BY <1>2, <2>1, <2>3 DEF Inv, WorkInv, Complete, Owing
  <2>7. QED
    BY <2>2, <2>4, <2>5, <2>6 DEF Inv
<1>3. QED
  BY <1>1, <1>2 DEF SetJournal

\* A drawer opened by another request is the row the script would insert.
LEMMA DrawerStep ==
    ASSUME Inv, NEW w \in Worker, OpenDrawer(w)
    PROVE  Inv'
<1> DEFINE d == "cash_reconciliation"
<1>1. /\ copies[d] = 0 /\ copies'[d] = 1 /\ \A t \in Table \ {d} : copies'[t] = copies[t]
      /\ copies' \in [Table -> Nat] /\ UNCHANGED <<file, created, pc, line, gaveUp>>
  BY SeedsShape DEF Inv, TypeOK, OpenDrawer
<1>2. "users" \in Table \ {d} /\ \A j \in 1 .. 6 : SeededTables[j] \in Table \ {d}
  BY SeedsShape
<1>3. TypeOK' /\ SeededOnce'
  BY <1>1 DEF Inv, TypeOK, SeededOnce
<1>4. \A v \in Worker : Seeder(v)' <=> Seeder(v)
  BY <1>1 DEF Seeder
<1>5. SeedInv'
  BY <1>1, <1>2, <1>4 DEF Inv, SeedInv
<1>6. CreateInv' /\ FileInv'
  BY <1>1, <1>2 DEF Inv, CreateInv, FileInv
<1>7. ~Complete
  BY <1>1, SeedsShape DEF Complete
<1>8. WorkInv'
  BY <1>1, <1>2, <1>4, <1>7 DEF Inv, WorkInv
<1>9. QED
  BY <1>3, <1>5, <1>6, <1>8 DEF Inv

\* CREATE TABLE IF NOT EXISTS: no matter who else creates the same table.
LEMMA CreateStep ==
    ASSUME Inv, NEW w \in Worker, pc[w] = "creating",
           NEW n \in 1 .. 10, line[w] = n, Create(w, Tables[n]), UNCHANGED <<file, gaveUp>>
    PROVE  Inv'
<1>1. /\ created' = created \cup {Tables[n]} /\ UNCHANGED <<file, copies, pc, gaveUp>>
      /\ line'[w] = n + 1 /\ \A v \in Worker \ {w} : line'[v] = line[v]
      /\ line' \in [Worker -> 1 .. Len(Script) + 1]
  BY ScriptShape DEF Inv, TypeOK, Create
<1>2. TypeOK' /\ SeededOnce'
  BY <1>1, TablesShape DEF Inv, TypeOK, SeededOnce
<1>3. \A v \in Worker : Seeder(v)' <=> Seeder(v)
  BY <1>1 DEF Seeder
<1>4. \A v \in Worker : Seeder(v) => line'[v] = line[v]
  BY <1>1 DEF Seeder
<1>5. SeedInv'
  BY <1>1, <1>3, <1>4 DEF Inv, SeedInv
<1>6. CreateInv'
  <2>1. \A i \in 1 .. 10 : i < n + 1 => i < n \/ i = n
    OBVIOUS
  <2>2. ASSUME NEW v \in Worker, pc[v] = "creating", NEW i \in 1 .. 10, i < line'[v]
        PROVE  Tables[i] \in created'
    <3>1. CASE v = w
      BY <1>1, <2>1, <2>2, <3>1 DEF Inv, CreateInv
    <3>2. CASE v # w
      BY <1>1, <2>2, <3>2 DEF Inv, CreateInv
    <3>3. QED
      BY <3>1, <3>2
  <2>3. \A v \in Worker : pc[v] = "pragmaNew" => line'[v] = 1
    BY <1>1 DEF Inv, CreateInv
  <2>4. QED
    BY <1>1, <2>2, <2>3 DEF CreateInv
<1>7. FileInv'
  BY <1>1 DEF Inv, FileInv
<1>8. WorkInv'
  <2>1. Complete => Complete'
    BY <1>1, <1>2 DEF Complete, TypeOK
  <2>2. QED
    BY <1>1, <1>3, <2>1 DEF Inv, WorkInv
<1>9. QED
  BY <1>2, <1>5, <1>6, <1>7, <1>8 DEF Inv

\* Whoever is refused a row leaves the rest to who has inserted the users, or
\* was at the last row.
LEMMA SeedRefused ==
    ASSUME Inv, NEW w \in Worker, pc[w] = "creating",
           NEW j \in 1 .. 7, line[w] = 10 + j,
           SeededTables[j] \in UniqueTables, copies[SeededTables[j]] > 0,
           Goto(w, "idle"), UNCHANGED <<file, created, copies, line, gaveUp>>
    PROVE  Inv'
<1>1. /\ pc'[w] = "idle" /\ \A v \in Worker \ {w} : pc'[v] = pc[v]
      /\ pc' \in [Worker -> Places]
  BY DEF Inv, TypeOK, Goto, Places
<1>2. TypeOK' /\ SeededOnce'
  BY <1>1 DEF Inv, TypeOK, SeededOnce
<1>3. \A v \in Worker : /\ pc'[v] = "creating" => pc[v] = "creating"
                        /\ pc'[v] = "pragmaNew" => pc[v] = "pragmaNew"
                        /\ Seeder(v)' => Seeder(v)
  BY <1>1 DEF Seeder
<1>4. SeedInv' /\ CreateInv' /\ FileInv'
  BY <1>1, <1>3 DEF Inv, SeedInv, CreateInv, FileInv
<1>5. WorkInv'
  <2>1. j = 1 \/ j = 7
    BY SeedsShape
  <2>2. CASE j = 1
    <3>1. copies["users"] # 0 /\ ~Seeder(w)
      BY <2>2, SeedsShape DEF Seeder, Inv, TypeOK
    <3>2. \A v \in Worker : Seeder(v) => Seeder(v)'
      BY <1>1, <3>1 DEF Seeder
    <3>3. QED
      BY <3>1, <3>2 DEF Inv, WorkInv, Complete
  <2>3. CASE j = 7
    <3>1. Seeder(w) /\ line[w] = 17
      BY <2>3 DEF Seeder
    <3>2. \A i \in 1 .. 6 : copies[SeededTables[i]] = 1
      BY <3>1 DEF Inv, SeedInv
    <3>3. copies[SeededTables[7]] = 1
      BY <2>3, SeedsShape DEF Inv, SeededOnce, TypeOK
    <3>4. created = Table
      BY <3>1, TablesShape DEF Inv, CreateInv, TypeOK
    <3>5. Complete
      BY <3>2, <3>3, <3>4, SeedsShape DEF Complete
    <3>6. QED
      BY <3>5 DEF WorkInv, Complete
  <2>4. QED
    BY <2>1, <2>2, <2>3
<1>6. QED
  BY <1>2, <1>4, <1>5 DEF Inv

\* Who inserts the users was the first to, and who goes on after them is alone.
LEMMA SeedInserted ==
    ASSUME Inv, NEW w \in Worker, pc[w] = "creating",
           NEW j \in 1 .. 7, line[w] = 10 + j, copies[SeededTables[j]] = 0,
           copies' = [copies EXCEPT ![SeededTables[j]] = @ + 1],
           line' = [line EXCEPT ![w] = @ + 1], UNCHANGED <<file, created, pc, gaveUp>>
    PROVE  Inv'
<1> DEFINE t == SeededTables[j]
<1>1. t \in Table /\ (j = 1 => t = "users") /\ "users" \in Table /\ (j = 1 \/ Seeder(w))
  BY SeedsShape DEF Seeder
<1>2. /\ copies'[t] = 1 /\ \A u \in Table \ {t} : copies'[u] = copies[u]
      /\ copies' \in [Table -> Nat]
      /\ line'[w] = 10 + j + 1 /\ \A v \in Worker \ {w} : line'[v] = line[v]
      /\ line' \in [Worker -> 1 .. Len(Script) + 1]
  BY <1>1, ScriptShape DEF Inv, TypeOK
<1>3. TypeOK' /\ SeededOnce'
  BY <1>2 DEF Inv, TypeOK, SeededOnce
<1>4. \A v \in Worker \ {w} : ~Seeder(v)
  <2>1. CASE j = 1
    BY <1>1, <2>1, SeedsShape DEF Inv, SeedInv, Seeder
  <2>2. CASE j # 1
    BY <1>1, <2>2 DEF Inv, SeedInv
  <2>3. QED
    BY <2>1, <2>2
<1>5. Seeder(w)' /\ \A v \in Worker \ {w} : ~Seeder(v)'
  BY <1>2, <1>4 DEF Seeder
<1>6. \A i \in 1 .. 6 : copies'[SeededTables[i]] = IF 10 + i < 10 + j + 1 THEN 1 ELSE 0
  <2> SUFFICES ASSUME NEW i \in 1 .. 6
               PROVE  copies'[SeededTables[i]] = IF 10 + i < 10 + j + 1 THEN 1 ELSE 0
    OBVIOUS
  <2>1. CASE i = j
    BY <1>2, <2>1
  <2>2. CASE i # j
    <3>1. copies'[SeededTables[i]] = copies[SeededTables[i]]
      <4>1. i \in 1 .. 7 /\ SeededTables[i] \in Table /\ SeededTables[i] # t
        BY <2>2, SeedsShape
      <4>2. QED
        BY <1>2, <4>1
    <3>2. copies[SeededTables[i]] = IF 10 + i < 10 + j THEN 1 ELSE 0
      <4>1. CASE j = 1
        BY <1>1, <4>1, SeedsShape DEF Inv, SeedInv
      <4>2. CASE j # 1
        BY <1>1, <4>2 DEF Inv, SeedInv
      <4>3. QED
        BY <4>1, <4>2
    <3>3. QED
      BY <2>2, <3>1, <3>2
  <2>3. QED
    BY <2>1, <2>2
<1>7. copies'["users"] = 1
  BY <1>6, SeedsShape
<1>8. 17 < 10 + j + 1 => copies'["cash_reconciliation"] = 1
  BY <1>2, SeedsShape
<1>9. SeedInv'
  <2>1. \A u, v \in Worker : Seeder(u)' /\ Seeder(v)' => u = v
    BY <1>5
  <2>2. ASSUME NEW v \in Worker, Seeder(v)'
        PROVE  /\ \A i \in 1 .. 6 :
                     copies'[SeededTables[i]] = IF 10 + i < line'[v] THEN 1 ELSE 0
               /\ 17 < line'[v] => copies'["cash_reconciliation"] = 1
    BY <1>2, <1>5, <1>6, <1>8, <2>2
  <2>3. QED
    BY <1>7, <2>1, <2>2 DEF SeedInv
<1>10. CreateInv'
  <2>1. \A i \in 1 .. 10 : i < 10 + j
    OBVIOUS
  <2>2. QED
    BY <1>2, <2>1 DEF Inv, CreateInv
<1>11. FileInv' /\ WorkInv'
  BY <1>5 DEF Inv, FileInv, WorkInv
<1>12. QED
  BY <1>3, <1>9, <1>10, <1>11 DEF Inv

LEMMA SeedStep ==
    ASSUME Inv, NEW w \in Worker, pc[w] = "creating",
           NEW j \in 1 .. 7, line[w] = 10 + j, Seed(w, SeededTables[j]),
           UNCHANGED <<file, gaveUp>>
    PROVE  Inv'
<1> DEFINE t == SeededTables[j]
<1>1. CASE t \in UniqueTables /\ copies[t] > 0
  <2>1. Goto(w, "idle") /\ UNCHANGED <<created, copies, line>>
    BY <1>1 DEF Seed
  <2>2. QED
    BY <1>1, <2>1, SeedRefused
<1>2. CASE t \notin UniqueTables \/ copies[t] = 0
  <2>1. copies[t] \in Nat
    BY SeedsShape DEF Inv, TypeOK
  <2>2. copies[t] = 0
    <3>1. CASE t \in UniqueTables
      BY <1>2, <3>1
    <3>2. CASE t \notin UniqueTables
      <4>1. j \in 2 .. 6
        BY <3>2, SeedsShape DEF UniqueTables
      <4>2. Seeder(w)
        BY <4>1 DEF Seeder
      <4>3. QED
        BY <4>1, <4>2 DEF Inv, SeedInv
    <3>3. QED
      BY <3>1, <3>2
  <2>3. /\ copies' = [copies EXCEPT ![t] = @ + 1]
        /\ line' = [line EXCEPT ![w] = @ + 1] /\ UNCHANGED <<created, pc>>
    BY <2>2 DEF Seed
  <2>4. QED
    BY <2>2, <2>3, SeedInserted
<1>3. QED
  <2>1. copies[t] \in Nat
    BY SeedsShape DEF Inv, TypeOK
  <2>2. QED
    BY <1>1, <1>2, <2>1

LEMMA RunStep ==
    ASSUME Inv, NEW w \in Worker, RunStatement(w)
    PROVE  Inv'
<1>1. pc[w] = "creating" /\ UNCHANGED <<file, gaveUp>> /\ line[w] \in DOMAIN Script
  BY DEF RunStatement
<1>2. CASE line[w] \in 1 .. 10 /\ Script[line[w]] = [does |-> "create", table |-> Tables[line[w]]]
  <2>1. Create(w, Tables[line[w]])
    BY <1>2 DEF RunStatement
  <2>2. QED
    BY <1>1, <1>2, <2>1, CreateStep
<1>3. CASE \E j \in 1 .. 7 : /\ line[w] = 10 + j
                             /\ Script[line[w]] = [does |-> "seed", table |-> SeededTables[j]]
  <2>1. PICK j \in 1 .. 7 : /\ line[w] = 10 + j
                            /\ Script[line[w]] = [does |-> "seed", table |-> SeededTables[j]]
    BY <1>3
  <2>2. Seed(w, SeededTables[j])
    BY <2>1 DEF RunStatement
  <2>3. QED
    BY <1>1, <2>1, <2>2, SeedStep
<1>4. QED
  BY <1>1, <1>2, <1>3, Place

\* Whoever is through the script leaves a complete database.
LEMMA FinishStep ==
    ASSUME Inv, NEW w \in Worker, Finish(w)
    PROVE  Inv'
<1>1. /\ UNCHANGED <<file, created, copies, line, gaveUp>>
      /\ pc[w] = "creating" /\ pc'[w] = "connected"
      /\ \A v \in Worker \ {w} : pc'[v] = pc[v]
      /\ pc' \in [Worker -> Places]
  BY DEF Inv, TypeOK, Finish, Goto, Places
<1>2. line[w] = 18
  <2>1. line[w] \in 1 .. 17 + 1 /\ line[w] \notin 1 .. 17
    BY ScriptShape DEF Inv, TypeOK, Finish
  <2>2. QED
    BY <2>1
<1>3. Seeder(w)
  BY <1>1, <1>2 DEF Seeder
<1>4. Complete
  <2>1. created = Table
    BY <1>1, <1>2, TablesShape DEF Inv, CreateInv, TypeOK
  <2>2. \A j \in 1 .. 7 : copies[SeededTables[j]] = 1
    BY <1>2, <1>3, SeedsShape DEF Inv, SeedInv
  <2>3. QED
    BY <2>1, <2>2, SeedsShape DEF Complete
<1>5. TypeOK' /\ SeededOnce'
  BY <1>1 DEF Inv, TypeOK, SeededOnce
<1>6. \A v \in Worker : /\ pc'[v] = "creating" => pc[v] = "creating"
                        /\ pc'[v] = "pragmaNew" => pc[v] = "pragmaNew"
                        /\ Seeder(v)' => Seeder(v)
  BY <1>1 DEF Seeder
<1>7. SeedInv' /\ CreateInv'
  BY <1>1, <1>6 DEF Inv, SeedInv, CreateInv
<1>8. file
  BY <1>1 DEF Inv, FileInv
<1>9. FileInv' /\ WorkInv'
  BY <1>1, <1>4, <1>8 DEF FileInv, WorkInv, Complete
<1>10. QED
  BY <1>5, <1>7, <1>9 DEF Inv

LEMMA AlwaysInv == Spec => []Inv
<1>1. Inv /\ [Next]_vars => Inv'
  <2> SUFFICES ASSUME Inv, [Next]_vars PROVE Inv'
    OBVIOUS
  <2>1. CASE UNCHANGED vars
    BY <2>1 DEF vars, Inv, TypeOK, SeededOnce, SeedInv, CreateInv, FileInv, WorkInv,
                Seeder, Complete
  <2>2. ASSUME NEW w \in Worker, Refused(w) \/ Crash(w) PROVE Inv'
    BY <2>2, LeaveStep DEF Refused, Crash
  <2>3. ASSUME NEW w \in Worker, Serve(w) PROVE Inv'
    BY <2>3, LookStep, OpenStep, JournalStep, RunStep, FinishStep, DrawerStep, CloseStep
       DEF Serve
  <2>4. QED
    BY <2>1, <2>2, <2>3 DEF Next
<1>2. QED
  BY <1>1, InitInv, PTL DEF Spec

-----------------------------------------------------------------------------
(***************************************************************************)
(* Theorems                                                                *)
(***************************************************************************)

\* The file's contents and the requests keep their types.
THEOREM TypeCorrect == Spec => []TypeOK
<1>1. Inv => TypeOK
  BY DEF Inv
<1>2. QED
  BY <1>1, AlwaysInv, PTL

\* However many first requests run createTables at once, no seed is inserted
\* twice, not even into the tables that would take it.
THEOREM SeedsOnce == Spec => []SeededOnce
<1>1. Inv => SeededOnce
  BY DEF Inv
<1>2. QED
  BY <1>1, AlwaysInv, PTL

\* What is not complete and not being created was given up by a worker that died
\* or was refused by a lock with the file made: the requests that the first one's
\* rows, or today's drawer, refuse leave nothing undone.
THEOREM PartialIsGivenUp == Spec => []PartialMeansGivenUp
<1>1. Inv => PartialMeansGivenUp
  BY DEF Inv, WorkInv, Seeder, PartialMeansGivenUp, Owing
<1>2. QED
  BY <1>1, AlwaysInv, PTL
=============================================================================
