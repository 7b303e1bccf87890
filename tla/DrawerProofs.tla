---------------------------- MODULE DrawerProofs ----------------------------
(***************************************************************************)
(* Proofs about DrawerScreen, for every set of browsers and requests, and  *)
(* any number of days, renderings and closings.  Every step of the screens *)
(* is a step of AtomicLedger or leaves the books alone, so that what       *)
(* LedgerProofs says of the drawers of AtomicLedger holds here, too.       *)
(***************************************************************************)
EXTENDS DrawerScreen, FiniteSetTheorems, TLAPS

\* The proofs about the books.  Those of the requests that keep them, and of
\* the transactions these are made of, are not used: nobody is at work.
Books == INSTANCE LedgerProofs WITH
    Worker <- {}, NoWorker <- Nothing, MaxStock <- 0,
    pending <- db, writer <- Nothing, snapshot <- <<>>,
    pc <- <<>>, job <- <<>>, resp <- <<>>

-----------------------------------------------------------------------------
(***************************************************************************)
(* The same books, whichever instance speaks of them.                      *)
(***************************************************************************)

LEMMA SameSums ==
    ASSUME NEW cart
    PROVE  /\ Books!CartTotal(cart) = CartTotal(cart)
           /\ \A p : Books!UnitsOf(cart, p) = UnitsOf(cart, p)
           /\ Books!Atomic!CartTotal(cart) = Server!CartTotal(cart)
           /\ \A p : Books!Atomic!UnitsOf(cart, p) = Server!UnitsOf(cart, p)
<1>1. Books!CartTotal(cart) = CartTotal(cart)
  BY Zenon DEF CartTotal, Books!CartTotal, SumFunction, Books!SumFunction,
               SumFunctionOnSet, Books!SumFunctionOnSet, FoldFunctionOnSet,
               Books!FoldFunctionOnSet, MapThenFoldSet, Books!MapThenFoldSet
<1>2. \A p : Books!UnitsOf(cart, p) = UnitsOf(cart, p)
  BY Zenon DEF UnitsOf, Books!UnitsOf, SumFunctionOnSet, Books!SumFunctionOnSet,
               FoldFunctionOnSet, Books!FoldFunctionOnSet, MapThenFoldSet,
               Books!MapThenFoldSet
<1>3. Books!Atomic!CartTotal(cart) = Server!CartTotal(cart)
  BY Zenon DEF Server!CartTotal, Books!Atomic!CartTotal, Server!SumFunction,
               Books!Atomic!SumFunction, Server!SumFunctionOnSet,
               Books!Atomic!SumFunctionOnSet, Server!FoldFunctionOnSet,
               Books!Atomic!FoldFunctionOnSet, Server!MapThenFoldSet,
               Books!Atomic!MapThenFoldSet
<1>4. \A p : Books!Atomic!UnitsOf(cart, p) = Server!UnitsOf(cart, p)
  BY Zenon DEF Server!UnitsOf, Books!Atomic!UnitsOf, Server!SumFunctionOnSet,
               Books!Atomic!SumFunctionOnSet, Server!FoldFunctionOnSet,
               Books!Atomic!FoldFunctionOnSet, Server!MapThenFoldSet,
               Books!Atomic!MapThenFoldSet
<1>5. QED
  BY <1>1, <1>2, <1>3, <1>4

\* The tables, and the assumptions about the requests.
LEMMA SameTables ==
    /\ Books!Day = Day
    /\ Books!DrawerRow = DrawerRow
    /\ Books!Databases = Databases
BY DEF Books!Day, Day, Books!DrawerRow, DrawerRow, Books!Databases, Databases,
       Books!Invoice, Invoice, Books!ItemRow, ItemRow, Books!Spending, Spending,
       Books!CartLine, CartLine, Books!Method, Method

LEMMA BooksAssumptions ==
    /\ Books!RequestAssumption
    /\ Books!AmountAssumption
    /\ Books!DayAssumption
    /\ Books!LedgerBoundAssumption
    /\ Books!NoWorkerAssumption
<1>1. Books!RequestAssumption
  BY RequestAssumption
     DEF Books!RequestAssumption, Books!Sale, Sale, Books!Spending, Spending, Books!Delivery,
         Delivery, Books!CartLine, CartLine, Books!Method, Method, Books!Day, Day
<1>2. QED
  BY <1>1, AmountAssumption, DayAssumption, ScreenBoundAssumption
     DEF Books!AmountAssumption, Books!DayAssumption, Books!LedgerBoundAssumption,
         Books!NoWorkerAssumption

\* The steps of AtomicLedger, as LedgerProofs and as DrawerScreen see them.
LEMMA SameRows ==
    /\ \A c, g, e : Books!Atomic!NewRow(c, g, e) = Server!NewRow(c, g, e)
    /\ \A row, sale : Books!Atomic!RowWithSale(row, sale) = Server!RowWithSale(row, sale)
    /\ \A row, n : Books!Atomic!RowWithExpense(row, n) = Server!RowWithExpense(row, n)
<1>1. \A c, g, e : Books!Atomic!NewRow(c, g, e) = Server!NewRow(c, g, e)
  BY DEF Books!Atomic!NewRow, Server!NewRow
<1>2. \A row, sale : Books!Atomic!RowWithSale(row, sale) = Server!RowWithSale(row, sale)
  BY <1>1, SameSums DEF Books!Atomic!RowWithSale, Server!RowWithSale
<1>3. \A row, n : Books!Atomic!RowWithExpense(row, n) = Server!RowWithExpense(row, n)
  BY <1>1 DEF Books!Atomic!RowWithExpense, Server!RowWithExpense
<1>4. QED
  BY <1>1, <1>2, <1>3

LEMMA SameSell == Server!Sell <=> Books!Atomic!Sell
<1>1. \A d, sale, day : Server!WithInvoice(d, sale, day) = Books!Atomic!WithInvoice(d, sale, day)
  BY SameSums DEF Server!WithInvoice, Books!Atomic!WithInvoice
<1>2. \A line : Server!Commission(line) = Books!Atomic!Commission(line)
  BY DEF Server!Commission, Books!Atomic!Commission
<1>3. \A d, sale : Server!WithItems(d, sale) = Books!Atomic!WithItems(d, sale)
  BY <1>2, SameSums DEF Server!WithItems, Books!Atomic!WithItems
<1>4. \A d, sale : Server!WithSpent(d, sale) = Books!Atomic!WithSpent(d, sale)
  BY SameSums DEF Server!WithSpent, Books!Atomic!WithSpent
<1>5. \A d, sale, day : Server!WithSale(d, sale, day) = Books!Atomic!WithSale(d, sale, day)
  BY SameRows DEF Server!WithSale, Books!Atomic!WithSale
<1>6. QED
  BY <1>1, <1>3, <1>4, <1>5 DEF Server!Sell, Books!Atomic!Sell

LEMMA SameSpend == Server!Spend <=> Books!Atomic!Spend
<1>1. \A d, spending : Server!WithExpense(d, spending) = Books!Atomic!WithExpense(d, spending)
  BY DEF Server!WithExpense, Books!Atomic!WithExpense
<1>2. \A d, spending : Server!WithSpending(d, spending) = Books!Atomic!WithSpending(d, spending)
  BY SameRows DEF Server!WithSpending, Books!Atomic!WithSpending
<1>3. QED
  BY <1>1, <1>2 DEF Server!Spend, Books!Atomic!Spend

LEMMA SameNext == Server!Next <=> Books!Atomic!Next
<1>1. \A d, day : Server!WithNewDay(d, day) = Books!Atomic!WithNewDay(d, day)
  BY SameRows DEF Server!WithNewDay, Books!Atomic!WithNewDay
<1>2. \A d, day, n : Server!WithClosed(d, day, n) = Books!Atomic!WithClosed(d, day, n)
  BY DEF Server!WithClosed, Books!Atomic!WithClosed
<1>3. \A d, delivery : Server!WithStock(d, delivery) = Books!Atomic!WithStock(d, delivery)
  BY DEF Server!WithStock, Books!Atomic!WithStock
<1>4. QED
  BY <1>1, <1>2, <1>3, SameSell, SameSpend
     DEF Server!Next, Books!Atomic!Next, Server!OpenDay, Books!Atomic!OpenDay, Server!CloseDay,
         Books!Atomic!CloseDay, Server!Day, Books!Atomic!Day, Server!Deliver,
         Books!Atomic!Deliver, Server!Midnight, Books!Atomic!Midnight

LEMMA SameSeeded == Server!Seeded = Seeded
BY DEF Server!Seeded, Seeded, Server!NewRow, NewRow, Server!NoRow, NoRow, Server!Day, Day

Good(d) == d \in Databases /\ \A day \in Day : Books!Balanced(d.drawer[day])

LEMMA SeededGood == Good(Seeded)
<1>1. /\ NoRow \in DrawerRow /\ NewRow(0, 0, 0) \in DrawerRow /\ 1 \in Day
      /\ Books!Balanced(NoRow) /\ Books!Balanced(NewRow(0, 0, 0))
  BY AmountAssumption, DayAssumption DEF NoRow, NewRow, DrawerRow, Day, Books!Balanced
<1>2. [[d \in Day |-> NoRow] EXCEPT ![1] = NewRow(0, 0, 0)] \in [Day -> DrawerRow]
  BY <1>1
<1>3. QED
  BY <1>1, <1>2 DEF Seeded, Good, Databases

GrownSince(d, e) == \A day \in Day : Books!Grown(d.drawer[day], e.drawer[day])

LEMMA ServerGrows ==
    ASSUME Good(db), today \in Day, Server!Next
    PROVE  Good(db') /\ today' \in Day /\ GrownSince(db, db')
<1>1. Books!Good(db) /\ today \in Books!Day /\ Books!Atomic!Next
  BY SameTables, SameNext DEF Good, Books!Good
<1>2. Books!GrownBooks(db, db') /\ today' \in Books!Day
  BY <1>1, BooksAssumptions, Books!AtomicGrows
     DEF Books!RequestAssumption, Books!AmountAssumption, Books!DayAssumption,
         Books!LedgerBoundAssumption, Books!NoWorkerAssumption
<1>3. QED
  BY <1>2, SameTables DEF Books!GrownBooks, Books!Good, Good, GrownSince

\* The rows of cash_reconciliation only grow, whoever works on them.
LEMMA GrownTransitive ==
    ASSUME NEW a \in DrawerRow, NEW b \in DrawerRow, NEW c \in DrawerRow,
           Books!Grown(a, b), Books!Grown(b, c)
    PROVE  Books!Grown(a, c)
BY DEF Books!Grown, DrawerRow

LEMMA GrownReflexive ==
    ASSUME NEW a \in DrawerRow
    PROVE  Books!Grown(a, a)
BY DEF Books!Grown, DrawerRow

-----------------------------------------------------------------------------
(***************************************************************************)
(* The invariant.  A view, wherever it is kept, is a row its day's drawer  *)
(* has had: what the books hold now has grown from it.                     *)
(***************************************************************************)

ViewTrue(v, d) ==
    /\ v \in View
    /\ v.row.status # "none"
    /\ Books!Balanced(v.row)
    /\ Books!Grown(v.row, d.drawer[v.day])

OpenView(v, d) == ViewTrue(v, d) /\ v.row.status = "open"

\* A closing is sent from an open drawer, unwarned only near its balance.
CloseTrue(c, d) ==
    /\ c \in Close
    /\ OpenView(c.view, d)
    /\ ~c.warned => Passes(c.counted, c.view)

ScreensTrue ==
    /\ \A b \in Browser : shown[b] # Nothing => ViewTrue(shown[b], db)
    /\ \A b \in Browser : dialog[b] # Nothing => OpenView(dialog[b].view, db)
    /\ \A r \in reads : r.view # Nothing => ViewTrue(r.view, db)
    /\ \A c \in sent : CloseTrue(c, db)

\* The row of a drawer that was closed here is the one this closing left.
ClosureTrue ==
    \A day \in Day : closure[day] # Nothing =>
        /\ CloseTrue(closure[day], db)
        /\ closure[day].day = day
        /\ db.drawer[day].status = "closed"
        /\ db.drawer[day].closing = closure[day].counted

\* Every rendering beyond the bound was asked for by a closing whose answer
\* has arrived.
Awaited == Cardinality(sent) + Cardinality(answers)

CountsRight ==
    /\ IsFiniteSet(sent) /\ IsFiniteSet(answers)
    /\ Awaited <= closings
    /\ rendered + Awaited <= MaxReads + closings

DrawerInv == TypeOK /\ Good(db) /\ ScreensTrue /\ ClosureTrue /\ CountsRight

\* A view stays one while the books grow.
LEMMA ViewStays ==
    ASSUME Good(db), Good(db'), GrownSince(db, db')
    PROVE  /\ \A v : ViewTrue(v, db) => ViewTrue(v, db')
           /\ \A c : CloseTrue(c, db) => CloseTrue(c, db')
<1>1. ASSUME NEW v, ViewTrue(v, db) PROVE ViewTrue(v, db')
  <2>1. /\ v \in View /\ v.day \in Day /\ v.row \in DrawerRow
        /\ db.drawer[v.day] \in DrawerRow /\ db'.drawer[v.day] \in DrawerRow
        /\ Books!Grown(v.row, db.drawer[v.day])
        /\ Books!Grown(db.drawer[v.day], db'.drawer[v.day])
    BY <1>1 DEF ViewTrue, View, Good, Databases, GrownSince
  <2>2. Books!Grown(v.row, db'.drawer[v.day])
    BY <2>1, GrownTransitive
  <2>3. QED
    BY <1>1, <2>2 DEF ViewTrue
<1>2. ASSUME NEW c, CloseTrue(c, db) PROVE CloseTrue(c, db')
  BY <1>1, <1>2 DEF CloseTrue, OpenView
<1>3. QED
  BY <1>1, <1>2

\* The row of today, as a rendering gets it.
LEMMA RowIsView ==
    ASSUME NEW d, Good(d), NEW day \in Day, d.drawer[day].status # "none"
    PROVE  ViewTrue([day |-> day, row |-> d.drawer[day]], d)
<1>1. d.drawer[day] \in DrawerRow /\ Books!Balanced(d.drawer[day])
  BY DEF Good, Databases
<1>2. QED
  BY <1>1, GrownReflexive DEF ViewTrue, View

\* What is kept of the closings that were carried out stays true.
LEMMA ClosureStays ==
    ASSUME DrawerInv, Good(db'), GrownSince(db, db'), UNCHANGED closure
    PROVE  ClosureTrue'
<1> SUFFICES ASSUME NEW day \in Day, closure[day] # Nothing
             PROVE  /\ CloseTrue(closure[day], db')
                    /\ closure[day].day = day
                    /\ db'.drawer[day] = db.drawer[day]
  BY DEF DrawerInv, ClosureTrue
<1>1. CloseTrue(closure[day], db) /\ closure[day].day = day /\ db.drawer[day].status = "closed"
  BY DEF DrawerInv, ClosureTrue
<1>2. db'.drawer[day] = db.drawer[day]
  BY <1>1 DEF GrownSince, Books!Grown
<1>3. QED
  BY <1>1, <1>2, ViewStays DEF DrawerInv

-----------------------------------------------------------------------------
(***************************************************************************)
(* The books: every step is one of AtomicLedger, or none.                  *)
(***************************************************************************)

LEMMA ServerSteps ==
    ASSUME TypeOK, Next
    PROVE  Server!Next \/ UNCHANGED serverVars
<1>1. today \in 1 .. today /\ \A c \in sent : c \in Close
  BY DEF TypeOK, Day
<1>2. /\ Server!WithNewDay(db, today) = WithNewDay(db, today)
      /\ \A day, n : Server!WithClosed(db, day, n) = WithClosed(db, day, n)
      /\ Server!Day = Day
  BY DEF Server!WithNewDay, WithNewDay, Server!NewRow, NewRow, Server!WithClosed, WithClosed,
         Server!Day, Day
<1>3. ASSUME NEW r \in reads, ServeRead(r) PROVE Server!Next \/ UNCHANGED serverVars
  BY <1>1, <1>2, <1>3 DEF ServeRead, Server!Next, Server!OpenDay, serverVars
<1>4. ASSUME NEW c \in sent, ServeClose(c)
      PROVE  Server!Next \/ UNCHANGED serverVars
  BY <1>1, <1>2, <1>4 DEF TypeOK, ServeClose, Close, Server!Next, Server!CloseDay, serverVars
<1>5. CASE Trade
  BY <1>5 DEF Trade, Server!Next
<1>6. QED
  BY <1>3, <1>4, <1>5
     DEF Next, Render, StartRender, FinishRender, AbortRender, Press, Count, Send, Confirm,
         Cancel, Deliver, LoseClose, LoseAnswer, serverVars

LEMMA BooksStep ==
    ASSUME DrawerInv, Next
    PROVE  Good(db') /\ today' \in Day /\ GrownSince(db, db')
<1>1. Good(db) /\ today \in Day
  BY DEF DrawerInv, TypeOK
<1>2. CASE Server!Next
  BY <1>1, <1>2, ServerGrows
<1>3. CASE UNCHANGED serverVars
  BY <1>1, <1>3, GrownReflexive DEF serverVars, GrownSince, Good, Databases
<1>4. QED
  BY <1>2, <1>3, ServerSteps DEF DrawerInv

-----------------------------------------------------------------------------
(***************************************************************************)
(* The screens and the network, over books that grow.                      *)
(***************************************************************************)

Growing == Good(db') /\ today' \in Day /\ GrownSince(db, db')

LEMMA Counted ==
    ASSUME DrawerInv
    PROVE  /\ Cardinality(sent) \in Nat /\ Cardinality(answers) \in Nat
           /\ rendered \in Nat /\ closings \in Nat
           /\ MaxReads \in Nat /\ MaxCloses \in Nat
BY FS_CardinalityType, ScreenBoundAssumption DEF DrawerInv, CountsRight, TypeOK

\* One element more, or one less.
LEMMA OneMore ==
    ASSUME NEW S, IsFiniteSet(S), NEW x
    PROVE  /\ IsFiniteSet(S \cup {x}) /\ Cardinality(S \cup {x}) \in Nat
           /\ Cardinality(S \cup {x}) <= Cardinality(S) + 1
<1>1. Cardinality(S) \in Nat
  BY FS_CardinalityType
<1>2. /\ IsFiniteSet(S \cup {x})
      /\ Cardinality(S \cup {x}) = Cardinality(S) \/ Cardinality(S \cup {x}) = Cardinality(S) + 1
  BY FS_AddElement
<1>3. QED
  BY <1>1, <1>2

LEMMA OneLess ==
    ASSUME NEW S, IsFiniteSet(S), NEW x \in S
    PROVE  /\ IsFiniteSet(S \ {x}) /\ Cardinality(S \ {x}) \in Nat
           /\ Cardinality(S \ {x}) = Cardinality(S) - 1
BY FS_RemoveElement, FS_CardinalityType

\* A rendering that is started is numbered within the bound.
LEMMA StartType ==
    ASSUME TypeOK, NEW b \in Browser, StartRender(b), rendered < MaxReads + MaxCloses
    PROVE  /\ shown' \in [Browser -> View \cup {Nothing}]
           /\ reads' \subseteq Read /\ rendered' \in Nat
<1>1. rendered + 1 \in 1 .. MaxReads + MaxCloses
  BY ScreenBoundAssumption DEF TypeOK
<1>2. [n |-> rendered + 1, browser |-> b, view |-> Nothing] \in Read
  BY <1>1 DEF Read
<1>3. QED
  BY <1>2 DEF TypeOK, StartRender

\* The screens' part: a spinner shows nothing and a new rendering has no view.
LEMMA StartScreens ==
    ASSUME DrawerInv, Growing, NEW b \in Browser, StartRender(b), UNCHANGED dialog,
           sent' \subseteq sent
    PROVE  ScreensTrue'
<1>1. /\ \A v : ViewTrue(v, db) => ViewTrue(v, db')
      /\ \A c : CloseTrue(c, db) => CloseTrue(c, db')
  BY ViewStays DEF DrawerInv, Growing
<1>2. \A v : OpenView(v, db) => OpenView(v, db')
  BY <1>1 DEF OpenView
<1>3. \A b2 \in Browser : shown'[b2] # Nothing => shown'[b2] = shown[b2]
  BY DEF DrawerInv, TypeOK, StartRender
<1>4. \A r \in reads' : r.view # Nothing => r \in reads
  BY DEF StartRender
<1>5. QED
  BY <1>1, <1>2, <1>3, <1>4 DEF DrawerInv, ScreensTrue

\* A screen, a dialog, a rendering and a closing that keep what they show.
LEMMA OthersStay ==
    ASSUME DrawerInv, Growing
    PROVE  /\ \A b \in Browser : shown[b] # Nothing => ViewTrue(shown[b], db')
           /\ \A b \in Browser : dialog[b] # Nothing => OpenView(dialog[b].view, db')
           /\ \A r \in reads : r.view # Nothing => ViewTrue(r.view, db')
           /\ \A c \in sent : CloseTrue(c, db')
<1>1. /\ \A v : ViewTrue(v, db) => ViewTrue(v, db')
      /\ \A c : CloseTrue(c, db) => CloseTrue(c, db')
  BY ViewStays DEF DrawerInv, Growing
<1>2. \A v : OpenView(v, db) => OpenView(v, db')
  BY <1>1 DEF OpenView
<1>3. QED
  BY <1>1, <1>2 DEF DrawerInv, ScreensTrue

LEMMA RenderKeeps ==
    ASSUME DrawerInv, Growing, NEW b \in Browser, Render(b)
    PROVE  DrawerInv'
<1>1. /\ StartRender(b) /\ rendered < MaxReads /\ rendered' = rendered + 1
      /\ UNCHANGED <<dialog, sent, answers, closings, closure>>
  BY DEF Render, StartRender, netVars
<1>2. rendered < MaxReads + MaxCloses
  BY <1>1, Counted
<1>3. TypeOK'
  BY <1>1, <1>2, StartType DEF DrawerInv, Growing, TypeOK, Good
<1>4. ScreensTrue'
  BY <1>1, StartScreens
<1>5. CountsRight'
  BY <1>1, Counted DEF DrawerInv, CountsRight, Awaited
<1>6. QED
  BY <1>1, <1>3, <1>4, <1>5, ClosureStays DEF DrawerInv, Growing

\* The read opens the drawer of a day that has none, and gets its row.
LEMMA ServeReadKeeps ==
    ASSUME DrawerInv, Growing, NEW r \in reads, ServeRead(r)
    PROVE  DrawerInv'
<1> DEFINE view == [day |-> today, row |-> db'.drawer[today]]
           answered == [r EXCEPT !.view = view]
<1>1. /\ reads' = (reads \ {r}) \cup {answered}
      /\ UNCHANGED <<today, shown, dialog, rendered, sent, answers, closings, closure>>
  BY DEF ServeRead, pageVars, netVars
<1>2. today \in Day /\ r \in Read
  BY DEF DrawerInv, TypeOK
<1>3. db'.drawer[today].status # "none"
  BY <1>2 DEF ServeRead, WithNewDay, NewRow, DrawerInv, Good, Databases
<1>4. ViewTrue(view, db')
  BY <1>2, <1>3, RowIsView DEF Growing
<1>5. view \in View
  BY <1>2 DEF View, Growing, Good, Databases
<1> HIDE DEF view
<1>6. answered \in Read /\ answered.view = view
  BY <1>2, <1>5 DEF Read
<1> HIDE DEF answered
<1>7. TypeOK'
  BY <1>1, <1>6 DEF DrawerInv, Growing, TypeOK, Good
<1>8. ScreensTrue'
  BY <1>1, <1>4, <1>6, OthersStay DEF ScreensTrue
<1>9. CountsRight'
  BY <1>1 DEF DrawerInv, CountsRight, Awaited
<1>10. QED
  BY <1>1, <1>7, <1>8, <1>9, ClosureStays DEF DrawerInv, Growing

LEMMA FinishRenderKeeps ==
    ASSUME DrawerInv, Growing, NEW r \in reads, FinishRender(r) \/ AbortRender(r)
    PROVE  DrawerInv'
<1>1. /\ reads' = reads \ {r}
      /\ shown' \in {shown, [shown EXCEPT ![r.browser] = r.view]}
      /\ shown' = shown \/ r.view # Nothing
      /\ UNCHANGED <<dialog, rendered, sent, answers, closings, closure>>
  BY DEF FinishRender, AbortRender, pageVars, netVars
<1>2. r \in Read
  BY DEF DrawerInv, TypeOK
<1>3. TypeOK'
  BY <1>1, <1>2 DEF DrawerInv, Growing, TypeOK, Good, Read
<1>4. \A b \in Browser : shown'[b] # Nothing => ViewTrue(shown'[b], db')
  BY <1>1, <1>2, OthersStay DEF DrawerInv, TypeOK, Read
<1>5. ScreensTrue'
  BY <1>1, <1>4, OthersStay DEF ScreensTrue
<1>6. CountsRight'
  BY <1>1 DEF DrawerInv, CountsRight, Awaited
<1>7. QED
  BY <1>1, <1>3, <1>5, <1>6, ClosureStays DEF DrawerInv, Growing

\* prompt, of an open drawer, and a dialog dismissed.
LEMMA PressKeeps ==
    ASSUME DrawerInv, Growing, NEW b \in Browser, Press(b) \/ Cancel(b)
    PROVE  DrawerInv'
<1>1. UNCHANGED <<shown, reads, rendered, sent, answers, closings, closure>>
  BY DEF Press, Cancel, readVars, netVars
<1>2. /\ dialog' \in [Browser -> Dialog \cup {Nothing}]
      /\ \A b2 \in Browser : dialog'[b2] # Nothing => OpenView(dialog'[b2].view, db')
  <2>1. CASE Press(b)
    <3>1. /\ dialog' = [dialog EXCEPT ![b] = [view |-> shown[b], counted |-> Nothing]]
          /\ shown[b] # Nothing /\ shown[b].row.status = "open"
      BY <2>1 DEF Press
    <3>2. shown[b] \in View /\ OpenView(shown[b], db')
      BY <1>1, <3>1, OthersStay DEF DrawerInv, TypeOK, OpenView
    <3>3. [view |-> shown[b], counted |-> Nothing] \in Dialog
      BY <3>2 DEF Dialog
    <3>4. QED
      BY <3>1, <3>2, <3>3, OthersStay DEF DrawerInv, TypeOK
  <2>2. CASE Cancel(b)
    BY <2>2, OthersStay DEF Cancel, DrawerInv, TypeOK
  <2>3. QED
    BY <2>1, <2>2
<1>3. TypeOK'
  BY <1>1, <1>2 DEF DrawerInv, Growing, TypeOK, Good
<1>4. ScreensTrue'
  BY <1>1, <1>2, OthersStay DEF ScreensTrue
<1>5. CountsRight'
  BY <1>1 DEF DrawerInv, CountsRight, Awaited
<1>6. QED
  BY <1>1, <1>3, <1>4, <1>5, ClosureStays DEF DrawerInv, Growing

\* A closing leaves the dialog of an open drawer.
LEMMA SendKeeps ==
    ASSUME DrawerInv, Growing, NEW b \in Browser, dialog[b] # Nothing,
           NEW counted \in Counts, NEW warned \in BOOLEAN,
           warned \/ Passes(counted, dialog[b].view),
           Send(b, counted, warned)
    PROVE  DrawerInv'
<1> DEFINE c == [n |-> closings + 1, browser |-> b, day |-> today, counted |-> counted,
                 view |-> dialog[b].view, warned |-> warned]
<1>1. /\ closings < MaxCloses /\ closings' = closings + 1
      /\ sent' = sent \cup {c}
      /\ dialog' = [dialog EXCEPT ![b] = Nothing]
      /\ UNCHANGED <<shown, reads, rendered, answers, closure>>
  BY DEF Send, readVars
<1>2. c \in Close /\ closings + 1 \in 0 .. MaxCloses
  BY <1>1, Counted DEF DrawerInv, TypeOK, Dialog, Close
<1>3. CloseTrue(c, db')
  BY <1>2, OthersStay DEF CloseTrue
<1> HIDE DEF c
<1>4. TypeOK'
  BY <1>1, <1>2 DEF DrawerInv, Growing, TypeOK, Good
<1>5. ScreensTrue'
  BY <1>1, <1>3, OthersStay DEF ScreensTrue, DrawerInv, TypeOK
<1>6. /\ IsFiniteSet(sent') /\ Cardinality(sent') \in Nat
      /\ Cardinality(sent') <= Cardinality(sent) + 1
  BY <1>1, OneMore DEF DrawerInv, CountsRight
<1>7. CountsRight'
  BY <1>1, <1>6, Counted DEF DrawerInv, CountsRight, Awaited
<1>8. QED
  BY <1>1, <1>4, <1>5, <1>7, ClosureStays DEF DrawerInv, Growing

LEMMA CountKeeps ==
    ASSUME DrawerInv, Growing, NEW b \in Browser, Count(b) \/ Confirm(b)
    PROVE  DrawerInv'
<1>1. dialog[b] \in Dialog /\ dialog[b] # Nothing
  BY DEF Count, Confirm, Awake, DrawerInv, TypeOK
<1>2. CASE Confirm(b)
  <2>1. dialog[b].counted \in Counts /\ Send(b, dialog[b].counted, TRUE)
    BY <1>1, <1>2 DEF Confirm, Dialog
  <2>2. QED
    BY <1>1, <2>1, SendKeeps
<1>3. CASE Count(b)
  <2>1. PICK counted \in Counts :
            \/ /\ Passes(counted, dialog[b].view)
               /\ Send(b, counted, FALSE)
            \/ /\ dialog' = [dialog EXCEPT ![b].counted = counted]
               /\ UNCHANGED <<serverVars, shown, readVars, netVars, closure>>
    BY <1>3 DEF Count
  <2>2. CASE Passes(counted, dialog[b].view) /\ Send(b, counted, FALSE)
    BY <1>1, <2>2, SendKeeps
  <2>3. CASE /\ dialog' = [dialog EXCEPT ![b].counted = counted]
             /\ UNCHANGED <<serverVars, shown, readVars, netVars, closure>>
    <3>1. [dialog[b] EXCEPT !.counted = counted] \in Dialog
      BY <1>1 DEF Dialog
    <3>2. /\ dialog' = [dialog EXCEPT ![b] = [dialog[b] EXCEPT !.counted = counted]]
          /\ [dialog[b] EXCEPT !.counted = counted].view = dialog[b].view
          /\ UNCHANGED <<shown, reads, rendered, sent, answers, closings, closure>>
      BY <1>1, <2>3 DEF readVars, netVars, Dialog
    <3>3. TypeOK'
      BY <3>1, <3>2 DEF DrawerInv, Growing, TypeOK, Good
    <3>4. ScreensTrue'
      BY <1>1, <3>2, OthersStay DEF ScreensTrue, DrawerInv, TypeOK
    <3>5. CountsRight'
      BY <3>2 DEF DrawerInv, CountsRight, Awaited
    <3>6. QED
      BY <3>2, <3>3, <3>4, <3>5, ClosureStays DEF DrawerInv, Growing
  <2>4. QED
    BY <2>1, <2>2, <2>3
<1>4. QED
  BY <1>2, <1>3

\* The UPDATE closes the drawer with what was counted, once; every closing is
\* answered.
LEMMA ServeCloseKeeps ==
    ASSUME DrawerInv, Growing, NEW c \in sent, ServeClose(c)
    PROVE  DrawerInv'
<1>1. PICK ok \in BOOLEAN : answers' = answers \cup {[close |-> c, ok |-> ok]}
  BY DEF ServeClose
<1>2. /\ sent' = sent \ {c}
      /\ UNCHANGED <<today, shown, dialog, reads, rendered, closings>>
  BY DEF ServeClose, pageVars, readVars
<1>3. c \in Close /\ CloseTrue(c, db) /\ CloseTrue(c, db')
  BY OthersStay DEF DrawerInv, TypeOK, ScreensTrue
<1>4. ClosureTrue'
  <2>1. CASE UNCHANGED closure
    BY <2>1, ClosureStays DEF Growing
  <2>2. CASE /\ db' = WithClosed(db, c.day, c.counted)
             /\ closure' = [closure EXCEPT ![c.day] = c]
    <3>1. c.day \in Day /\ db \in Databases /\ closure \in [Day -> Close \cup {Nothing}]
      BY <1>3 DEF Close, DrawerInv, TypeOK
    <3>2. /\ db'.drawer[c.day].status = "closed" /\ db'.drawer[c.day].closing = c.counted
          /\ \A day \in Day \ {c.day} : db'.drawer[day] = db.drawer[day]
      BY <2>2, <3>1 DEF WithClosed, Databases, DrawerRow
    <3>3. \A day \in Day : closure'[day] = IF day = c.day THEN c ELSE closure[day]
      BY <2>2, <3>1
    <3>4. \A e : CloseTrue(e, db) => CloseTrue(e, db')
      BY ViewStays DEF DrawerInv, Growing
    <3>5. QED
      BY <1>3, <3>1, <3>2, <3>3, <3>4 DEF ClosureTrue, DrawerInv
  <2>3. QED
    BY <2>1, <2>2 DEF ServeClose
<1>5. TypeOK'
  <2>1. closure' \in [Day -> Close \cup {Nothing}]
    BY <1>3 DEF ServeClose, DrawerInv, TypeOK
  <2>2. [close |-> c, ok |-> ok] \in [close : Close, ok : BOOLEAN]
    BY <1>3
  <2>3. QED
    BY <1>1, <1>2, <2>1, <2>2 DEF DrawerInv, Growing, TypeOK, Good
<1>6. ScreensTrue'
  BY <1>2, OthersStay DEF ScreensTrue
<1>7. CountsRight'
  <2>1. /\ IsFiniteSet(sent') /\ Cardinality(sent') = Cardinality(sent) - 1
        /\ IsFiniteSet(answers') /\ Cardinality(answers') <= Cardinality(answers) + 1
        /\ Cardinality(sent') \in Nat /\ Cardinality(answers') \in Nat
    BY <1>1, <1>2, OneMore, OneLess DEF DrawerInv, CountsRight
  <2>2. Awaited' <= Awaited
    BY <2>1, Counted DEF Awaited
  <2>3. QED
    BY <1>2, <2>1, <2>2, Counted DEF DrawerInv, CountsRight, Awaited
<1>8. QED
  BY <1>4, <1>5, <1>6, <1>7 DEF DrawerInv, Growing

\* An answer that arrives makes room for the rendering it starts.
LEMMA DeliverKeeps ==
    ASSUME DrawerInv, Growing, NEW a \in answers, Deliver(a)
    PROVE  DrawerInv'
<1>1. /\ answers' = answers \ {a}
      /\ UNCHANGED <<dialog, sent, closings, closure>>
      /\ a.close.browser \in Browser
  BY DEF Deliver, DrawerInv, TypeOK, Close
<1>2. /\ IsFiniteSet(answers') /\ Cardinality(answers') = Cardinality(answers) - 1
      /\ Cardinality(answers') \in Nat
  BY <1>1, OneLess DEF DrawerInv, CountsRight
<1>3. CASE StartRender(a.close.browser)
  <2>1. rendered' = rendered + 1
    BY <1>3 DEF StartRender
  <2>2. CountsRight'
    BY <1>1, <1>2, <2>1, Counted DEF DrawerInv, CountsRight, Awaited
  <2>3. rendered < MaxReads + MaxCloses
    BY <1>2, Counted DEF DrawerInv, CountsRight, Awaited, TypeOK
  <2>4. TypeOK'
    BY <1>1, <1>3, <2>3, StartType DEF DrawerInv, Growing, TypeOK, Good
  <2>5. ScreensTrue'
    BY <1>1, <1>3, StartScreens
  <2>6. QED
    BY <1>1, <2>2, <2>4, <2>5, ClosureStays DEF DrawerInv, Growing
<1>4. CASE UNCHANGED <<shown, readVars>>
  <2>1. UNCHANGED <<shown, reads, rendered>>
    BY <1>4 DEF readVars
  <2>2. TypeOK' /\ ScreensTrue'
    BY <1>1, <2>1, OthersStay DEF DrawerInv, Growing, TypeOK, Good, ScreensTrue
  <2>3. CountsRight'
    BY <1>1, <1>2, <2>1, Counted DEF DrawerInv, CountsRight, Awaited
  <2>4. QED
    BY <1>1, <2>2, <2>3, ClosureStays DEF DrawerInv, Growing
<1>5. QED
  BY <1>3, <1>4 DEF Deliver

\* What the network loses is asked for no longer.
LEMMA LoseKeeps ==
    ASSUME DrawerInv, Growing,
           \/ \E c \in sent : LoseClose(c)
           \/ \E a \in answers : LoseAnswer(a)
    PROVE  DrawerInv'
<1>1. /\ UNCHANGED <<today, shown, dialog, reads, rendered, closings, closure>>
      /\ sent' \subseteq sent /\ answers' \subseteq answers
  BY DEF LoseClose, LoseAnswer, serverVars, pageVars, readVars
<1>2. TypeOK' /\ ScreensTrue'
  BY <1>1, OthersStay DEF DrawerInv, Growing, TypeOK, Good, ScreensTrue
<1>3. CountsRight'
  <2>1. /\ IsFiniteSet(sent') /\ Cardinality(sent') \in Nat
        /\ Cardinality(sent') <= Cardinality(sent)
        /\ IsFiniteSet(answers') /\ Cardinality(answers') \in Nat
        /\ Cardinality(answers') <= Cardinality(answers)
    BY <1>1, FS_Subset, FS_CardinalityType DEF DrawerInv, CountsRight
  <2>2. QED
    BY <1>1, <2>1, Counted DEF DrawerInv, CountsRight, Awaited
<1>4. QED
  BY <1>1, <1>2, <1>3, ClosureStays DEF DrawerInv, Growing

\* Trade changes nothing on the screens.
LEMMA TradeKeeps ==
    ASSUME DrawerInv, Growing, Trade
    PROVE  DrawerInv'
<1>1. UNCHANGED <<shown, dialog, reads, rendered, sent, answers, closings, closure>>
  BY DEF Trade, pageVars, readVars, netVars
<1>2. TypeOK' /\ ScreensTrue' /\ CountsRight'
  BY <1>1, OthersStay
     DEF DrawerInv, Growing, TypeOK, Good, ScreensTrue, CountsRight, Awaited
<1>3. QED
  BY <1>1, <1>2, ClosureStays DEF DrawerInv, Growing

\* It holds at first.
LEMMA DrawerInit ==
    ASSUME Init
    PROVE  DrawerInv
<1>1. db = Seeded /\ today = 1
  BY SameSeeded DEF Init, Server!Init
<1>2. Good(db)
  BY <1>1, SeededGood
<1>3. TypeOK
  BY <1>1, <1>2, DayAssumption, ScreenBoundAssumption DEF Init, TypeOK, Good, Day
<1>4. ScreensTrue /\ ClosureTrue
  BY DEF Init, ScreensTrue, ClosureTrue
<1>5. CountsRight
  BY FS_EmptySet, ScreenBoundAssumption DEF Init, CountsRight, Awaited
<1>6. QED
  BY <1>2, <1>3, <1>4, <1>5 DEF DrawerInv

LEMMA DrawerNext ==
    ASSUME DrawerInv, [Next]_vars
    PROVE  DrawerInv'
<1>1. CASE Next
  <2>1. Growing
    BY <1>1, BooksStep DEF Growing
  <2>2. QED
    BY <1>1, <2>1, RenderKeeps, PressKeeps, CountKeeps, ServeReadKeeps, FinishRenderKeeps,
       ServeCloseKeeps, LoseKeeps, DeliverKeeps, TradeKeeps
       DEF Next
<1>2. CASE UNCHANGED vars
  BY <1>2
     DEF vars, serverVars, pageVars, readVars, netVars, DrawerInv, TypeOK, Good, ScreensTrue,
         ClosureTrue, CountsRight, Awaited
<1>3. QED
  BY <1>1, <1>2

LEMMA AlwaysDrawerInv == Spec => []DrawerInv
BY DrawerInit, DrawerNext, PTL DEF Spec

-----------------------------------------------------------------------------
(***************************************************************************)
(* Theorems                                                                *)
(***************************************************************************)

\* The books, the screens, the dialogs and the network keep their types; no
\* rendering is numbered beyond the bound.
THEOREM TypeCorrect == Spec => []TypeOK
<1>1. DrawerInv => TypeOK
  BY DEF DrawerInv
<1>2. QED
  BY <1>1, AlwaysDrawerInv, PTL

\* A drawer closed without a warning was closed within the tolerance of the
\* balance on the screen it was counted against; the books hold at least what
\* that screen showed.
THEOREM Explained == Spec => []ClosingExplained
<1>1. DrawerInv => ClosingExplained
  <2> SUFFICES ASSUME DrawerInv, NEW day \in Day, closure[day] # Nothing,
                      ~closure[day].warned, closure[day].view.day = day
               PROVE  LET c == closure[day]
                          now == db.drawer[day]
                          expected == OpeningCash + c.view.row.cash
                                          - c.view.row.expenses IN
                      /\ expected - Tolerance <= now.closing
                      /\ now.closing <= expected + Tolerance
                      /\ c.view.row.cash <= now.cash
                      /\ c.view.row.expenses <= now.expenses
    BY DEF ClosingExplained
  <2> DEFINE c == closure[day]
  <2>1. CloseTrue(c, db) /\ db.drawer[day].closing = c.counted
    BY DEF DrawerInv, ClosureTrue
  <2>2. /\ c.view.row.closing - Tolerance <= c.counted
        /\ c.counted <= c.view.row.closing + Tolerance
    BY <2>1 DEF CloseTrue, Passes, Within
  <2>3. c.view.row.closing = OpeningCash + c.view.row.cash - c.view.row.expenses
    BY <2>1 DEF CloseTrue, OpenView, ViewTrue, Books!Balanced
  <2>4. /\ c.view.row.cash <= db.drawer[day].cash
        /\ c.view.row.expenses <= db.drawer[day].expenses
    BY <2>1 DEF CloseTrue, OpenView, ViewTrue, Books!Grown
  <2>5. QED
    BY <2>1, <2>2, <2>3, <2>4
<1>2. QED
  BY <1>1, AlwaysDrawerInv, PTL

\* A closed drawer on a screen is the one in the books.
THEOREM Final == Spec => []ClosedIsFinal
<1>1. DrawerInv => ClosedIsFinal
  BY DEF DrawerInv, ScreensTrue, ViewTrue, Books!Grown, ClosedIsFinal
<1>2. QED
  BY <1>1, AlwaysDrawerInv, PTL

\* The screens are no more than users of the server: what they do to the books
\* AtomicLedger does, so that whatever is proved of its steps holds with any
\* number of browsers.
THEOREM ServerRefined == Spec => Server!Spec
<1>1. Init => Server!Init
  BY DEF Init
<1>2. DrawerInv /\ [Next]_vars => [Server!Next]_(Server!vars)
  <2> SUFFICES ASSUME DrawerInv, [Next]_vars PROVE Server!Next \/ UNCHANGED serverVars
    BY DEF serverVars, Server!vars
  <2>1. CASE Next
    BY <2>1, ServerSteps DEF DrawerInv
  <2>2. CASE UNCHANGED vars
    BY <2>2 DEF vars
  <2>3. QED
    BY <2>1, <2>2
<1>3. QED
  BY <1>1, <1>2, AlwaysDrawerInv, PTL DEF Spec, Server!Spec
=============================================================================
