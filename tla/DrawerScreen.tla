---------------------------- MODULE DrawerScreen ----------------------------
(***************************************************************************)
(* The closing of the cash drawer in the web admin, renderReconciliation   *)
(* and performDrawerReconciliation of js/app.js, in several browsers while *)
(* the shop goes on selling.  The server is AtomicLedger's: Ledger shows   *)
(* that each of its requests behaves as one step.                          *)
(*                                                                         *)
(* prompt and confirm stop everything else in their browser, and nothing   *)
(* in the others.  The button is live while a closing is awaited.          *)
(***************************************************************************)
EXTENDS LedgerTables

CONSTANTS
    Browser,
    Nothing,        \* no rendering, no dialog, no answer, no closing
    Tolerance,      \* how far a count may be off unwarned: 0.01, in the unit of amounts
    MaxReads,       \* bound: renderings that no closing asked for
    MaxCloses,      \* bound: closings ever sent
    MaxInvoices,    \* bound: sales
    MaxExpenses     \* bound: expenses

ASSUME ToleranceAssumption == Tolerance \in Nat \ {0}

ASSUME ScreenBoundAssumption ==
    MaxReads \in Nat /\ MaxCloses \in Nat /\ MaxInvoices \in Nat /\ MaxExpenses \in Nat

\* A row of cash_reconciliation as a rendering got it.
View == [day : Day, row : DrawerRow]
Read == [n : 1 .. MaxReads + MaxCloses, browser : Browser, view : View \cup {Nothing}]
Dialog == [view : View, counted : Counts \cup {Nothing}]
Close == [n : 1 .. MaxCloses, browser : Browser, day : Day, counted : Counts,
          view : View, warned : BOOLEAN]

ASSUME NothingAssumption ==
    Nothing \notin View \cup Dialog \cup Close \cup Counts

VARIABLES
    db, today,  \* the server's books and everybody's calendar (both in UTC)
    shown,      \* the drawer on each browser's screen, or Nothing
    dialog,     \* its prompt, and once something was counted its confirm
    reads,      \* renderings that await reconciliation_today
    rendered,   \* how many were started
    sent, answers,  \* closings and their answers on the network
    closings,   \* how many were sent
    closure     \* history: the closing that closed each day's drawer

serverVars == <<db, today>>
pageVars == <<shown, dialog>>
readVars == <<reads, rendered>>
netVars == <<sent, answers, closings>>
vars == <<serverVars, pageVars, readVars, netVars, closure>>

Server == INSTANCE AtomicLedger

Init ==
    /\ Server!Init
    /\ shown = [b \in Browser |-> Nothing]
    /\ dialog = [b \in Browser |-> Nothing]
    /\ reads = {} /\ rendered = 0
    /\ sent = {} /\ answers = {} /\ closings = 0
    /\ closure = [day \in Day |-> Nothing]

Awake(b) == dialog[b] = Nothing
-----------------------------------------------------------------------------
\* renderReconciliation up to its fetch: a spinner.
StartRender(b) ==
    /\ shown' = [shown EXCEPT ![b] = Nothing]
    /\ rendered' = rendered + 1
    /\ reads' = reads \cup {[n |-> rendered + 1, browser |-> b, view |-> Nothing]}

Render(b) ==
    /\ Awake(b)
    /\ rendered < MaxReads
    /\ StartRender(b)
    /\ UNCHANGED <<serverVars, dialog, netVars, closure>>

\* getTodayStatus, which opens the drawer of a day that has none.
ServeRead(r) ==
    /\ r.view = Nothing
    /\ db' = IF db.drawer[today].status = "none" THEN WithNewDay(db, today) ELSE db
    /\ reads' = (reads \ {r}) \cup
                {[r EXCEPT !.view = [day |-> today, row |-> db'.drawer[today]]]}
    /\ UNCHANGED <<today, pageVars, rendered, netVars, closure>>

\* The rendering after its fetches.
FinishRender(r) ==
    /\ r.view # Nothing
    /\ Awake(r.browser)
    /\ shown' = [shown EXCEPT ![r.browser] = r.view]
    /\ reads' = reads \ {r}
    /\ UNCHANGED <<serverVars, dialog, rendered, netVars, closure>>

\* One of its two fetches fails.
AbortRender(r) ==
    /\ Awake(r.browser)
    /\ reads' = reads \ {r}
    /\ UNCHANGED <<serverVars, pageVars, rendered, netVars, closure>>
-----------------------------------------------------------------------------
(***************************************************************************)
(* performDrawerReconciliation.                                            *)
(***************************************************************************)

\* The button of an open drawer: prompt.
Press(b) ==
    /\ Awake(b)
    /\ shown[b] # Nothing
    /\ shown[b].row.status = "open"
    /\ dialog' = [dialog EXCEPT ![b] = [view |-> shown[b], counted |-> Nothing]]
    /\ UNCHANGED <<serverVars, shown, readVars, netVars, closure>>

\* The date is that of the moment, not that of the rendering.
Send(b, counted, warned) ==
    /\ closings < MaxCloses
    /\ sent' = sent \cup {[n |-> closings + 1, browser |-> b, day |-> today,
                           counted |-> counted, view |-> dialog[b].view,
                           warned |-> warned]}
    /\ closings' = closings + 1
    /\ dialog' = [dialog EXCEPT ![b] = Nothing]
    /\ UNCHANGED <<serverVars, shown, readVars, answers, closure>>

Within(counted, view, n) ==
    /\ view.row.closing - n <= counted
    /\ counted <= view.row.closing + n

\* A mistake to compare with: only a shortage is warned of.
PassesOverage(counted, view) == view.row.closing - Tolerance <= counted

\* Math.abs(diff) > 0.01.  Of two floating-point amounts 0.01 apart, the difference
\* is sometimes more than 0.01 and sometimes not.
Passes(counted, view) == Within(counted, view, Tolerance)
Warns(counted, view) == ~Within(counted, view, Tolerance - 1)

\* The prompt answered: a count too far from the expected one is asked about.
Count(b) ==
    /\ ~Awake(b)
    /\ dialog[b].counted = Nothing
    /\ \E counted \in Counts :
          \/ /\ Passes(counted, dialog[b].view)
             /\ Send(b, counted, FALSE)
          \/ /\ Warns(counted, dialog[b].view)
             /\ dialog' = [dialog EXCEPT ![b].counted = counted]
             /\ UNCHANGED <<serverVars, shown, readVars, netVars, closure>>

\* "Do you want to proceed and close drawer with discrepancy?"
Confirm(b) ==
    /\ ~Awake(b)
    /\ dialog[b].counted # Nothing
    /\ Send(b, dialog[b].counted, TRUE)

\* A mistake to compare with: a dismissed prompt is not looked at.
CancelSending(b) ==
    /\ ~Awake(b)
    /\ Send(b, dialog[b].counted, TRUE)

\* Either dialog dismissed, or no number typed.
Cancel(b) ==
    /\ ~Awake(b)
    /\ dialog' = [dialog EXCEPT ![b] = Nothing]
    /\ UNCHANGED <<serverVars, shown, readVars, netVars, closure>>

\* A mistake to compare with: UPDATE without AND status = 'open'.
ServeCloseAgain(c) ==
    /\ sent' = sent \ {c}
    /\ db' = WithClosed(db, c.day, c.counted)
    /\ closure' = [closure EXCEPT ![c.day] = c]
    /\ answers' = answers \cup {[close |-> c, ok |-> TRUE]}
    /\ UNCHANGED <<today, pageVars, readVars, closings>>

\* ReconciliationController.closeDrawer: an UPDATE that matches no row succeeds,
\* too; a locked database makes it fail.
ServeClose(c) ==
    /\ sent' = sent \ {c}
    /\ \/ /\ db.drawer[c.day].status = "open"
          /\ db' = WithClosed(db, c.day, c.counted)
          /\ closure' = [closure EXCEPT ![c.day] = c]
          /\ answers' = answers \cup {[close |-> c, ok |-> TRUE]}
       \/ /\ db.drawer[c.day].status # "open"
          /\ answers' = answers \cup {[close |-> c, ok |-> TRUE]}
          /\ UNCHANGED <<db, closure>>
       \/ /\ answers' = answers \cup {[close |-> c, ok |-> FALSE]}
          /\ UNCHANGED <<db, closure>>
    /\ UNCHANGED <<today, pageVars, readVars, closings>>

\* performDrawerReconciliation after its await: "closed and reconciled
\* successfully!", and the screen rendered anew; or fetchData's alert.
Deliver(a) ==
    /\ Awake(a.close.browser)
    /\ answers' = answers \ {a}
    /\ \/ /\ a.ok
          /\ StartRender(a.close.browser)
       \/ /\ ~a.ok
          /\ UNCHANGED <<shown, readVars>>
    /\ UNCHANGED <<serverVars, dialog, sent, closings, closure>>

\* The request or its answer is lost, or given up: an alert, no more.
LoseClose(c) ==
    /\ sent' = sent \ {c}
    /\ UNCHANGED <<serverVars, pageVars, readVars, answers, closings, closure>>

LoseAnswer(a) ==
    /\ answers' = answers \ {a}
    /\ UNCHANGED <<serverVars, pageVars, readVars, sent, closings, closure>>
-----------------------------------------------------------------------------
\* What the rest of the shop does meanwhile.
Trade ==
    /\ \/ Len(db.invoices) < MaxInvoices /\ Server!Sell
       \/ Len(db.expenses) < MaxExpenses /\ Server!Spend
       \/ Server!Midnight
    /\ UNCHANGED <<pageVars, readVars, netVars, closure>>

Next ==
    \/ \E b \in Browser : Render(b) \/ Press(b) \/ Count(b) \/ Confirm(b) \/ Cancel(b)
    \/ \E r \in reads : ServeRead(r) \/ FinishRender(r) \/ AbortRender(r)
    \/ \E c \in sent : ServeClose(c) \/ LoseClose(c)
    \/ \E a \in answers : Deliver(a) \/ LoseAnswer(a)
    \/ Trade

Spec == Init /\ [][Next]_vars
-----------------------------------------------------------------------------
(***************************************************************************)
(* Properties                                                              *)
(***************************************************************************)

\* The types of the screens' state and of the network.
TypeOK ==
    /\ db \in Databases
    /\ today \in Day
    /\ shown \in [Browser -> View \cup {Nothing}]
    /\ dialog \in [Browser -> Dialog \cup {Nothing}]
    /\ reads \subseteq Read /\ rendered \in Nat
    /\ sent \subseteq Close /\ closings \in 0 .. MaxCloses
    /\ answers \subseteq [close : Close, ok : BOOLEAN]
    /\ closure \in [Day -> Close \cup {Nothing}]

\* A drawer closed without a warning, from a screen of the same day, holds the
\* balance it had when that screen was rendered, to within what the page does
\* not warn of: what its balance misses beyond that is what was booked since,
\* and nothing else, whoever rendered and counted meanwhile and in whatever
\* order renderings and closings arrived.
ClosingExplained ==
    \A day \in Day :
        LET c == closure[day]
            now == db.drawer[day]
            expected == OpeningCash + c.view.row.cash - c.view.row.expenses IN
        c # Nothing /\ ~c.warned /\ c.view.day = day =>
            /\ expected - Tolerance <= now.closing
            /\ now.closing <= expected + Tolerance
            /\ c.view.row.cash <= now.cash
            /\ c.view.row.expenses <= now.expenses

\* A screen that shows a closed drawer is never out of date: its figures are
\* those in the books, although other browsers' closings are still on their way.
ClosedIsFinal ==
    \A b \in Browser : shown[b] # Nothing /\ shown[b].row.status = "closed" =>
        db.drawer[shown[b].day] = shown[b].row
=============================================================================
