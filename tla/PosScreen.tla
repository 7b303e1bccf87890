------------------------------ MODULE PosScreen ------------------------------
(***************************************************************************)
(* The point-of-sale screen of the web admin, js/app.js, in one browser.   *)
(* JavaScript runs one handler at a time, but every fetch is awaited: the  *)
(* cashier goes on clicking, signs out, signs in again, other renderings   *)
(* finish, and answers arrive in any order or never.                       *)
(*                                                                         *)
(* A line of the cart is an item and the stylist it is credited to.        *)
(* Quantities, prices, the client and the payment method travel with the   *)
(* cart and decide nothing here.                                           *)
(***************************************************************************)
EXTENDS Naturals, Sequences, FiniteSets

CONSTANTS
    Page,           \* the entries of the router
    Dashboard,      \* the first one shown
    Appointments,   \* the one with a filter
    Checkout,       \* the one that renders the point of sale
    FormPage,       \* those with forms or buttons that write
    Item,
    Staff,          \* stylists, as invoice items name them
    StaffRows,      \* the rows the staff request returns to a signed-in user
    Undefined, NoPage,
    MaxRenders,     \* bound: renderings ever started
    MaxPresses      \* bound: checkouts ever sent

ASSUME ScreenAssumption ==
    /\ {Dashboard, Appointments, Checkout} \subseteq Page
    /\ FormPage \subseteq Page \ {Checkout}
    /\ NoPage \notin Page
    /\ Undefined \notin Staff
    /\ MaxRenders \in Nat \ {0} /\ MaxPresses \in Nat

\* A mistake to compare with: the other identity of a stylist.
IdOfUser(row) == row.user_id

\* st.id, in JavaScript: undefined where a row has no such column.
IdOf(row) == IF "id" \in DOMAIN row THEN row.id ELSE Undefined

ASSUME RowAssumption ==
    /\ StaffRows \in Seq({StaffRows[i] : i \in DOMAIN StaffRows}) /\ StaffRows # <<>>
    /\ \A i \in DOMAIN StaffRows :
          "id" \in DOMAIN StaffRows[i] => StaffRows[i].id \in Staff

Line == [item : Item, stylist : Staff \cup {Undefined}]
Press == [n : 1 .. MaxPresses, screen : Nat, cart : SUBSET Line]

VARIABLES
    signedIn,   \* currentUser # null: the screens, or the login form over them
    page,       \* currentPage, the highlighted entry of the menu
    shown,      \* the page in the container, or NoPage for a spinner
    loading,    \* how many renderings of each page await their fetches
    rendered,   \* how many renderings were started
    forms,      \* the pages a form of which is open or awaits its answer
    screen,     \* which rendering of the checkout is, or was last, shown
    cart,       \* posCart
    enabled,    \* checkout-btn of that rendering
    waiting,    \* the checkouts whose answer is awaited
    sent, answers,  \* requests and answers on the network
    sales,      \* what the server has booked
    presses,    \* how many checkouts were sent
    slips,      \* history: presses whose cart was edited meanwhile, or answer lost
    told        \* history: screens whose sale was announced as completed

pageVars == <<signedIn, page, shown, loading, rendered, forms, screen>>
netVars == <<waiting, sent, answers, sales, presses, slips, told>>
vars == <<pageVars, cart, enabled, netVars>>

\* checkSession finds a session and showApp renders the first page.
Init ==
    /\ signedIn = TRUE
    /\ page = Dashboard
    /\ loading = [p \in Page |-> IF p = Dashboard THEN 1 ELSE 0]
    /\ shown = NoPage
    /\ rendered = 1
    /\ forms = {}
    /\ screen = 0
    /\ cart = {}
    /\ enabled = FALSE
    /\ waiting = {} /\ sent = {} /\ answers = {} /\ sales = {}
    /\ presses = 0
    /\ slips = {} /\ told = {}

\* The first lines of every rendering: a spinner, then the fetches.
StartRender(p) ==
    /\ shown' = NoPage
    /\ loading' = [loading EXCEPT ![p] = @ + 1]
    /\ rendered' = rendered + 1

\* fetchData signs out at an answer 401, whichever session its request was of.
MaySignOut == signedIn' \in {signedIn, FALSE}

\* Under the bound every answer that is awaited may still start a rendering.
Room == rendered + Cardinality(waiting) + Cardinality(forms) < MaxRenders
-----------------------------------------------------------------------------
\* The click, or the end of the session.  Nothing else is put away.
Logout ==
    /\ signedIn
    /\ signedIn' = FALSE
    /\ UNCHANGED <<page, shown, loading, rendered, forms, screen, cart, enabled, netVars>>

\* A login that succeeds: showApp renders the page that was current.
Login ==
    /\ ~signedIn
    /\ Room
    /\ signedIn' = TRUE
    /\ StartRender(page)
    /\ UNCHANGED <<page, forms, screen, cart, enabled, netVars>>

\* A click on the menu; one on the current page is ignored.
Navigate(p) ==
    /\ signedIn
    /\ p # page
    /\ Room
    /\ page' = p
    /\ StartRender(p)
    /\ UNCHANGED <<signedIn, forms, screen, cart, enabled, netVars>>

\* A form of the page opened; it is sent, or cancelled, later.
OpenForm(p) ==
    /\ signedIn
    /\ shown = p
    /\ p \notin forms
    /\ Room
    /\ forms' = forms \cup {p}
    /\ UNCHANGED <<signedIn, page, shown, loading, rendered, screen, cart, enabled, netVars>>

\* Saved, it renders its page anew, whatever page is current by then; refused
\* or cancelled, nothing.
CloseForm(p) ==
    /\ p \in forms
    /\ forms' = forms \ {p}
    /\ \/ StartRender(p) /\ UNCHANGED signedIn
       \/ MaySignOut /\ UNCHANGED <<shown, loading, rendered>>
    /\ UNCHANGED <<page, screen, cart, enabled, netVars>>

\* setAptFilter.
FilterAppointments ==
    /\ signedIn
    /\ shown = Appointments
    /\ Room
    /\ StartRender(Appointments)
    /\ UNCHANGED <<signedIn, page, forms, screen, cart, enabled, netVars>>

\* The answer to the new appointment, whose form every page has, renders the
\* page that is current then, signed in or not.
AppointmentBooked ==
    /\ page \in {Dashboard, Appointments}
    /\ Room
    /\ StartRender(page)
    /\ UNCHANGED <<signedIn, page, forms, screen, cart, enabled, netVars>>

\* renderCheckout after its fetches.
FinishCheckout ==
    /\ loading[Checkout] > 0
    /\ loading' = [loading EXCEPT ![Checkout] = @ - 1]
    /\ shown' = Checkout
    /\ screen' = screen + 1
    /\ cart' = {}
    /\ enabled' = FALSE
    /\ UNCHANGED <<signedIn, page, rendered, forms, netVars>>

\* The other pages' functions after theirs.  The dashboard greets currentUser:
\* without one it throws.
FinishPage(p) ==
    /\ p # Checkout
    /\ p = Dashboard => signedIn
    /\ loading[p] > 0
    /\ loading' = [loading EXCEPT ![p] = @ - 1]
    /\ shown' = p
    /\ UNCHANGED <<signedIn, page, rendered, forms, screen, cart, enabled, netVars>>

\* One of the fetches fails, with an alert or a 401, or the function throws.
AbortRender(p) ==
    /\ loading[p] > 0
    /\ loading' = [loading EXCEPT ![p] = @ - 1]
    /\ MaySignOut
    /\ UNCHANGED <<page, shown, rendered, forms, screen, cart, enabled, netVars>>
-----------------------------------------------------------------------------
PressesOfScreen == {c \in waiting : c.screen = screen}

\* Every change of the cart ends in updateCartUI.
EditTo(lines) ==
    /\ signedIn
    /\ shown = Checkout
    /\ cart' = lines
    /\ enabled' = (lines # {})
    /\ slips' = slips \cup PressesOfScreen
    /\ UNCHANGED <<pageVars, waiting, sent, answers, sales, presses, told>>

AddCartItem(i) ==
    \/ /\ \A line \in cart : line.item # i
       /\ EditTo(cart \cup {[item |-> i, stylist |-> IdOf(Head(StaffRows))]})
    \/ /\ \E line \in cart : line.item = i      \* quantity++
       /\ EditTo(cart)

RemoveCartItem(line) == EditTo(cart \ {line})

\* The stylist's select box, which does not call updateCartUI.
ChangeCartStylist(line) ==
    /\ signedIn
    /\ shown = Checkout
    /\ \E k \in DOMAIN StaffRows :
          cart' = (cart \ {line}) \cup
                  {[item |-> line.item, stylist |-> IdOf(StaffRows[k])]}
    /\ UNCHANGED <<pageVars, enabled, netVars>>
-----------------------------------------------------------------------------
\* A mistake to compare with: the button stays live.
SubmitAgain ==
    LET press == [n |-> presses + 1, screen |-> screen, cart |-> cart] IN
    /\ signedIn
    /\ shown = Checkout
    /\ enabled
    /\ presses < MaxPresses
    /\ Room
    /\ presses' = presses + 1
    /\ waiting' = waiting \cup {press}
    /\ sent' = sent \cup {press}
    /\ UNCHANGED <<pageVars, cart, enabled, answers, sales, slips, told>>

\* submitPOSCheckout up to its fetch.
Submit ==
    LET press == [n |-> presses + 1, screen |-> screen, cart |-> cart] IN
    /\ signedIn
    /\ shown = Checkout
    /\ enabled
    /\ presses < MaxPresses
    /\ Room
    /\ presses' = presses + 1
    /\ enabled' = FALSE
    /\ waiting' = waiting \cup {press}
    /\ sent' = sent \cup {press}
    /\ UNCHANGED <<pageVars, cart, answers, sales, slips, told>>

\* POSController.checkout: an empty cart is refused, and so is any other when
\* the token has expired, the drawer is closed or the database locked.
Serve(c) ==
    /\ sent' = sent \ {c}
    /\ \/ /\ c.cart # {}
          /\ sales' = sales \cup {c}
          /\ answers' = answers \cup {[press |-> c, ok |-> TRUE]}
       \/ /\ answers' = answers \cup {[press |-> c, ok |-> FALSE]}
          /\ UNCHANGED sales
    /\ UNCHANGED <<pageVars, cart, enabled, waiting, presses, slips, told>>

\* A mistake to compare with: the screen stays as it is.
SucceedInPlace(c) ==
    /\ told' = told \cup {c.screen}
    /\ UNCHANGED <<pageVars, enabled>>

\* submitPOSCheckout after its await.  A success renders the checkout anew,
\* whatever page is current.
Succeed(c) ==
    /\ told' = told \cup {c.screen}
    /\ StartRender(Checkout)
    /\ UNCHANGED <<signedIn, page, forms, screen, enabled>>

\* A mistake to compare with: the button is left disabled.
FailQuietly(c) ==
    UNCHANGED <<page, shown, loading, rendered, forms, screen, enabled, told>>

\* The button of a screen that is gone is no longer the one on the page.
FailedPress(c) ==
    /\ enabled' = (enabled \/ c.screen = screen)
    /\ UNCHANGED <<page, shown, loading, rendered, forms, screen, told>>

Deliver(a) ==
    /\ answers' = answers \ {a}
    /\ waiting' = waiting \ {a.press}
    /\ \/ a.press \in waiting /\ a.ok /\ Succeed(a.press)
       \/ a.press \in waiting /\ ~a.ok /\ FailedPress(a.press) /\ MaySignOut
       \/ a.press \notin waiting /\ UNCHANGED <<pageVars, enabled, told>>
    /\ UNCHANGED <<cart, sent, sales, presses, slips>>

\* fetch rejects: the request is lost, on its way, or served already.
NetworkError(c) ==
    /\ waiting' = waiting \ {c}
    /\ FailedPress(c)
    /\ UNCHANGED signedIn
    /\ slips' = slips \cup {c}
    /\ UNCHANGED <<cart, sent, answers, sales, presses>>

\* The network drops a request.
Lose(c) ==
    /\ sent' = sent \ {c}
    /\ UNCHANGED <<pageVars, cart, enabled, waiting, answers, sales, presses,
                   slips, told>>
-----------------------------------------------------------------------------
Next ==
    \/ Logout \/ Login
    \/ \E p \in Page : Navigate(p) \/ FinishPage(p) \/ AbortRender(p)
    \/ \E p \in FormPage : OpenForm(p) \/ CloseForm(p)
    \/ FilterAppointments \/ AppointmentBooked \/ FinishCheckout
    \/ \E i \in Item : AddCartItem(i)
    \/ \E line \in cart : RemoveCartItem(line) \/ ChangeCartStylist(line)
    \/ Submit
    \/ \E c \in sent : Serve(c) \/ Lose(c)
    \/ \E a \in answers : Deliver(a)
    \/ \E c \in waiting : NetworkError(c)

Spec == Init /\ [][Next]_vars
-----------------------------------------------------------------------------
(***************************************************************************)
(* Properties                                                              *)
(***************************************************************************)

\* The types of the screen's state and of the network.
TypeOK ==
    /\ signedIn \in BOOLEAN
    /\ page \in Page
    /\ shown \in Page \cup {NoPage}
    /\ loading \in [Page -> 0 .. MaxRenders]
    /\ rendered \in 0 .. MaxRenders
    /\ forms \subseteq FormPage
    /\ screen \in 0 .. MaxRenders
    /\ cart \subseteq Line
    /\ enabled \in BOOLEAN
    /\ waiting \subseteq Press /\ sent \subseteq Press
    /\ sales \subseteq Press /\ slips \subseteq Press
    /\ answers \subseteq [press : Press, ok : BOOLEAN]
    /\ presses \in 0 .. MaxPresses
    /\ told \subseteq 1 .. MaxRenders

\* The cart of one screen is sold a second time only if, up to the first sale,
\* the cart was edited while a checkout of it was on its way, or the answer to
\* one was lost: nothing else offers the button of a sale that may have
\* succeeded.  The checkout this happened to may be an earlier one that failed,
\* since its failure gives the button back while the first sale is on its way.
RepeatNeedsSlip ==
    \A a, b \in sales : a.screen = b.screen /\ a.n < b.n =>
        \E c \in slips : c.screen = a.screen /\ c.n <= a.n

\* A cart that was announced as sold is not offered again: the screen that
\* showed it never comes back, whichever renderings fail or come late.
SoldCartGone == shown = Checkout => screen \notin told

\* The cashier is not left with a cart that cannot be sold: the button of a
\* filled cart is disabled only while a checkout of it is being answered.
ButtonNotStuck ==
    shown = Checkout /\ cart # {} /\ ~enabled => PressesOfScreen # {}
=============================================================================
