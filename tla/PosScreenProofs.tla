--------------------------- MODULE PosScreenProofs ---------------------------
(***************************************************************************)
(* Proofs about PosScreen, for every set of pages, items and stylists, and *)
(* any number of renderings and presses.                                   *)
(***************************************************************************)
EXTENDS PosScreen, FiniteSetTheorems, TLAPS

(***************************************************************************)
(* The invariant.                                                          *)
(***************************************************************************)

Answered == {a.press : a \in answers}

\* Every press is one of its screen and has its number to itself.
Known == waiting \cup sent \cup sales \cup slips \cup Answered

PressesNumbered ==
    /\ \A c \in Known : c.n <= presses /\ 1 <= c.screen /\ c.screen <= screen
    /\ \A c, d \in Known : c.n = d.n => c = d

\* A request is served once: it was booked and accepted, or refused and never
\* will be.
AnswersTrue ==
    /\ sent \cap sales = {}
    /\ \A a \in answers : a.press \notin sent /\ (a.press \in sales <=> a.ok)

\* The presses that may have been booked, or be booked yet.
Pending == waiting \cup sent \cup sales

\* A checkout of the screen of c, no later than c, was edited or left without
\* its answer.
Slipped(c) == \E d \in slips : d.screen = c.screen /\ d.n <= c.n

\* A press whose answer is awaited no longer was told to be completed, or else
\* its answer was lost or never to come.
SettledPresses ==
    \A c \in (sent \cup sales) \ waiting : Slipped(c) \/ c.screen \in told

\* The button is not offered while a checkout of its screen may succeed, and a
\* screen has one that may, but for slips.
ButtonInv == enabled => \A c \in Pending : c.screen = screen => Slipped(c)

PairsInv == \A c, d \in Pending : c.screen = d.screen /\ c.n < d.n => Slipped(c)

\* Only screens that were shown are told of, and no longer are.
ScreensInv ==
    /\ shown = Checkout => 1 <= screen
    /\ \A s \in told : 1 <= s /\ s <= screen
    /\ SoldCartGone

\* The bound on renderings leaves room for those that answers may start.
RenderingsInv ==
    /\ IsFiniteSet(waiting) /\ IsFiniteSet(forms)
    /\ rendered + Cardinality(waiting) + Cardinality(forms) <= MaxRenders
    /\ \A p \in Page : loading[p] <= rendered
    /\ screen + loading[Checkout] <= rendered

PosInv ==
    /\ TypeOK
    /\ PressesNumbered
    /\ AnswersTrue
    /\ SettledPresses
    /\ ButtonInv
    /\ PairsInv
    /\ ScreensInv
    /\ ButtonNotStuck
    /\ RenderingsInv
-----------------------------------------------------------------------------
(***************************************************************************)
(* Renderings.                                                             *)
(***************************************************************************)

\* The numbers the bound is about.
LEMMA Counted ==
    ASSUME PosInv
    PROVE  /\ IsFiniteSet(waiting) /\ Cardinality(waiting) \in Nat
           /\ IsFiniteSet(forms) /\ Cardinality(forms) \in Nat
           /\ rendered \in Nat /\ screen \in Nat /\ MaxRenders \in Nat
           /\ \A p \in Page : loading[p] \in Nat
           /\ {Dashboard, Appointments, Checkout} \subseteq Page /\ NoPage \notin Page
           /\ FormPage \subseteq Page \ {Checkout}
BY FS_CardinalityType, ScreenAssumption DEF PosInv, RenderingsInv, TypeOK

\* One element more, or one less.
LEMMA OneMore ==
    ASSUME NEW S, IsFiniteSet(S), NEW x
    PROVE  /\ IsFiniteSet(S \cup {x}) /\ Cardinality(S \cup {x}) \in Nat
           /\ Cardinality(S \cup {x}) <= Cardinality(S) + 1
<1>1. Cardinality(S) \in Nat
  BY FS_CardinalityType
<1>2. /\ IsFiniteSet(S \cup {x})
      /\ Cardinality(S \cup {x}) = Cardinality(S) \/ Cardinality(S \cup {x}) = Cardinality(S) + 1
  BY FS_AddElement
<1>3. QED
  BY <1>1, <1>2

LEMMA OneLess ==
    ASSUME NEW S, IsFiniteSet(S), NEW x \in S
    PROVE  /\ IsFiniteSet(S \ {x}) /\ Cardinality(S \ {x}) \in Nat
           /\ Cardinality(S \ {x}) = Cardinality(S) - 1
BY FS_RemoveElement, FS_CardinalityType

RenderTypes ==
    /\ shown \in Page \cup {NoPage}
    /\ loading \in [Page -> 0 .. MaxRenders]
    /\ rendered \in 0 .. MaxRenders
    /\ screen \in 0 .. MaxRenders

\* A rendering that starts where there is room leaves the bound respected.
LEMMA RenderingStarts ==
    ASSUME PosInv, NEW p \in Page, StartRender(p),
           IsFiniteSet(waiting'), IsFiniteSet(forms'),
           rendered + 1 + Cardinality(waiting') + Cardinality(forms') <= MaxRenders,
           screen' = screen
    PROVE  RenderingsInv' /\ RenderTypes' /\ shown' = NoPage
<1>1. /\ rendered \in Nat /\ screen \in Nat /\ MaxRenders \in Nat /\ Checkout \in Page
      /\ screen + loading[Checkout] <= rendered
      /\ \A q \in Page : loading[q] \in Nat /\ loading[q] <= rendered
  BY Counted DEF PosInv, RenderingsInv
<1>2. /\ Cardinality(waiting') \in Nat /\ Cardinality(forms') \in Nat
      /\ rendered' = rendered + 1 /\ shown' = NoPage
      /\ loading \in [Page -> 0 .. MaxRenders]
      /\ loading' = [loading EXCEPT ![p] = loading[p] + 1]
  BY FS_CardinalityType DEF StartRender, PosInv, TypeOK
<1>3. \A q \in Page : loading'[q] \in Nat /\ loading'[q] <= loading[q] + 1
  BY <1>1, <1>2
<1>4. rendered' \in 0 .. MaxRenders /\ screen' \in 0 .. MaxRenders
  BY <1>1, <1>2
<1>5. loading' \in [Page -> 0 .. MaxRenders]
  <2>1. \A q \in Page : loading'[q] \in 0 .. MaxRenders
    BY <1>1, <1>2, <1>3
  <2>2. QED
    BY <1>2, <2>1
<1>6. RenderingsInv'
  BY <1>1, <1>2, <1>3 DEF RenderingsInv
<1>7. QED
  BY <1>2, <1>4, <1>5, <1>6 DEF RenderTypes

\* One that finishes, or is given up, takes nothing.
LEMMA RenderingEnds ==
    ASSUME PosInv, NEW p \in Page, loading[p] > 0,
           loading' = [loading EXCEPT ![p] = @ - 1],
           UNCHANGED <<rendered, waiting, forms>>,
           shown' \in Page \cup {NoPage},
           screen' = screen \/ (p = Checkout /\ screen' = screen + 1)
    PROVE  RenderingsInv' /\ RenderTypes'
<1>1. /\ rendered \in Nat /\ screen \in Nat /\ MaxRenders \in Nat /\ Checkout \in Page
      /\ screen + loading[Checkout] <= rendered
      /\ \A q \in Page : loading[q] \in Nat /\ loading[q] <= rendered
      /\ Cardinality(waiting) \in Nat /\ Cardinality(forms) \in Nat
      /\ rendered + Cardinality(waiting) + Cardinality(forms) <= MaxRenders
      /\ IsFiniteSet(waiting) /\ IsFiniteSet(forms)
  BY Counted DEF PosInv, RenderingsInv
<1>2. loading \in [Page -> 0 .. MaxRenders] /\ rendered \in 0 .. MaxRenders
  BY DEF PosInv, TypeOK
<1>3. \A q \in Page : loading'[q] = IF q = p THEN loading[q] - 1 ELSE loading[q]
  BY <1>2
<1>4. \A q \in Page : loading'[q] \in Nat /\ loading'[q] <= loading[q]
  BY <1>1, <1>3
<1>5. screen' + loading'[Checkout] <= rendered
  BY <1>1, <1>3, <1>4
<1>6. screen' \in 0 .. MaxRenders
  BY <1>1, <1>4, <1>5
<1>7. loading' \in [Page -> 0 .. MaxRenders]
  <2>1. \A q \in Page : loading'[q] \in 0 .. MaxRenders
    BY <1>1, <1>2, <1>3
  <2>2. QED
    BY <1>2, <2>1
<1>8. RenderingsInv'
  BY <1>1, <1>4, <1>5 DEF RenderingsInv
<1>9. QED
  BY <1>2, <1>6, <1>7, <1>8 DEF RenderTypes

\* What is neither a rendering nor a form, nor a press, leaves the bound alone.
LEMMA RenderingsStay ==
    ASSUME PosInv, UNCHANGED <<shown, loading, rendered, forms, screen>>,
           IsFiniteSet(waiting'), Cardinality(waiting') <= Cardinality(waiting)
    PROVE  RenderingsInv' /\ RenderTypes'
<1>1. Cardinality(waiting') \in Nat
  BY FS_CardinalityType
<1>2. QED
  BY <1>1, Counted DEF PosInv, TypeOK, RenderingsInv, RenderTypes

-----------------------------------------------------------------------------
(***************************************************************************)
(* The menu, the forms and the session: they have nothing to do with carts *)
(* and presses, and none of them shows the checkout.                       *)
(***************************************************************************)

LEMMA ElsewhereKeeps ==
    ASSUME PosInv, UNCHANGED <<screen, cart, enabled, netVars>>,
           signedIn' \in BOOLEAN, page' \in Page, forms' \subseteq FormPage,
           shown' = Checkout => shown = Checkout,
           RenderingsInv', RenderTypes'
    PROVE  PosInv'
<1>1. UNCHANGED <<waiting, sent, answers, sales, presses, slips, told>>
  BY DEF netVars
<1>2. TypeOK'
  BY <1>1 DEF PosInv, TypeOK, RenderTypes
<1>3. PressesNumbered' /\ AnswersTrue' /\ SettledPresses' /\ ButtonInv' /\ PairsInv'
  BY <1>1
     DEF PosInv, PressesNumbered, Known, Answered, AnswersTrue, SettledPresses, Slipped,
         ButtonInv, PairsInv, Pending
<1>4. ScreensInv' /\ ButtonNotStuck'
  BY <1>1 DEF PosInv, ScreensInv, SoldCartGone, ButtonNotStuck, PressesOfScreen
<1>5. QED
  BY <1>2, <1>3, <1>4 DEF PosInv

LEMMA PageStepKeeps ==
    ASSUME PosInv, NEW p \in Page,
           \/ Logout \/ Login \/ Navigate(p) \/ FilterAppointments \/ AppointmentBooked
           \/ FinishPage(p) \/ AbortRender(p)
    PROVE  PosInv'
<1>1. /\ signedIn \in BOOLEAN /\ page \in Page /\ forms \subseteq FormPage
      /\ shown \in Page \cup {NoPage}
  BY DEF PosInv, TypeOK
<1>2. CASE Logout
  <2>1. /\ UNCHANGED <<page, shown, loading, rendered, forms, screen, cart, enabled, netVars>>
        /\ signedIn' \in BOOLEAN /\ waiting' = waiting
    BY <1>2 DEF Logout, netVars
  <2>2. RenderingsInv' /\ RenderTypes'
    BY <2>1, Counted, RenderingsStay
  <2>3. QED
    BY <1>1, <2>1, <2>2, ElsewhereKeeps
<1>3. CASE \/ Login \/ Navigate(p) \/ FilterAppointments \/ AppointmentBooked
  <2>1. PICK q \in Page : StartRender(q)
    BY <1>1, <1>3, Counted DEF Login, Navigate, FilterAppointments, AppointmentBooked
  <2>2. /\ Room
        /\ UNCHANGED <<forms, screen, cart, enabled, netVars>>
        /\ signedIn' \in BOOLEAN /\ page' \in Page
    BY <1>1, <1>3 DEF Login, Navigate, FilterAppointments, AppointmentBooked
  <2>3. waiting' = waiting /\ forms' = forms
    BY <2>2 DEF netVars
  <2>4. rendered + 1 + Cardinality(waiting') + Cardinality(forms') <= MaxRenders
    BY <2>2, <2>3, Counted DEF Room
  <2>5. RenderingsInv' /\ RenderTypes' /\ shown' = NoPage
    BY <2>1, <2>2, <2>3, <2>4, Counted, RenderingStarts
  <2>6. QED
    BY <1>1, <2>2, <2>3, <2>5, Counted, ElsewhereKeeps
<1>4. CASE FinishPage(p) \/ AbortRender(p)
  <2>1. /\ loading[p] > 0
        /\ loading' = [loading EXCEPT ![p] = @ - 1]
        /\ UNCHANGED <<page, rendered, forms, screen, cart, enabled, netVars>>
        /\ signedIn' \in BOOLEAN
        /\ shown' = shown \/ (shown' = p /\ p # Checkout)
    BY <1>1, <1>4 DEF FinishPage, AbortRender, MaySignOut
  <2>2. RenderingsInv' /\ RenderTypes'
    BY <1>1, <2>1, RenderingEnds DEF netVars
  <2>3. QED
    BY <1>1, <2>1, <2>2, ElsewhereKeeps
<1>5. QED
  BY <1>2, <1>3, <1>4

LEMMA FormKeeps ==
    ASSUME PosInv, NEW p \in FormPage, OpenForm(p) \/ CloseForm(p)
    PROVE  PosInv'
<1>1. /\ signedIn \in BOOLEAN /\ page \in Page /\ forms \subseteq FormPage
      /\ shown \in Page \cup {NoPage} /\ p \in Page
  BY Counted DEF PosInv, TypeOK
<1>2. /\ UNCHANGED <<page, screen, cart, enabled, netVars, waiting>>
      /\ signedIn' \in BOOLEAN
  BY <1>1 DEF OpenForm, CloseForm, MaySignOut, netVars
<1>3. CASE OpenForm(p)
  <2>1. /\ Room
        /\ forms' = forms \cup {p}
        /\ UNCHANGED <<shown, loading, rendered>>
    BY <1>3 DEF OpenForm
  <2>2. /\ IsFiniteSet(forms') /\ Cardinality(forms') \in Nat
        /\ Cardinality(forms') <= Cardinality(forms) + 1
    BY <2>1, Counted, OneMore
  <2>3. RenderingsInv' /\ RenderTypes'
    BY <1>2, <2>1, <2>2, Counted DEF Room, PosInv, TypeOK, RenderingsInv, RenderTypes
  <2>4. QED
    BY <1>1, <1>2, <2>1, <2>3, ElsewhereKeeps
<1>4. CASE CloseForm(p)
  <2>1. p \in forms /\ forms' = forms \ {p}
    BY <1>4 DEF CloseForm
  <2>2. /\ IsFiniteSet(forms') /\ Cardinality(forms') \in Nat
        /\ Cardinality(forms') = Cardinality(forms) - 1
    BY <2>1, Counted, OneLess
  <2>3. CASE StartRender(p)
    <3>1. rendered + 1 + Cardinality(waiting') + Cardinality(forms') <= MaxRenders
      BY <1>2, <2>2, Counted DEF PosInv, RenderingsInv
    <3>2. RenderingsInv' /\ RenderTypes' /\ shown' = NoPage
      BY <1>1, <1>2, <2>2, <2>3, <3>1, Counted, RenderingStarts
    <3>3. QED
      BY <1>1, <1>2, <2>1, <3>2, Counted, ElsewhereKeeps
  <2>4. CASE UNCHANGED <<shown, loading, rendered>>
    <3>1. RenderingsInv' /\ RenderTypes'
      BY <1>2, <2>2, <2>4, Counted DEF PosInv, TypeOK, RenderingsInv, RenderTypes
    <3>2. QED
      BY <1>1, <1>2, <2>1, <2>4, <3>1, ElsewhereKeeps
  <2>5. QED
    BY <1>4, <2>3, <2>4 DEF CloseForm
<1>5. QED
  BY <1>3, <1>4

-----------------------------------------------------------------------------
(***************************************************************************)
(* The checkout and its cart.                                              *)
(***************************************************************************)

\* A new screen is one no press is of and nothing was told of.
LEMMA FinishCheckoutKeeps ==
    ASSUME PosInv, FinishCheckout
    PROVE  PosInv'
<1>1. /\ shown' = Checkout /\ screen' = screen + 1 /\ cart' = {} /\ enabled' = FALSE
      /\ UNCHANGED <<signedIn, page, rendered, forms, waiting, sent, answers, sales,
                     presses, slips, told>>
  BY DEF FinishCheckout, netVars
<1>2. RenderingsInv' /\ RenderTypes'
  BY <1>1, Counted, RenderingEnds DEF FinishCheckout
<1>3. TypeOK'
  BY <1>1, <1>2 DEF PosInv, TypeOK, RenderTypes
<1>4. screen \in Nat /\ \A c \in Known : c.screen \in Nat
  BY Counted DEF PosInv, TypeOK, Known, Answered, Press
<1>5. PressesNumbered'
  BY <1>1, <1>4 DEF PosInv, PressesNumbered, Known, Answered
<1>6. AnswersTrue' /\ SettledPresses' /\ ButtonInv' /\ PairsInv' /\ ButtonNotStuck'
  BY <1>1
     DEF PosInv, AnswersTrue, SettledPresses, Slipped, ButtonInv, PairsInv, Pending,
         ButtonNotStuck
<1>7. ScreensInv'
  <2>1. \A s \in told : s \in Nat /\ 1 <= s /\ s <= screen
    BY DEF PosInv, TypeOK, ScreensInv
  <2>2. QED
    BY <1>1, <1>4, <2>1 DEF ScreensInv, SoldCartGone
<1>8. QED
  BY <1>2, <1>3, <1>5, <1>6, <1>7 DEF PosInv

\* A press that may have succeeded and is answered no more has slipped, unless
\* its screen is gone.
LEMMA PendingOfScreen ==
    ASSUME PosInv, shown = Checkout, NEW c \in Pending, c.screen = screen
    PROVE  c \in PressesOfScreen \/ Slipped(c)
BY DEF PosInv, SettledPresses, ScreensInv, SoldCartGone, Pending, PressesOfScreen

\* An edit offers the button, and marks the presses it is offered again for.
LEMMA EditKeeps ==
    ASSUME PosInv, NEW lines \in SUBSET Line, EditTo(lines)
    PROVE  PosInv'
<1>1. /\ shown = Checkout /\ cart' = lines /\ enabled' = (lines # {})
      /\ slips' = slips \cup PressesOfScreen
      /\ UNCHANGED <<signedIn, page, shown, loading, rendered, forms, screen,
                     waiting, sent, answers, sales, presses, told>>
  BY DEF EditTo, pageVars
<1>2. TypeOK'
  BY <1>1 DEF PosInv, TypeOK, PressesOfScreen
<1>3. PressesNumbered' /\ AnswersTrue'
  BY <1>1 DEF PosInv, PressesNumbered, AnswersTrue, Known, Answered, PressesOfScreen
<1>4. \A c : Slipped(c) => Slipped(c)'
  BY <1>1 DEF Slipped
<1>5. \A c \in PressesOfScreen : Slipped(c)'
  BY <1>1 DEF Slipped, PressesOfScreen, PosInv, TypeOK, Press
<1>6. ButtonInv'
  BY <1>1, <1>4, <1>5, PendingOfScreen DEF ButtonInv, Pending
<1>7. SettledPresses' /\ PairsInv'
  BY <1>1, <1>4 DEF PosInv, SettledPresses, PairsInv, Pending
<1>8. ScreensInv' /\ ButtonNotStuck'
  BY <1>1 DEF PosInv, ScreensInv, SoldCartGone, ButtonNotStuck
<1>9. RenderingsInv'
  BY <1>1 DEF PosInv, RenderingsInv
<1>10. QED
  BY <1>2, <1>3, <1>6, <1>7, <1>8, <1>9 DEF PosInv

\* The identity of a row of the staff list, if it has one.
LEMMA IdType ==
    /\ \A k \in DOMAIN StaffRows : IdOf(StaffRows[k]) \in Staff \cup {Undefined}
    /\ IdOf(Head(StaffRows)) \in Staff \cup {Undefined}
<1>1. \A k \in DOMAIN StaffRows : IdOf(StaffRows[k]) \in Staff \cup {Undefined}
  BY RowAssumption DEF IdOf
<1>2. Head(StaffRows) = StaffRows[1] /\ 1 \in DOMAIN StaffRows
  BY RowAssumption
<1>3. QED
  BY <1>1, <1>2

LEMMA CartKeeps ==
    ASSUME PosInv,
           \/ \E i \in Item : AddCartItem(i)
           \/ \E line \in cart : RemoveCartItem(line) \/ ChangeCartStylist(line)
    PROVE  PosInv'
<1>1. cart \subseteq Line
  BY DEF PosInv, TypeOK
<1>2. ASSUME NEW i \in Item, AddCartItem(i) PROVE PosInv'
  <2>1. cart \cup {[item |-> i, stylist |-> IdOf(Head(StaffRows))]} \in SUBSET Line
    BY <1>1, IdType DEF Line
  <2>2. QED
    BY <1>1, <1>2, <2>1, EditKeeps DEF AddCartItem
<1>3. ASSUME NEW line \in cart, RemoveCartItem(line) PROVE PosInv'
  BY <1>1, <1>3, EditKeeps DEF RemoveCartItem
<1>4. ASSUME NEW line \in cart, ChangeCartStylist(line) PROVE PosInv'
  <2>1. PICK k \in DOMAIN StaffRows :
            cart' = (cart \ {line}) \cup
                    {[item |-> line.item, stylist |-> IdOf(StaffRows[k])]}
    BY <1>4 DEF ChangeCartStylist
  <2>2. [item |-> line.item, stylist |-> IdOf(StaffRows[k])] \in Line
    BY <1>1, IdType DEF Line
  <2>3. cart' \subseteq Line
    BY <1>1, <2>1, <2>2
  <2>4. UNCHANGED <<signedIn, page, shown, loading, rendered, forms, screen, enabled,
                    waiting, sent, answers, sales, presses, slips, told>>
    BY <1>4 DEF ChangeCartStylist, pageVars, netVars
  <2>5. TypeOK'
    BY <2>3, <2>4 DEF PosInv, TypeOK
  <2>6. PressesNumbered' /\ AnswersTrue' /\ SettledPresses' /\ ButtonInv' /\ PairsInv'
    BY <2>4
       DEF PosInv, PressesNumbered, Known, Answered, AnswersTrue, SettledPresses, Slipped,
           ButtonInv, PairsInv, Pending
  <2>7. ScreensInv' /\ RenderingsInv'
    BY <2>4 DEF PosInv, ScreensInv, SoldCartGone, RenderingsInv
  <2>8. ButtonNotStuck'
    BY <2>4 DEF PosInv, ButtonNotStuck, PressesOfScreen
  <2>9. QED
    BY <2>5, <2>6, <2>7, <2>8 DEF PosInv
<1>5. QED
  BY <1>2, <1>3, <1>4

-----------------------------------------------------------------------------
(***************************************************************************)
(* Presses and their answers.                                              *)
(***************************************************************************)

\* The button is only pressed when every earlier press of the screen that may
\* succeed has slipped.
LEMMA SubmitKeeps ==
    ASSUME PosInv, Submit
    PROVE  PosInv'
<1> DEFINE press == [n |-> presses + 1, screen |-> screen, cart |-> cart]
<1>1. /\ shown = Checkout /\ enabled /\ presses < MaxPresses /\ Room
      /\ presses' = presses + 1 /\ enabled' = FALSE
      /\ waiting' = waiting \cup {press} /\ sent' = sent \cup {press}
      /\ UNCHANGED <<signedIn, page, shown, loading, rendered, forms, screen, cart,
                     answers, sales, slips, told>>
  BY DEF Submit, pageVars
<1>2. /\ press \in Press /\ presses + 1 \in 0 .. MaxPresses
      /\ press.n = presses + 1 /\ press.screen = screen
  BY <1>1, Counted, ScreenAssumption DEF PosInv, TypeOK, Press
<1> HIDE DEF press
<1>3. presses \in Nat /\ \A c \in Known : c \in Press /\ c.n \in Nat /\ c.n <= presses
  BY DEF PosInv, TypeOK, PressesNumbered, Known, Answered, Press
<1>4. press \notin Known
  BY <1>2, <1>3
<1>5. TypeOK'
  BY <1>1, <1>2 DEF PosInv, TypeOK
<1>6. Known' = Known \cup {press}
  BY <1>1 DEF Known, Answered
<1>7. PressesNumbered'
  <2>1. 1 <= screen /\ screen <= screen
    BY <1>1, Counted DEF PosInv, ScreensInv
  <2>2. \A c \in Known : c.n <= presses + 1 /\ c.n # presses + 1
    BY <1>3
  <2>3. presses + 1 <= presses + 1
    BY <1>3
  <2>4. QED
    BY <1>1, <1>2, <1>6, <2>1, <2>2, <2>3 DEF PosInv, PressesNumbered
<1>8. AnswersTrue'
  BY <1>1, <1>4 DEF PosInv, AnswersTrue, Known, Answered
<1>9. \A c : Slipped(c)' <=> Slipped(c)
  BY <1>1 DEF Slipped
<1>10. SettledPresses' /\ ButtonInv'
  BY <1>1, <1>9 DEF PosInv, SettledPresses, ButtonInv
<1>11. PairsInv'
  <2> SUFFICES ASSUME NEW c \in Pending', NEW d \in Pending',
                      c.screen = d.screen, c.n < d.n
               PROVE  Slipped(c)
    BY <1>9 DEF PairsInv
  <2>1. Pending' = Pending \cup {press} /\ Pending \subseteq Known
    BY <1>1 DEF Pending, Known
  <2>2. c # press
    BY <1>2, <1>3, <2>1
  <2>3. QED
    BY <1>1, <1>2, <2>1, <2>2 DEF PosInv, PairsInv, ButtonInv
<1>12. ScreensInv'
  BY <1>1 DEF PosInv, ScreensInv, SoldCartGone
<1>13. ButtonNotStuck'
  BY <1>1, <1>2 DEF ButtonNotStuck, PressesOfScreen
<1>14. RenderingsInv'
  BY <1>1, Counted, OneMore DEF PosInv, RenderingsInv, Room
<1>15. QED
  BY <1>5, <1>7, <1>8, <1>10, <1>11, <1>12, <1>13, <1>14 DEF PosInv

\* What a step of the network alone must keep.
LEMMA NetworkKeeps ==
    ASSUME PosInv, UNCHANGED <<pageVars, cart, enabled, waiting, presses, slips, told>>,
           sent' \subseteq sent, sales' \subseteq sales \cup sent,
           Answered' \subseteq Answered \cup sent,
           TypeOK', AnswersTrue'
    PROVE  PosInv'
<1>1. /\ Known' \subseteq Known /\ Pending' \subseteq Pending
      /\ \A c : Slipped(c)' <=> Slipped(c)
  BY DEF Known, Pending, Slipped
<1>2. UNCHANGED <<signedIn, page, shown, loading, rendered, forms, screen>>
  BY DEF pageVars
<1>3. PressesNumbered' /\ SettledPresses' /\ ButtonInv' /\ PairsInv'
  BY <1>1, <1>2 DEF PosInv, PressesNumbered, SettledPresses, ButtonInv, PairsInv
<1>4. ScreensInv' /\ ButtonNotStuck' /\ RenderingsInv'
  BY <1>2
     DEF PosInv, ScreensInv, SoldCartGone, ButtonNotStuck, PressesOfScreen, RenderingsInv
<1>5. QED
  BY <1>3, <1>4 DEF PosInv

\* A request is booked and accepted, or refused.
LEMMA ServeKeeps ==
    ASSUME PosInv, NEW c \in sent, Serve(c)
    PROVE  PosInv'
<1>1. PICK ok \in BOOLEAN :
         /\ answers' = answers \cup {[press |-> c, ok |-> ok]}
         /\ sales' = IF ok THEN sales \cup {c} ELSE sales
  BY DEF Serve
<1>2. /\ sent' = sent \ {c}
      /\ UNCHANGED <<pageVars, cart, enabled, waiting, presses, slips, told>>
  BY DEF Serve
<1>3. c \in Press /\ [press |-> c, ok |-> ok] \in [press : Press, ok : BOOLEAN]
  BY DEF PosInv, TypeOK
<1>4. TypeOK'
  BY <1>1, <1>2, <1>3 DEF PosInv, TypeOK, pageVars
<1>5. AnswersTrue'
  <2>1. \A a \in answers : a.press # c
    BY DEF PosInv, AnswersTrue
  <2>2. c \notin sales
    BY DEF PosInv, AnswersTrue
  <2>3. QED
    BY <1>1, <1>2, <2>1, <2>2 DEF PosInv, AnswersTrue
<1>6. Answered' \subseteq Answered \cup sent /\ sales' \subseteq sales \cup sent
  BY <1>1 DEF Answered
<1>7. QED
  BY <1>2, <1>4, <1>5, <1>6, NetworkKeeps

LEMMA LoseKeeps ==
    ASSUME PosInv, NEW c \in sent, Lose(c)
    PROVE  PosInv'
<1>1. /\ sent' = sent \ {c}
      /\ UNCHANGED <<pageVars, cart, enabled, waiting, answers, sales, presses, slips, told>>
  BY DEF Lose
<1>2. TypeOK' /\ AnswersTrue'
  BY <1>1 DEF PosInv, TypeOK, AnswersTrue, pageVars
<1>3. QED
  BY <1>1, <1>2, NetworkKeeps DEF Answered

\* A press that failed gives its screen's button back.  It may succeed no
\* longer, or its answer is lost; and of every other press of the screen that
\* may succeed, one of the two was pressed first.
LEMMA FailKeeps ==
    ASSUME PosInv, NEW c \in waiting,
           waiting' = waiting \ {c}, answers' \subseteq answers,
           FailedPress(c), signedIn' \in BOOLEAN,
           UNCHANGED <<cart, sent, sales, presses>>,
           \/ slips' = slips /\ c \notin sent \cup sales
           \/ slips' = slips \cup {c}
    PROVE  PosInv'
<1>1. /\ enabled' = (enabled \/ c.screen = screen)
      /\ UNCHANGED <<page, shown, loading, rendered, forms, screen, told>>
  BY DEF FailedPress
<1>2. c \in Press /\ c \in Known /\ c \in Pending
  BY DEF PosInv, TypeOK, Known, Pending
<1>3. TypeOK'
  BY <1>1, <1>2 DEF PosInv, TypeOK
<1>4. Known' \subseteq Known /\ Pending' \subseteq Pending
  BY <1>2 DEF Known, Pending, Answered
<1>5. PressesNumbered' /\ AnswersTrue'
  BY <1>1, <1>4 DEF PosInv, PressesNumbered, AnswersTrue
<1>6. \A d : Slipped(d) => Slipped(d)'
  BY DEF Slipped
<1>7. c \in Pending' => Slipped(c)'
  BY <1>2 DEF Pending, Slipped, Press
<1>8. SettledPresses'
  BY <1>1, <1>6, <1>7 DEF PosInv, SettledPresses, Pending
<1>9. PairsInv'
  BY <1>4, <1>6 DEF PosInv, PairsInv
<1>10. ButtonInv'
  <2> SUFFICES ASSUME NEW d \in Pending', d.screen = screen, enabled'
               PROVE  Slipped(d)'
    BY <1>1 DEF ButtonInv
  <2>1. d \in Pending /\ d \in Known /\ d \in Press
    BY <1>4 DEF Pending, Known, PosInv, TypeOK
  <2>2. CASE enabled
    BY <1>6, <2>1, <2>2 DEF PosInv, ButtonInv
  <2>3. CASE c.screen = screen /\ d = c
    BY <1>7, <2>3
  <2>4. CASE c.screen = screen /\ d # c
    <3>1. c.n \in Nat /\ d.n \in Nat /\ c.n # d.n
      BY <1>2, <2>1, <2>4 DEF PosInv, PressesNumbered, Press
    <3>2. CASE d.n < c.n
      BY <1>2, <1>6, <2>1, <2>4, <3>2 DEF PosInv, PairsInv
    <3>3. CASE c.n < d.n
      <4>1. Slipped(c)
        BY <1>2, <2>1, <2>4, <3>3 DEF PosInv, PairsInv
      <4>2. \A e \in slips : e.n \in Nat
        BY DEF PosInv, TypeOK, Press
      <4>3. Slipped(d)
        BY <2>4, <3>1, <3>3, <4>1, <4>2 DEF Slipped
      <4>4. QED
        BY <1>6, <4>3
    <3>4. QED
      BY <3>1, <3>2, <3>3
  <2>5. QED
    BY <1>1, <2>2, <2>3, <2>4
<1>11. ScreensInv'
  BY <1>1 DEF PosInv, ScreensInv, SoldCartGone
<1>12. ButtonNotStuck'
  BY <1>1 DEF PosInv, ButtonNotStuck, PressesOfScreen
<1>13. RenderingsInv'
  <2>1. /\ IsFiniteSet(waiting') /\ Cardinality(waiting') <= Cardinality(waiting)
        /\ UNCHANGED <<shown, loading, rendered, forms, screen>>
    <3>1. /\ IsFiniteSet(waiting \ {c}) /\ Cardinality(waiting \ {c}) \in Nat
          /\ Cardinality(waiting \ {c}) = Cardinality(waiting) - 1
      BY Counted, OneLess
    <3>2. QED
      BY <1>1, <3>1, Counted
  <2>2. QED
    BY <2>1, RenderingsStay
<1>14. QED
  BY <1>3, <1>5, <1>8, <1>9, <1>10, <1>11, <1>12, <1>13 DEF PosInv

\* A success takes the screen away, with its cart and its button.
LEMMA SucceedKeeps ==
    ASSUME PosInv, NEW a \in answers, a.press \in waiting, a.ok, Succeed(a.press),
           answers' = answers \ {a}, waiting' = waiting \ {a.press},
           UNCHANGED <<cart, sent, sales, presses, slips>>
    PROVE  PosInv'
<1> DEFINE c == a.press
<1>1. /\ told' = told \cup {c.screen} /\ StartRender(Checkout)
      /\ UNCHANGED <<signedIn, page, forms, screen, enabled>>
  BY DEF Succeed
<1>2. c \in Press /\ c \in Known /\ c \in sales /\ c \notin sent
  BY DEF PosInv, TypeOK, Known, AnswersTrue
<1>3. c.screen \in Nat /\ 1 <= c.screen /\ c.screen <= screen
  BY <1>2 DEF PosInv, PressesNumbered, Press
<1>4. /\ IsFiniteSet(waiting') /\ Cardinality(waiting') \in Nat
      /\ Cardinality(waiting') = Cardinality(waiting) - 1
  BY Counted, OneLess
<1>5. rendered + 1 + Cardinality(waiting') + Cardinality(forms') <= MaxRenders
  BY <1>1, <1>4, Counted DEF PosInv, RenderingsInv
<1> HIDE DEF c
<1>6. RenderingsInv' /\ RenderTypes' /\ shown' = NoPage
  BY <1>1, <1>4, <1>5, Counted, RenderingStarts
<1>7. TypeOK'
  <2>1. c.screen \in 1 .. MaxRenders
    BY <1>3, Counted DEF PosInv, TypeOK
  <2>2. QED
    BY <1>1, <1>6, <2>1 DEF PosInv, TypeOK, RenderTypes
<1>8. Known' \subseteq Known /\ Pending' \subseteq Pending /\ (\A d : Slipped(d)' <=> Slipped(d))
  BY DEF Known, Pending, Answered, Slipped
<1>9. PressesNumbered' /\ AnswersTrue' /\ PairsInv'
  BY <1>1, <1>8 DEF PosInv, PressesNumbered, AnswersTrue, PairsInv
<1>10. ButtonInv'
  BY <1>1, <1>8 DEF PosInv, ButtonInv
<1>11. SettledPresses'
  BY <1>1, <1>8 DEF PosInv, SettledPresses, c
<1>12. ScreensInv' /\ ButtonNotStuck'
  BY <1>1, <1>3, <1>6, Counted DEF PosInv, ScreensInv, SoldCartGone, ButtonNotStuck
<1>13. QED
  BY <1>6, <1>7, <1>9, <1>10, <1>11, <1>12 DEF PosInv

LEMMA DeliverKeeps ==
    ASSUME PosInv, NEW a \in answers, Deliver(a)
    PROVE  PosInv'
<1>1. /\ answers' = answers \ {a} /\ waiting' = waiting \ {a.press}
      /\ UNCHANGED <<cart, sent, sales, presses, slips>>
  BY DEF Deliver
<1>2. CASE a.press \in waiting /\ a.ok /\ Succeed(a.press)
  BY <1>1, <1>2, SucceedKeeps
<1>3. CASE a.press \in waiting /\ ~a.ok /\ FailedPress(a.press) /\ MaySignOut
  <2>1. a.press \notin sent \cup sales
    BY <1>3 DEF PosInv, AnswersTrue
  <2>2. signedIn' \in BOOLEAN
    BY <1>3 DEF MaySignOut, PosInv, TypeOK
  <2>3. QED
    BY <1>1, <1>3, <2>1, <2>2, FailKeeps
<1>4. CASE a.press \notin waiting /\ UNCHANGED <<pageVars, enabled, told>>
  <2>1. waiting' = waiting /\ Answered' \subseteq Answered
    BY <1>1, <1>4 DEF Answered
  <2>2. TypeOK' /\ AnswersTrue'
    BY <1>1, <1>4, <2>1 DEF PosInv, TypeOK, AnswersTrue, pageVars
  <2>3. QED
    BY <1>1, <1>4, <2>1, <2>2, NetworkKeeps
<1>5. QED
  BY <1>2, <1>3, <1>4 DEF Deliver

LEMMA NetworkErrorKeeps ==
    ASSUME PosInv, NEW c \in waiting, NetworkError(c)
    PROVE  PosInv'
BY FailKeeps DEF NetworkError, PosInv, TypeOK

-----------------------------------------------------------------------------
(***************************************************************************)
(* Theorems                                                                *)
(***************************************************************************)

LEMMA PosInit == Init => PosInv
<1> SUFFICES ASSUME Init PROVE PosInv
  OBVIOUS
<1>1. /\ Dashboard \in Page /\ Checkout \in Page /\ NoPage \notin Page
      /\ MaxRenders \in Nat \ {0} /\ MaxPresses \in Nat
  BY ScreenAssumption
<1>2. TypeOK
  <2>1. 0 \in 0 .. MaxRenders /\ 1 \in 0 .. MaxRenders /\ 0 \in 0 .. MaxPresses
    BY <1>1
  <2>2. loading \in [Page -> 0 .. MaxRenders]
    BY <2>1 DEF Init
  <2>3. QED
    BY <1>1, <2>1, <2>2 DEF Init, TypeOK
<1>3. PressesNumbered /\ AnswersTrue /\ SettledPresses /\ ButtonInv /\ PairsInv
  BY DEF Init, PressesNumbered, Known, Answered, AnswersTrue, SettledPresses, ButtonInv,
         PairsInv, Pending
<1>4. ScreensInv /\ ButtonNotStuck
  BY <1>1 DEF Init, ScreensInv, SoldCartGone, ButtonNotStuck
<1>5. RenderingsInv
  BY <1>1, FS_EmptySet DEF Init, RenderingsInv
<1>6. QED
  BY <1>2, <1>3, <1>4, <1>5 DEF PosInv

LEMMA PosNext == PosInv /\ [Next]_vars => PosInv'
<1> SUFFICES ASSUME PosInv, [Next]_vars PROVE PosInv'
  OBVIOUS
<1>1. CASE Next
  <2>1. Dashboard \in Page
    BY ScreenAssumption
  <2>2. QED
    BY <1>1, <2>1, PageStepKeeps, FormKeeps, FinishCheckoutKeeps, CartKeeps, SubmitKeeps,
       ServeKeeps, LoseKeeps, DeliverKeeps, NetworkErrorKeeps
       DEF Next
<1>2. CASE UNCHANGED vars
  <2>1. UNCHANGED <<signedIn, page, shown, loading, rendered, forms, screen, cart, enabled,
                    netVars>>
    BY <1>2 DEF vars, pageVars
  <2>2. waiting' = waiting
    BY <2>1 DEF netVars
  <2>3. RenderingsInv' /\ RenderTypes'
    BY <2>1, <2>2, Counted, RenderingsStay
  <2>4. QED
    BY <2>1, <2>3, ElsewhereKeeps DEF PosInv, TypeOK
<1>3. QED
  BY <1>1, <1>2

LEMMA AlwaysPosInv == Spec => []PosInv
BY PosInit, PosNext, PTL DEF Spec

\* The screen, the cart and the presses keep their types, and no answer starts
\* a rendering beyond the bound.
THEOREM TypeCorrect == Spec => []TypeOK
<1>1. PosInv => TypeOK
  BY DEF PosInv
<1>2. QED
  BY <1>1, AlwaysPosInv, PTL

\* Without an edited cart or a lost answer no cart is sold twice.
THEOREM NoRepeat == Spec => []RepeatNeedsSlip
<1>1. PosInv => RepeatNeedsSlip
  BY DEF PosInv, PairsInv, Pending, Slipped, RepeatNeedsSlip
<1>2. QED
  BY <1>1, AlwaysPosInv, PTL

\* A screen whose sale was announced never comes back.
THEOREM SoldGone == Spec => []SoldCartGone
<1>1. PosInv => SoldCartGone
  BY DEF PosInv, ScreensInv
<1>2. QED
  BY <1>1, AlwaysPosInv, PTL

\* The button of a filled cart is only disabled while an answer is awaited.
THEOREM NotStuck == Spec => []ButtonNotStuck
<1>1. PosInv => ButtonNotStuck
  BY DEF PosInv
<1>2. QED
  BY <1>1, AlwaysPosInv, PTL
=============================================================================
