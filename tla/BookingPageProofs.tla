--------------------------- MODULE BookingPageProofs --------------------------
(***************************************************************************)
(* Proofs about BookingPage, for every set of browsers, stylists and times *)
(* and any number of presses.                                              *)
(***************************************************************************)
EXTENDS BookingPage, TLAPS

(***************************************************************************)
(* What makes a confirmation true.  A page waits for its last request or   *)
(* for none, so that an answer to an earlier one is no answer to it; and   *)
(* an acceptance on its way is that of a booking that was made.            *)
(***************************************************************************)

WaitsForLast ==
    \A p \in Page : waiting[p] # NoRequest =>
        waiting[p].page = p /\ waiting[p].try = tries[p]

AcceptancesTrue == \A a \in answers : a.result = "booked" => a.request \in booked

PageInv == TypeOK /\ WaitsForLast /\ AcceptancesTrue /\ ConfirmedIsBooked

\* The head of a list of stylists that is not empty is one of them.
LEMMA StaffForType ==
    ASSUME NEW asked \in Stylist \cup {FirstAvailable},
           asked = FirstAvailable => StaffList # <<>>
    PROVE  StaffFor(asked) \in Stylist
BY PageAssumption DEF StaffFor

LEMMA PageInit == Init => PageInv
BY PageAssumption
   DEF Init, Unchosen, PageInv, TypeOK, Choice, WaitsForLast, AcceptancesTrue,
       ConfirmedIsBooked

\* A press sends the request it waits for, of a page that shows no confirmation.
LEMMA SubmitKeeps ==
    ASSUME PageInv, NEW p \in Page, Submit(p)
    PROVE  PageInv'
<1> DEFINE request == [page |-> p, try |-> tries[p] + 1,
                       staff |-> StaffFor(choice[p].staff), slot |-> choice[p].slot]
<1>1. /\ request \in Request
      /\ tries[p] + 1 \in 0 .. MaxTries
  <2>1. choice[p] \in Choice /\ tries[p] \in 0 .. MaxTries /\ tries[p] < MaxTries
    BY DEF PageInv, TypeOK, Submit
  <2>2. /\ StaffFor(choice[p].staff) \in Stylist
        /\ choice[p].slot \in Slot
    BY <2>1, StaffForType DEF Submit, Choice
  <2>3. QED
    BY <2>1, <2>2, PageAssumption DEF Request
<1>2. /\ waiting' = [waiting EXCEPT ![p] = request]
      /\ sent' = sent \cup {request}
      /\ tries' = [tries EXCEPT ![p] = tries[p] + 1]
      /\ enabled' = [enabled EXCEPT ![p] = FALSE]
      /\ panel[p] = "form"
      /\ UNCHANGED <<panel, choice, answers, booked>>
  BY DEF Submit
<1>3. request.page = p /\ request.try = tries[p] + 1
  OBVIOUS
<1> HIDE DEF request
<1>4. TypeOK'
  BY <1>1, <1>2 DEF PageInv, TypeOK
<1>5. WaitsForLast'
  BY <1>2, <1>3 DEF PageInv, TypeOK, WaitsForLast
<1>6. AcceptancesTrue' /\ ConfirmedIsBooked'
  BY <1>2 DEF PageInv, TypeOK, AcceptancesTrue, ConfirmedIsBooked
<1>7. QED
  BY <1>4, <1>5, <1>6 DEF PageInv

\* The server's answer is true when it is given, and stays true: bookings of
\* the page are never undone.
LEMMA ServeKeeps ==
    ASSUME PageInv, NEW r \in sent, Serve(r)
    PROVE  PageInv'
<1>1. /\ booked \subseteq booked' /\ booked' \subseteq booked \cup {r}
      /\ sent' \subseteq sent
      /\ UNCHANGED pageVars
  BY DEF Serve
<1>2. PICK result \in {"booked", "taken", "locked"} :
         /\ answers' = answers \cup {[request |-> r, result |-> result]}
         /\ result = "booked" => r \in booked'
  BY DEF Serve
<1>3. TypeOK'
  BY <1>1, <1>2 DEF PageInv, TypeOK, pageVars
<1>4. AcceptancesTrue'
  BY <1>1, <1>2 DEF PageInv, AcceptancesTrue
<1>5. WaitsForLast' /\ ConfirmedIsBooked'
  BY <1>1 DEF PageInv, WaitsForLast, ConfirmedIsBooked, pageVars
<1>6. QED
  BY <1>3, <1>4, <1>5 DEF PageInv

\* An answer confirms only the request the page waits for.
LEMMA DeliverKeeps ==
    ASSUME PageInv, NEW a \in answers, Deliver(a)
    PROVE  PageInv'
<1>1. /\ a.request \in Request /\ a.request.page \in Page
      /\ a.result = "booked" => a.request \in booked
  BY DEF PageInv, TypeOK, AcceptancesTrue, Request
<1>2. answers' \subseteq answers /\ UNCHANGED <<choice, tries, sent, booked>>
  BY DEF Deliver
<1>3. CASE /\ waiting[a.request.page] = a.request
           /\ Answered(a.request.page, a)
           /\ waiting' = [waiting EXCEPT ![a.request.page] = NoRequest]
  <2>1. a.request.try = tries[a.request.page]
    BY <1>1, <1>3, NothingAssumption DEF PageInv, WaitsForLast
  <2>2. \/ /\ a.request \in booked
           /\ panel' = [panel EXCEPT ![a.request.page] = "confirmed"]
           /\ UNCHANGED enabled
        \/ /\ enabled' = [enabled EXCEPT ![a.request.page] = TRUE]
           /\ UNCHANGED panel
    BY <1>1, <1>3 DEF Answered
  <2>3. TypeOK'
    BY <1>1, <1>2, <1>3, <2>2 DEF PageInv, TypeOK
  <2>4. WaitsForLast' /\ AcceptancesTrue'
    BY <1>1, <1>2, <1>3 DEF PageInv, TypeOK, WaitsForLast, AcceptancesTrue
  <2>5. ConfirmedIsBooked'
    BY <1>1, <1>2, <2>1, <2>2 DEF PageInv, TypeOK, ConfirmedIsBooked
  <2>6. QED
    BY <2>3, <2>4, <2>5 DEF PageInv
<1>4. CASE UNCHANGED <<panel, enabled, waiting>>
  BY <1>2, <1>4
     DEF PageInv, TypeOK, WaitsForLast, AcceptancesTrue, ConfirmedIsBooked
<1>5. QED
  BY <1>3, <1>4 DEF Deliver

\* The steps that neither send, serve nor answer.
LEMMA OthersKeep ==
    ASSUME PageInv,
           \/ \E p \in Page : Choose(p) \/ NetworkError(p) \/ ResetForm(p)
           \/ \E r \in sent : Lose(r)
           \/ UNCHANGED vars
    PROVE  PageInv'
<1> USE DEF PageInv, TypeOK, WaitsForLast, AcceptancesTrue, ConfirmedIsBooked
<1>1. ASSUME NEW p \in Page, Choose(p) PROVE PageInv'
  BY <1>1 DEF Choose, Choice
<1>2. ASSUME NEW p \in Page, NetworkError(p) PROVE PageInv'
  BY <1>2 DEF NetworkError
<1>3. ASSUME NEW p \in Page, ResetForm(p) PROVE PageInv'
  BY <1>3 DEF ResetForm, Unchosen, Choice
<1>4. ASSUME NEW r \in sent, Lose(r) PROVE PageInv'
  BY <1>4 DEF Lose, pageVars
<1>5. CASE UNCHANGED vars
  BY <1>5 DEF vars, pageVars
<1>6. QED
  BY <1>1, <1>2, <1>3, <1>4, <1>5

LEMMA PageNext == PageInv /\ [Next]_vars => PageInv'
BY SubmitKeeps, ServeKeeps, DeliverKeeps, OthersKeep DEF Next

LEMMA AlwaysPageInv == Spec => []PageInv
BY PageInit, PageNext, PTL DEF Spec
-----------------------------------------------------------------------------
\* The pages, the network and the bookings keep their types: in particular
\* "First available" never reaches the server as a stylist.
THEOREM TypeCorrect == Spec => []TypeOK
<1>1. PageInv => TypeOK
  BY DEF PageInv
<1>2. QED
  BY <1>1, AlwaysPageInv, PTL

\* No refusal, and no late answer to an earlier try, confirms a booking.
THEOREM Confirmed == Spec => []ConfirmedIsBooked
<1>1. PageInv => ConfirmedIsBooked
  BY DEF PageInv
<1>2. QED
  BY <1>1, AlwaysPageInv, PTL
=============================================================================
