---------------------------- MODULE BookingPage -----------------------------
(***************************************************************************)
(* The public booking page, book.html, in several browsers at once, over a *)
(* network that loses and delays.  The server's side of a booking is one   *)
(* step here: Appointments shows that createAppointment behaves as one.    *)
(*                                                                         *)
(* submitForm awaits its fetch: between the press and the answer the       *)
(* visitor can still change every field but press the button.              *)
(***************************************************************************)
EXTENDS Naturals, Sequences, FiniteSets

CONSTANTS
    Page,           \* browsers
    Stylist,
    FirstAvailable, \* the choice a visitor makes who names no stylist
    StaffList,      \* what loadStaff returned
    Slot,           \* the times a visitor may choose, on one day
    Clashing,       \* <<s, t>>: a service at s is not over when one at t starts,
                    \*   nor the other way round; a long one fills several
    NoSlot, NoRequest,
    MaxTries        \* bound: presses of the button per page

ASSUME PageAssumption ==
    /\ StaffList \in Seq(Stylist)
    /\ FirstAvailable \notin Stylist
    /\ NoSlot \notin Slot
    /\ Clashing \subseteq Slot \X Slot
    /\ MaxTries \in Nat

Choice == [staff : Stylist \cup {FirstAvailable}, slot : Slot \cup {NoSlot}]
Request == [page : Page, try : 1 .. MaxTries, staff : Stylist, slot : Slot]

ASSUME NothingAssumption == NoRequest \notin Request

VARIABLES
    panel,      \* what each page shows: the form or the confirmation
    enabled,    \* whether its button can be pressed
    choice,     \* state.staffId and state.time
    waiting,    \* the request its submitForm awaits
    tries,
    sent,       \* requests on their way to the server
    answers,    \* answers on their way back
    booked      \* the bookings the server has made

pageVars == <<panel, enabled, choice, waiting, tries>>
vars == <<pageVars, sent, answers, booked>>

Unchosen == [staff |-> FirstAvailable, slot |-> NoSlot]

Init ==
    /\ panel = [p \in Page |-> "form"]
    /\ enabled = [p \in Page |-> TRUE]
    /\ choice = [p \in Page |-> Unchosen]
    /\ waiting = [p \in Page |-> NoRequest]
    /\ tries = [p \in Page |-> 0]
    /\ sent = {}
    /\ answers = {}
    /\ booked = {}
-----------------------------------------------------------------------------
\* The chips of stylists and times, which stay live while a request is sent.
Choose(p) ==
    /\ panel[p] = "form"
    /\ \E staff \in Stylist \cup {FirstAvailable}, slot \in Slot :
          choice' = [choice EXCEPT ![p] = [staff |-> staff, slot |-> slot]]
    /\ UNCHANGED <<panel, enabled, waiting, tries, sent, answers, booked>>

\* A mistake to compare with: "First available" is sent as it was chosen.
StaffAsChosen(asked) == asked

\* Whom the request names: the head of the list for "First available".
StaffFor(asked) == IF asked = FirstAvailable THEN Head(StaffList) ELSE asked

\* submitForm up to its fetch.  Without a time, or a stylist to name, it shows
\* an error and nothing changes.
Submit(p) ==
    LET c == choice[p]
        request == [page |-> p, try |-> tries[p] + 1,
                    staff |-> StaffFor(c.staff), slot |-> c.slot] IN
    /\ panel[p] = "form"
    /\ enabled[p]
    /\ c.slot # NoSlot
    /\ c.staff = FirstAvailable => StaffList # <<>>
    /\ tries[p] < MaxTries
    /\ enabled' = [enabled EXCEPT ![p] = FALSE]
    /\ tries' = [tries EXCEPT ![p] = @ + 1]
    /\ waiting' = [waiting EXCEPT ![p] = request]
    /\ sent' = sent \cup {request}
    /\ UNCHANGED <<panel, choice, answers, booked>>

Taken(staff, slot) == \E b \in booked : b.staff = staff /\ <<b.slot, slot>> \in Clashing

\* createAppointment.  A request may also be refused because the database is
\* locked.
Serve(r) ==
    /\ sent' = sent \ {r}
    /\ \/ /\ Taken(r.staff, r.slot)
          /\ answers' = answers \cup {[request |-> r, result |-> "taken"]}
          /\ UNCHANGED booked
       \/ /\ ~Taken(r.staff, r.slot)
          /\ answers' = answers \cup {[request |-> r, result |-> "booked"]}
          /\ booked' = booked \cup {r}
       \/ /\ answers' = answers \cup {[request |-> r, result |-> "locked"]}
          /\ UNCHANGED booked
    /\ UNCHANGED pageVars

\* A mistake to compare with: res.ok not looked at.
AnsweredAlways(p, a) ==
    /\ panel' = [panel EXCEPT ![p] = "confirmed"]
    /\ UNCHANGED enabled

\* submitForm after its await.  What the confirmation says is left out; the
\* button of an accepted booking is left as it is.
Answered(p, a) ==
    \/ /\ a.result = "booked"
       /\ panel' = [panel EXCEPT ![p] = "confirmed"]
       /\ UNCHANGED enabled
    \/ /\ a.result # "booked"
       /\ enabled' = [enabled EXCEPT ![p] = TRUE]
       /\ UNCHANGED panel

Deliver(a) ==
    LET p == a.request.page IN
    /\ answers' = answers \ {a}
    /\ \/ /\ waiting[p] = a.request
          /\ Answered(p, a)
          /\ waiting' = [waiting EXCEPT ![p] = NoRequest]
       \/ /\ waiting[p] # a.request     \* given up as a network error
          /\ UNCHANGED <<panel, enabled, waiting>>
    /\ UNCHANGED <<choice, tries, sent, booked>>

\* A mistake to compare with: the catch leaves the button as it is.
NetworkErrorShown(p) ==
    /\ waiting[p] # NoRequest
    /\ waiting' = [waiting EXCEPT ![p] = NoRequest]
    /\ UNCHANGED <<panel, enabled, choice, tries, sent, answers, booked>>

\* fetch rejects: the request may be lost, on its way, or served already.
NetworkError(p) ==
    /\ waiting[p] # NoRequest
    /\ waiting' = [waiting EXCEPT ![p] = NoRequest]
    /\ enabled' = [enabled EXCEPT ![p] = TRUE]
    /\ UNCHANGED <<panel, choice, tries, sent, answers, booked>>

\* The network drops a request.
Lose(r) ==
    /\ sent' = sent \ {r}
    /\ UNCHANGED <<pageVars, answers, booked>>

\* resetForm, the "Book another" button.
ResetForm(p) ==
    /\ panel[p] = "confirmed"
    /\ panel' = [panel EXCEPT ![p] = "form"]
    /\ choice' = [choice EXCEPT ![p] = Unchosen]
    /\ UNCHANGED <<enabled, waiting, tries, sent, answers, booked>>
-----------------------------------------------------------------------------
Next ==
    \/ \E p \in Page : Choose(p) \/ Submit(p) \/ NetworkError(p) \/ ResetForm(p)
    \/ \E r \in sent : Serve(r) \/ Lose(r)
    \/ \E a \in answers : Deliver(a)

Spec == Init /\ [][Next]_vars

(***************************************************************************)
(* A browser that hears nothing reports a network error in the end.        *)
(* Nothing is assumed of the network, the server or the visitor.           *)
(***************************************************************************)
FairSpec == Spec /\ \A p \in Page : WF_vars(NetworkError(p))
-----------------------------------------------------------------------------
(***************************************************************************)
(* Properties                                                              *)
(***************************************************************************)

\* The types of the pages' state, of the network and of the bookings.
TypeOK ==
    /\ panel \in [Page -> {"form", "confirmed"}]
    /\ enabled \in [Page -> BOOLEAN]
    /\ choice \in [Page -> Choice]
    /\ waiting \in [Page -> Request \cup {NoRequest}]
    /\ tries \in [Page -> 0 .. MaxTries]
    /\ sent \subseteq Request
    /\ answers \subseteq [request : Request, result : {"booked", "taken", "locked"}]
    /\ booked \subseteq Request

\* A visitor who sees the confirmation has the booking of the last request:
\* neither a refusal nor a late answer to an earlier try confirms it.
ConfirmedIsBooked ==
    \A p \in Page : panel[p] = "confirmed" =>
        \E b \in booked : b.page = p /\ b.try = tries[p]

\* Every press of the button comes to an end the visitor can act on, whatever
\* the network and the server do: a confirmation, or a button to press again.
EveryPressSettled ==
    \A p \in Page : waiting[p] # NoRequest ~> panel[p] = "confirmed" \/ enabled[p]
=============================================================================
