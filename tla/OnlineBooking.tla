---------------------------- MODULE OnlineBooking ----------------------------
(***************************************************************************)
(* The booking page and the server together: several browsers over a       *)
(* network that loses and delays, and createAppointment call by call on    *)
(* the shared database.  A browser that has given up may press again while *)
(* its first request is still inside its transaction.                      *)
(*                                                                         *)
(* BookingPage takes a booking as one step of the server; this composition *)
(* is shown to implement it.  The front desk adds clients meanwhile.       *)
(***************************************************************************)
EXTENDS Appointments

CONSTANTS
    Page, FirstAvailable, StaffList, Slot, NoSlot, NoRequest, MaxTries,
    ContactOf,  \* what the visitor of each page enters as phone and e-mail
    Day,        \* the date every visitor asks for
    Duration    \* that of the service on offer, in slots

ASSUME VisitorAssumption ==
    /\ ContactOf \in [Page -> Contact]
    /\ Day \in Date
    /\ Slot \subseteq TimeOfDay
    /\ Duration \in Nat \ {0}
    /\ \A i \in DOMAIN SeedApts : SeedApts[i].date # Day
    /\ StaffList \in Seq(Stylist)
    /\ FirstAvailable \notin Stylist
    /\ NoSlot \notin Slot
    /\ MaxTries \in Nat

VARIABLES
    panel, enabled, choice, waiting, tries, \* the pages, as in BookingPage
    net,        \* requests on their way to a worker
    answers,    \* answers on their way back
    serving,    \* the request each worker is busy with
    made        \* the requests that have been committed

pageVars == <<panel, enabled, choice, waiting, tries>>
onlineVars == <<vars, pageVars, net, answers, serving, made>>

\* The times that clash on a stylist's day, as the conflict query sees them.
ClashingTimes ==
    {two \in Slot \X Slot : /\ two[1] < EndTime(two[2], Duration)
                            /\ two[2] < EndTime(two[1], Duration)}

\* The pages' own steps.
Form == INSTANCE BookingPage WITH sent <- net, booked <- made, Clashing <- ClashingTimes

OnlineInit ==
    /\ Init
    /\ Form!Init
    /\ serving = [w \in Worker |-> NoRequest]

PageStep(p) ==
    /\ Form!Choose(p) \/ Form!Submit(p) \/ Form!NetworkError(p) \/ Form!ResetForm(p)
    /\ UNCHANGED <<vars, serving>>

Deliver(a) == Form!Deliver(a) /\ UNCHANGED <<vars, serving>>

Lose(r) == Form!Lose(r) /\ UNCHANGED <<vars, serving>>

\* The body that submitForm sends.
BodyOf(r) == [contact |-> ContactOf[r.page], staff |-> r.staff, date |-> Day,
              start |-> r.slot, dur |-> Duration]

ASSUME BodyAssumption ==
    /\ NoRequest \notin Form!Request
    /\ \A r \in Form!Request : BodyOf(r) \in Bookings

Take(w, r) ==
    /\ Accept(w, BodyOf(r), "findClient")
    /\ net' = net \ {r}
    /\ serving' = [serving EXCEPT ![w] = r]
    /\ UNCHANGED <<pageVars, answers, made>>

\* createAppointment goes on, and has not answered yet.
Work(w) ==
    /\ Book(w)
    /\ pc'[w] # "idle"
    /\ UNCHANGED <<pageVars, net, answers, serving, made>>

\* What the page makes of a refusal depends on the message alone.
Outcome(w) ==
    IF resp'[w] = "ok" THEN "booked"
    ELSE IF pc[w] = "checkSlot" THEN "taken" ELSE "locked"

Reply(w) ==
    /\ Book(w)
    /\ pc'[w] = "idle"
    /\ answers' = answers \cup {[request |-> serving[w], result |-> Outcome(w)]}
    /\ made' = IF resp'[w] = "ok" THEN made \cup {serving[w]} ELSE made
    /\ serving' = [serving EXCEPT ![w] = NoRequest]
    /\ UNCHANGED <<pageVars, net>>

Die(w) ==
    /\ Crash(w)
    /\ serving' = [serving EXCEPT ![w] = NoRequest]
    /\ UNCHANGED <<pageVars, net, answers, made>>

Desk(w) == AddClient(w) /\ UNCHANGED <<pageVars, net, answers, serving, made>>

OnlineNext ==
    \/ \E p \in Page : PageStep(p)
    \/ \E r \in net : Lose(r)
    \/ \E a \in answers : Deliver(a)
    \/ \E w \in Worker : \/ \E r \in net : Take(w, r)
                         \/ Work(w) \/ Reply(w) \/ Die(w) \/ Desk(w)

OnlineSpec == OnlineInit /\ [][OnlineNext]_onlineVars
-----------------------------------------------------------------------------
\* A request counts as sent until its transaction is over.
InServer == {serving[w] : w \in {v \in Worker : pc[v] # "idle"}}

Pages == INSTANCE BookingPage WITH
    sent <- net \cup InServer, booked <- made, Clashing <- ClashingTimes

\* Over the server as it is, call by call, with crashes and refused locks, the
\* pages behave as over one that books in a single step: pressing again while
\* the first request is inside its transaction doubles nothing, and what
\* BookingPage shows of the pages holds here too.
PagesSpec == Pages!Spec

\* A visitor who sees the confirmation has an appointment of his own in the
\* calendar, at the time and with the stylist of his last request, whatever
\* happened to his earlier ones and whoever became a client meanwhile.
ConfirmedIsFiled ==
    \A p \in Page : panel[p] = "confirmed" =>
        \E r \in made, i \in DOMAIN db.apts :
            /\ r.page = p /\ r.try = tries[p]
            /\ db.apts[i].staff = r.staff
            /\ db.apts[i].date = Day /\ db.apts[i].start = r.slot
            /\ db.apts[i].status # "cancelled"
            /\ db.clients[db.apts[i].client] = ContactOf[p]
=============================================================================
