----------------------------- MODULE MobileApp -------------------------------
(***************************************************************************)
(* The state of the mobile app, mobile_app/lib/main.dart, on one phone     *)
(* that stylists and managers sign in to one after the other: AuthProvider,*)
(* StylistProvider and ManagerProvider.                                    *)
(*                                                                         *)
(* Dart runs one event at a time, but every call is awaited: answers come  *)
(* in any order or never, and the providers outlive the session that made  *)
(* the call.  AuthProvider's token changes at once; the other two go on     *)
(* with their copies of it until the next frame, which calls updateAuth    *)
(* and puts up the screen of the session.  A frame changes both copies: a  *)
(* provider not yet read has no calls, and starts with the current token.  *)
(***************************************************************************)
EXTENDS Naturals, FiniteSets

CONSTANTS
    Stylist,
    Manager,        \* admins and receptionists
    Apt,            \* today's appointments
    OwnerOf,        \* the stylist of each
    NoOne,          \* nobody is signed in
    Nothing,        \* no argument, no answer, nothing loaded
    MaxPresses,     \* bound: dashboards put up and presses of a button
    MaxAwaited      \* bound: calls awaited at a time

ASSUME AppAssumption ==
    /\ OwnerOf \in [Apt -> Stylist]
    /\ Stylist \cap Manager = {}
    /\ NoOne \notin Stylist \cup Manager
    /\ Nothing \notin {"wallet", "metrics", "return"}
    /\ MaxPresses \in Nat /\ MaxAwaited \in Nat

User == Stylist \cup Manager

StylistLoad == {"status", "queue", "wallet"}
ManagerLoad == {"metrics", "expenses", "staff"}
Spinner == StylistLoad \cup ManagerLoad
Kind == Spinner \cup {"toggle", "update", "log"}
AptStatus == {"upcoming", "active", "completed", "cancelled"}
StaffStatus == {"available", "off", "in_service"}

\* getTodayAppointments: a stylist's own, anybody's for a manager.
OwnApts(u) == {a \in Apt : u \in Stylist => OwnerOf[a] = u}

\* n: the press that caused the call.  next: what its handler does when this load
\* is over: another load, or the return from logExpense.
Call == [n : 1 .. MaxPresses, kind : Kind, as : User,
         arg : {Nothing} \cup [status : {"available", "off"}]
               \cup [apt : Apt, status : AptStatus],
         next : {Nothing, "wallet", "metrics", "return"}]

Queue == {Nothing} \cup
         UNION {[of : {u}, rows : [OwnApts(u) -> AptStatus]] : u \in User}
Wallet == {Nothing} \cup [of : Stylist, earned : SUBSET Apt]

VARIABLES
    duty, apts,     \* the server's tables: staff.status, appointments.status
    expenses,       \* the presses whose expense it has booked
    token,          \* whose session it is: AuthProvider's
    copy,           \* the other providers', and whose dashboard is on the screen
    loading,        \* the six isLoading flags
    isAvailable, queue, walletData,     \* what the stylist's provider shows
    managerData,    \* which of the manager's three parts are loaded
    succeeded, failed,  \* history: what logExpense returned, by press
    lost,           \* history: presses whose answer was lost
    presses,        \* how many dashboards and presses there were
    calls,          \* the calls that are awaited
    sent, answers   \* requests and answers on the network

serverVars == <<duty, apts, expenses>>
stylistVars == <<isAvailable, queue, walletData>>
logVars == <<succeeded, failed>>
authVars == <<token, copy>>
appVars == <<authVars, loading, stylistVars, managerData, logVars, lost>>
vars == <<serverVars, appVars, presses, calls, sent, answers>>

\* The day may be under way.
Init ==
    /\ apts \in [Apt -> {"upcoming", "active"}]
    /\ duty = [s \in Stylist |-> IF \E a \in OwnApts(s) : apts[a] = "active"
                                THEN "in_service" ELSE "available"]
    /\ expenses = {}
    /\ token = NoOne /\ copy = NoOne
    /\ loading = [k \in Spinner |-> FALSE]
    /\ isAvailable = FALSE
    /\ queue = Nothing
    /\ walletData = Nothing
    /\ managerData = {}
    /\ succeeded = {} /\ failed = {} /\ lost = {}
    /\ presses = 0
    /\ calls = {} /\ sent = {} /\ answers = {}

Room(calling) == /\ presses < MaxPresses
                 /\ Cardinality(calls) + calling <= MaxAwaited

\* A call that this press makes.
NewCall(kind, arg) ==
    [n |-> presses + 1, kind |-> kind, as |-> copy, arg |-> arg, next |-> Nothing]

LoadsOf(u) == IF u \in Stylist THEN StylistLoad ELSE ManagerLoad

\* The three loads of a dashboard.
ThreeLoads(u) ==
    {[NewCall(kind, Nothing) EXCEPT !.as = u] : kind \in LoadsOf(u)}

Spin(kinds) == [k \in Spinner |-> loading[k] \/ k \in kinds]

\* The providers make the calls new: those they await are then rest and new.
\* A load that is awaited no more changes nothing on the server.
Make(new, rest) ==
    /\ calls' = rest \cup new
    /\ sent' = {c \in sent : c \in rest \/ c.kind \notin Spinner} \cup new
-----------------------------------------------------------------------------
\* login has succeeded.
Login(u) ==
    /\ token = NoOne /\ copy = NoOne
    /\ token' = u
    /\ UNCHANGED <<serverVars, copy, loading, stylistVars, managerData, logVars, lost,
                   presses, calls, sent, answers>>

Logout ==
    /\ token # NoOne /\ copy # NoOne
    /\ token' = NoOne
    /\ UNCHANGED <<serverVars, copy, loading, stylistVars, managerData, logVars, lost,
                   presses, calls, sent, answers>>

\* The frame after a logout, updateAuth(null) and the login screen: what was shown
\* is emptied, the flags are kept.
ShowLogin ==
    /\ token = NoOne /\ copy # NoOne
    /\ copy' = NoOne
    /\ isAvailable' = FALSE
    /\ queue' = Nothing
    /\ walletData' = Nothing
    /\ managerData' = {}
    /\ UNCHANGED <<serverVars, token, loading, logVars, lost, presses, calls, sent, answers>>

\* The frame after a login: the dashboard of the role loads its three parts.
ShowDashboard ==
    /\ token # NoOne /\ copy = NoOne
    /\ Room(3)
    /\ copy' = token
    /\ loading' = Spin(LoadsOf(token))
    /\ Make(ThreeLoads(token), calls)
    /\ presses' = presses + 1
    /\ UNCHANGED <<serverVars, token, stylistVars, managerData, logVars, lost, answers>>

\* Not between a logout and its frame, when it would ask for nobody's status.
Refresh ==
    /\ token # NoOne /\ copy # NoOne
    /\ Room(3)
    /\ loading' = Spin(LoadsOf(token))
    /\ Make(ThreeLoads(token), calls)
    /\ presses' = presses + 1
    /\ UNCHANGED <<serverVars, authVars, stylistVars, managerData, logVars, lost, answers>>

\* The switch, which is live unless a status is loading; shown at once.
ToggleAvailability ==
    LET value == ~isAvailable IN
    /\ copy \in Stylist
    /\ ~loading["status"]
    /\ Room(1)
    /\ isAvailable' = value
    /\ loading' = [loading EXCEPT !["status"] = TRUE]
    /\ Make({NewCall("toggle", [status |-> IF value THEN "available" ELSE "off"])}, calls)
    /\ presses' = presses + 1
    /\ UNCHANGED <<serverVars, authVars, queue, walletData, managerData, logVars, lost,
                   answers>>

\* The buttons of an appointment in the queue shown.
Offered(status) == IF status = "upcoming" THEN {"active"}
                   ELSE IF status = "active" THEN {"completed", "cancelled"} ELSE {}

UpdateAppointmentStatus ==
    /\ copy \in Stylist
    /\ ~loading["queue"]
    /\ queue # Nothing
    /\ Room(1)
    /\ \E a \in OwnApts(queue.of) : \E status \in Offered(queue.rows[a]) :
          Make({NewCall("update", [apt |-> a, status |-> status])}, calls)
    /\ presses' = presses + 1
    /\ UNCHANGED <<serverVars, appVars, answers>>

\* The button of the expense form, which stays live.
LogExpense ==
    /\ copy \in Manager
    /\ Room(1)
    /\ Make({NewCall("log", Nothing)}, calls)
    /\ presses' = presses + 1
    /\ UNCHANGED <<serverVars, appVars, answers>>
-----------------------------------------------------------------------------
\* A mistake to compare with: the appointment's status as the stylist's.
DutyCopied(status) == status

DutyFor(status) == IF status = "active" THEN "in_service" ELSE "available"

\* What a load returns.
DataOf(c) ==
    CASE c.kind = "status" -> duty[c.as]
      [] c.kind = "queue" -> [of |-> c.as, rows |-> [a \in OwnApts(c.as) |-> apts[a]]]
      [] c.kind = "wallet" ->
            [of |-> c.as, earned |-> {a \in OwnApts(c.as) : apts[a] = "completed"}]
      [] OTHER -> Nothing

\* The handlers that one of the roles may not call.
Allowed(c) == /\ c.kind \in {"wallet", "toggle"} => c.as \in Stylist
              /\ c.kind = "metrics" => c.as \in Manager

\* A refused request changes nothing; a lost one is never served.  Sessions
\* outlive a logout on the server.
Serve(c) ==
    /\ sent' = sent \ {c}
    /\ \E ok \in BOOLEAN :
          /\ ok => Allowed(c)
          /\ answers' = IF c \in calls
                        THEN answers \cup {[call |-> c, ok |-> ok, data |-> IF ok THEN DataOf(c) ELSE Nothing]}
                        ELSE answers
          /\ duty' = CASE ok /\ c.kind = "toggle" -> [duty EXCEPT ![c.as] = c.arg.status]
                       [] ok /\ c.kind = "update" ->
                             [duty EXCEPT ![OwnerOf[c.arg.apt]] = DutyFor(c.arg.status)]
                       [] OTHER -> duty
          /\ expenses' = IF ok /\ c.kind = "log" THEN expenses \cup {c.n} ELSE expenses
          /\ apts' = IF ok /\ c.kind = "update"
                     THEN [apts EXCEPT ![c.arg.apt] = c.arg.status] ELSE apts
    /\ UNCHANGED <<appVars, presses, calls>>
-----------------------------------------------------------------------------
Stop(k) == [loading EXCEPT ![k] = FALSE]

\* The await of c is over and, with goOn, that of a load of kind begins.
GoOn(c, goOn, flags, kind, next) ==
    LET load == [n |-> c.n, kind |-> kind, as |-> copy, arg |-> Nothing, next |-> next] IN
    /\ loading' = [flags EXCEPT ![kind] = @ \/ goOn]
    /\ Make(IF goOn THEN {load} ELSE {}, calls \ {c})

\* loadStylistStatus after its await.
StatusLoaded(c, ok, data) ==
    /\ c.kind = "status"
    /\ isAvailable' = IF ok THEN data = "available" ELSE isAvailable
    /\ loading' = Stop("status")
    /\ Make({}, calls \ {c})
    /\ UNCHANGED <<authVars, queue, walletData, managerData, logVars>>

\* A mistake to compare with: no finally around the rollback.
TogglingFailed(c, ok) ==
    /\ c.kind = "toggle"
    /\ isAvailable' = IF ok THEN isAvailable ELSE c.arg.status = "off"
    /\ loading' = IF ok THEN Stop("status") ELSE loading
    /\ Make({}, calls \ {c})
    /\ UNCHANGED <<authVars, queue, walletData, managerData, logVars>>

\* toggleAvailability after its await: a refused switch flips back.
Toggled(c, ok) ==
    /\ c.kind = "toggle"
    /\ isAvailable' = IF ok THEN isAvailable ELSE c.arg.status = "off"
    /\ loading' = Stop("status")
    /\ Make({}, calls \ {c})
    /\ UNCHANGED <<authVars, queue, walletData, managerData, logVars>>

\* loadQueue after its await, and loadWallet when a completion waits for it.
QueueLoaded(c, ok, data) ==
    LET goOn == c.next = "wallet" /\ copy # NoOne IN
    /\ c.kind = "queue"
    /\ queue' = IF ok THEN data ELSE queue
    /\ GoOn(c, goOn, Stop("queue"), "wallet", Nothing)
    /\ UNCHANGED <<authVars, isAvailable, walletData, managerData, logVars>>

\* loadWallet after its await.
WalletLoaded(c, ok, data) ==
    /\ c.kind = "wallet"
    /\ walletData' = IF ok THEN data ELSE walletData
    /\ loading' = Stop("wallet")
    /\ Make({}, calls \ {c})
    /\ UNCHANGED <<authVars, isAvailable, queue, managerData, logVars>>

\* A mistake to compare with: the token of the update for the loads after it.
UpdatedKeepingToken(c, ok) ==
    LET next == IF c.arg.status = "completed" THEN "wallet" ELSE Nothing IN
    /\ c.kind = "update"
    /\ loading' = [loading EXCEPT !["queue"] = @ \/ ok]
    /\ Make(IF ok THEN {[c EXCEPT !.kind = "queue", !.arg = Nothing, !.next = next]}
            ELSE {}, calls \ {c})
    /\ UNCHANGED <<authVars, stylistVars, managerData, logVars>>

\* updateAppointmentStatus after its first await; without a session the loads
\* that follow return at once.
Updated(c, ok) ==
    LET goOn == ok /\ copy # NoOne
        next == IF c.arg.status = "completed" THEN "wallet" ELSE Nothing IN
    /\ c.kind = "update"
    /\ GoOn(c, goOn, loading, "queue", next)
    /\ UNCHANGED <<authVars, stylistVars, managerData, logVars>>

\* The press whose logExpense returns, if it does.
Returning(c, returns) == IF returns THEN {c.n} ELSE {}

Loaded(c, ok) == IF ok THEN managerData \cup {c.kind} ELSE managerData

\* loadStaff of the manager after its await.
StaffLoaded(c, ok) ==
    /\ c.kind = "staff"
    /\ managerData' = Loaded(c, ok)
    /\ loading' = Stop("staff")
    /\ Make({}, calls \ {c})
    /\ UNCHANGED <<authVars, stylistVars, logVars>>

\* loadMetrics after its await; logExpense returns if it waits for it.
MetricsLoaded(c, ok) ==
    /\ c.kind = "metrics"
    /\ managerData' = Loaded(c, ok)
    /\ loading' = Stop("metrics")
    /\ succeeded' = succeeded \cup Returning(c, c.next = "return")
    /\ Make({}, calls \ {c})
    /\ UNCHANGED <<authVars, stylistVars, failed>>

\* A mistake to compare with: a load that fails is a logExpense that fails.
ExpensesLoadedOrThrown(c, ok) ==
    LET logging == c.next = "metrics"
        goOn == logging /\ ok /\ copy # NoOne IN
    /\ c.kind = "expenses"
    /\ managerData' = Loaded(c, ok)
    /\ succeeded' = succeeded \cup Returning(c, logging /\ ok /\ ~goOn)
    /\ failed' = failed \cup Returning(c, logging /\ ~ok)
    /\ GoOn(c, goOn, Stop("expenses"), "metrics", "return")
    /\ UNCHANGED <<authVars, stylistVars>>

\* loadExpenses after its await, and loadMetrics when logExpense waits for it;
\* without a session that returns at once.
ExpensesLoaded(c, ok) ==
    LET logging == c.next = "metrics"
        goOn == logging /\ copy # NoOne IN
    /\ c.kind = "expenses"
    /\ managerData' = Loaded(c, ok)
    /\ succeeded' = succeeded \cup Returning(c, logging /\ ~goOn)
    /\ GoOn(c, goOn, Stop("expenses"), "metrics", "return")
    /\ UNCHANGED <<authVars, stylistVars, failed>>

\* logExpense after its first await.
Logged(c, ok) ==
    LET goOn == ok /\ copy # NoOne IN
    /\ c.kind = "log"
    /\ failed' = failed \cup Returning(c, ~ok)
    /\ succeeded' = succeeded \cup Returning(c, ok /\ ~goOn)
    /\ GoOn(c, goOn, loading, "expenses", "metrics")
    /\ UNCHANGED <<authVars, stylistVars, managerData>>

Settle(c, ok, data) ==
    /\ \/ StatusLoaded(c, ok, data) \/ QueueLoaded(c, ok, data)
       \/ WalletLoaded(c, ok, data) \/ Toggled(c, ok) \/ Updated(c, ok)
       \/ StaffLoaded(c, ok) \/ MetricsLoaded(c, ok) \/ ExpensesLoaded(c, ok)
       \/ Logged(c, ok)
    /\ answers' = {a \in answers : a.call # c}
    /\ UNCHANGED <<serverVars, presses>>

Deliver(a) ==
    /\ Settle(a.call, a.ok, a.data)
    /\ UNCHANGED lost

\* http throws: the request is lost, on its way, or served already.
NetworkError(c) ==
    /\ Settle(c, FALSE, Nothing)
    /\ lost' = lost \cup Returning(c, c.kind = "log")
-----------------------------------------------------------------------------
Next ==
    \/ \E u \in User : Login(u)
    \/ Logout \/ ShowLogin \/ ShowDashboard
    \/ Refresh \/ ToggleAvailability \/ UpdateAppointmentStatus
    \/ LogExpense
    \/ \E c \in sent : Serve(c)
    \/ \E a \in answers : Deliver(a)
    \/ \E c \in calls : NetworkError(c)

Spec == Init /\ [][Next]_vars
-----------------------------------------------------------------------------
(***************************************************************************)
(* Properties                                                              *)
(***************************************************************************)

\* The types of the tables, of the providers' state and of the network.
TypeOK ==
    /\ duty \in [Stylist -> StaffStatus]
    /\ apts \in [Apt -> AptStatus]
    /\ expenses \subseteq 1 .. MaxPresses
    /\ token \in User \cup {NoOne} /\ copy \in User \cup {NoOne}
    /\ loading \in [Spinner -> BOOLEAN]
    /\ isAvailable \in BOOLEAN
    /\ queue \in Queue
    /\ walletData \in Wallet
    /\ managerData \subseteq ManagerLoad
    /\ succeeded \subseteq 1 .. MaxPresses /\ failed \subseteq 1 .. MaxPresses
    /\ lost \subseteq 1 .. MaxPresses
    /\ presses \in 0 .. MaxPresses
    /\ calls \subseteq Call /\ sent \subseteq Call
    /\ \A a \in answers : a.call \in Call /\ a.ok \in BOOLEAN

\* What stops each spinner.
StoppedBy(c) == IF c.kind = "toggle" THEN "status" ELSE c.kind

\* A spinner turns, and the switch is dead, only while a call is awaited that
\* will stop it: whatever fails, and whoever signs in meanwhile, the screen is
\* usable again.
SpinnerMeansCall ==
    \A k \in Spinner : loading[k] => \E c \in calls : StoppedBy(c) = k

\* Every call is made for the dashboard on the screen and with the token of its
\* session, which may be over only until the frame that takes the dashboard away:
\* an update or an expense answered after that, or in the next session, goes on
\* to load with no token but that session's.
CallsAreOfSession ==
    [][\A c \in calls' \ calls : c.as = copy' /\ token' \in {c.as, NoOne}]_vars

\* What the manager is told of an expense is true: "logged" only of one that is
\* booked, "failed" only of one that is not, unless the answer itself was lost;
\* whatever becomes of the loads that follow, and of the session.
ToldTruly == /\ succeeded \subseteq expenses
             /\ failed \cap expenses \subseteq lost
=============================================================================
