--------------------------- MODULE MobileAppProofs --------------------------
(***************************************************************************)
(* Proofs about MobileApp, for every set of stylists, managers and         *)
(* appointments and any number of presses and calls.                       *)
(***************************************************************************)
EXTENDS MobileApp, TLAPS

-----------------------------------------------------------------------------
(***************************************************************************)
(* Whose calls are made.                                                   *)
(***************************************************************************)

\* Whose dashboard is on the screen is signed in, or has just signed out.
AuthInv == copy # NoOne => token \in {copy, NoOne}

\* The loads that go on after an await are made for the dashboard of the moment.
LEMMA GoOnCalls ==
    ASSUME NEW c, NEW goOn, NEW flags, NEW kind, NEW next,
           goOn => copy # NoOne, GoOn(c, goOn, flags, kind, next)
    PROVE  \A d \in calls' \ calls : copy # NoOne /\ d.as = copy
BY DEF GoOn, Make

\* So is every call that the end of an await leads to.
LEMMA SettleCalls ==
    ASSUME NEW c, NEW ok, NEW data, Settle(c, ok, data)
    PROVE  /\ UNCHANGED authVars
           /\ \A d \in calls' \ calls : copy # NoOne /\ d.as = copy
<1> USE DEF authVars
<1>1. CASE StatusLoaded(c, ok, data)
  BY <1>1 DEF StatusLoaded, Make
<1>2. CASE QueueLoaded(c, ok, data)
  BY <1>2, GoOnCalls DEF QueueLoaded
<1>3. CASE WalletLoaded(c, ok, data)
  BY <1>3 DEF WalletLoaded, Make
<1>4. CASE Toggled(c, ok)
  BY <1>4 DEF Toggled, Make
<1>5. CASE Updated(c, ok)
  BY <1>5, GoOnCalls DEF Updated
<1>6. CASE StaffLoaded(c, ok)
  BY <1>6 DEF StaffLoaded, Make
<1>7. CASE MetricsLoaded(c, ok)
  BY <1>7 DEF MetricsLoaded, Make
<1>8. CASE ExpensesLoaded(c, ok)
  BY <1>8, GoOnCalls DEF ExpensesLoaded
<1>9. CASE Logged(c, ok)
  BY <1>9, GoOnCalls DEF Logged
<1>10. QED
  BY <1>1, <1>2, <1>3, <1>4, <1>5, <1>6, <1>7, <1>8, <1>9 DEF Settle

\* A step leaves the session and the screen alone and calls for the screen, or
\* is a frame or a change of the session.
LEMMA SessionSteps ==
    ASSUME AuthInv, [Next]_vars
    PROVE  \/ /\ UNCHANGED authVars
              /\ \A c \in calls' \ calls : copy # NoOne /\ c.as = copy
           \/ /\ copy' \in {copy, NoOne} /\ token' = NoOne /\ calls' = calls
           \/ /\ copy = NoOne /\ copy' = NoOne /\ calls' = calls
           \/ /\ copy' = token /\ token' = token
              /\ \A c \in calls' \ calls : c.as = token
<1> USE DEF authVars
<1>1. \A u : \A c \in ThreeLoads(u) : c.as = u
  BY DEF ThreeLoads, NewCall
<1>2. \A u \in User : u # NoOne
  BY AppAssumption DEF User
<1>3. CASE (\E u \in User : Login(u)) \/ Logout \/ ShowLogin
  BY <1>3 DEF Login, Logout, ShowLogin
<1>4. CASE ShowDashboard
  BY <1>1, <1>4 DEF ShowDashboard, Make
<1>5. CASE Refresh
  <2>1. token = copy /\ copy # NoOne
    BY <1>5 DEF AuthInv, Refresh
  <2>2. QED
    BY <1>1, <1>5, <2>1 DEF Refresh, Make
<1>6. CASE ToggleAvailability
  BY <1>2, <1>6 DEF ToggleAvailability, Make, NewCall, User
<1>7. CASE UpdateAppointmentStatus
  BY <1>2, <1>7 DEF UpdateAppointmentStatus, Make, NewCall, appVars, User
<1>8. CASE LogExpense
  BY <1>2, <1>8 DEF LogExpense, Make, NewCall, appVars, User
<1>9. CASE \E a \in answers : Deliver(a)
  BY <1>9, SettleCalls DEF Deliver
<1>10. CASE \E c \in calls : NetworkError(c)
  BY <1>10, SettleCalls DEF NetworkError
<1>11. CASE (\E c \in sent : Serve(c)) \/ UNCHANGED vars
  BY <1>11 DEF Serve, vars, appVars
<1>12. QED
  BY <1>3, <1>4, <1>5, <1>6, <1>7, <1>8, <1>9, <1>10, <1>11 DEF Next

\* Every call is made for the dashboard on the screen, with a token that may be
\* that of a session just over but is never the last one's in the next session:
\* an update or an expense answered late goes on to load as whoever is there.
THEOREM OwnSession == Spec => CallsAreOfSession
<1>1. Init => AuthInv
  BY DEF Init, AuthInv
<1>2. AuthInv /\ [Next]_vars => AuthInv'
  BY SessionSteps DEF AuthInv, authVars
<1>3. AuthInv /\ [Next]_vars =>
          [\A c \in calls' \ calls : c.as = copy' /\ token' \in {c.as, NoOne}]_vars
  BY SessionSteps DEF AuthInv, authVars
<1>4. QED
  BY <1>1, <1>2, <1>3, PTL DEF Spec, CallsAreOfSession
-----------------------------------------------------------------------------
(***************************************************************************)
(* Types.  A continuation uses the argument of its call and the data of    *)
(* its answer as the kind of the call says.                                *)
(***************************************************************************)

GoodCall(c, made) ==
    /\ c \in Call
    /\ c.n <= made
    /\ c.kind = "toggle" => c.arg \in [status : {"available", "off"}]
    /\ c.kind = "update" => c.arg \in [apt : Apt, status : AptStatus]

GoodData(c, ok, data) ==
    ok => /\ c.kind = "queue" => data \in Queue
          /\ c.kind = "wallet" => data \in Wallet

CallInv ==
    /\ \A c \in calls \cup sent : GoodCall(c, presses)
    /\ \A a \in answers : a.call \in calls /\ GoodData(a.call, a.ok, a.data)

\* What a press makes is a call.
LEMMA NewCallGood ==
    ASSUME TypeOK, presses < MaxPresses, presses' = presses + 1,
           NEW u \in User, NEW kind \in Kind, NEW arg,
           \/ arg = Nothing /\ kind \notin {"toggle", "update"}
           \/ arg \in [status : {"available", "off"}] /\ kind = "toggle"
           \/ arg \in [apt : Apt, status : AptStatus] /\ kind = "update"
    PROVE  GoodCall([n |-> presses + 1, kind |-> kind, as |-> u, arg |-> arg,
                     next |-> Nothing], presses')
<1>1. presses \in Nat /\ presses + 1 \in 1 .. MaxPresses /\ presses' \in 0 .. MaxPresses
  BY AppAssumption DEF TypeOK
<1>2. [n |-> presses + 1, kind |-> kind, as |-> u, arg |-> arg, next |-> Nothing] \in Call
  BY <1>1 DEF Call
<1>3. QED
  BY <1>1, <1>2 DEF GoodCall

\* What the providers make of calls leaves good ones.
LEMMA MakeGood ==
    ASSUME CallInv, presses' \in {presses, presses + 1}, presses \in Nat,
           NEW new, NEW rest, rest \subseteq calls, Make(new, rest),
           \A c \in new : GoodCall(c, presses')
    PROVE  \A c \in calls' \cup sent' : GoodCall(c, presses')
<1>1. \A c \in calls \cup sent : GoodCall(c, presses')
  BY DEF CallInv, GoodCall, Call
<1>2. QED
  BY <1>1 DEF Make

\* The three loads of a dashboard are calls.
LEMMA LoadsGood ==
    ASSUME TypeOK, presses < MaxPresses, presses' = presses + 1, NEW u \in User
    PROVE  \A c \in ThreeLoads(u) : GoodCall(c, presses')
<1> DEFINE load(kind) == [n |-> presses + 1, kind |-> kind, as |-> u, arg |-> Nothing,
                          next |-> Nothing]
<1>1. ASSUME NEW kind \in LoadsOf(u)
      PROVE  GoodCall(load(kind), presses')
  <2>1. kind \in Kind /\ kind \notin {"toggle", "update"}
    BY DEF LoadsOf, Kind, Spinner, StylistLoad, ManagerLoad
  <2>2. QED
    BY <2>1, NewCallGood
<1>2. ASSUME NEW kind
      PROVE  [NewCall(kind, Nothing) EXCEPT !.as = u] = load(kind)
  BY DEF NewCall
<1>3. QED
  <2> HIDE DEF load
  <2>1. QED
    BY <1>1, <1>2 DEF ThreeLoads

\* So is the load that goes on after an await.
LEMMA GoOnGood ==
    ASSUME TypeOK, CallInv, presses' = presses,
           NEW c, GoodCall(c, presses), NEW goOn \in BOOLEAN, NEW flags \in [Spinner -> BOOLEAN],
           NEW kind \in Spinner, NEW next \in {Nothing, "wallet", "metrics", "return"},
           goOn => copy # NoOne, GoOn(c, goOn, flags, kind, next)
    PROVE  /\ \A d \in calls' \cup sent' : GoodCall(d, presses')
           /\ loading' \in [Spinner -> BOOLEAN]
<1> DEFINE load == [n |-> c.n, kind |-> kind, as |-> copy, arg |-> Nothing, next |-> next]
<1>1. presses \in Nat
  BY DEF TypeOK
<1>2. ASSUME goOn PROVE GoodCall(load, presses')
  <2>1. copy \in User /\ c.n \in 1 .. MaxPresses /\ c.n <= presses
    BY <1>2 DEF TypeOK, GoodCall, Call
  <2>2. kind \in Kind /\ kind \notin {"toggle", "update"}
    BY DEF Kind, Spinner, StylistLoad, ManagerLoad
  <2>3. load \in Call
    BY <2>1, <2>2 DEF Call
  <2>4. QED
    BY <2>1, <2>2, <2>3 DEF GoodCall
<1>3. /\ loading' = [flags EXCEPT ![kind] = @ \/ goOn]
      /\ Make(IF goOn THEN {load} ELSE {}, calls \ {c})
  BY DEF GoOn
<1>4. \A d \in (IF goOn THEN {load} ELSE {}) : GoodCall(d, presses')
  BY <1>2
<1>5. \A d \in calls' \cup sent' : GoodCall(d, presses')
  <2> HIDE DEF load
  <2>1. QED
    BY <1>1, <1>3, <1>4, MakeGood
<1>6. [flags EXCEPT ![kind] = @ \/ goOn] \in [Spinner -> BOOLEAN]
  <2>1. (flags[kind] \/ goOn) \in BOOLEAN
    OBVIOUS
  <2>2. QED
    BY <2>1
<1>7. QED
  BY <1>3, <1>5, <1>6

\* What the end of an await leaves of the providers' state, whatever it was.
Settled(c) ==
    /\ UNCHANGED authVars
    /\ loading' \in [Spinner -> BOOLEAN]
    /\ isAvailable' \in BOOLEAN
    /\ queue' \in Queue
    /\ walletData' \in Wallet
    /\ managerData' \subseteq ManagerLoad
    /\ succeeded' \subseteq 1 .. MaxPresses /\ failed' \subseteq 1 .. MaxPresses
    /\ \A d \in calls' \cup sent' : GoodCall(d, presses')
    /\ calls \ {c} \subseteq calls'

LEMMA SettledTypes ==
    ASSUME TypeOK, CallInv, NEW c, GoodCall(c, presses), NEW ok \in BOOLEAN, NEW data,
           GoodData(c, ok, data), Settle(c, ok, data)
    PROVE  Settled(c)
<1> USE DEF TypeOK, authVars
<1>1. /\ presses' = presses /\ presses \in Nat
      /\ c.n \in 1 .. MaxPresses /\ c.kind \in Kind
  BY DEF Settle, GoodCall, Call
<1>2. ASSUME Make({}, calls \ {c})
      PROVE  /\ \A d \in calls' \cup sent' : GoodCall(d, presses')
             /\ calls \ {c} \subseteq calls'
  <2>1. \A d \in {} : GoodCall(d, presses')
    OBVIOUS
  <2>2. calls \ {c} \subseteq calls /\ presses' \in {presses, presses + 1}
    BY <1>1
  <2>3. \A d \in calls' \cup sent' : GoodCall(d, presses')
    BY <1>1, <1>2, <2>1, <2>2, MakeGood
  <2>4. QED
    BY <1>2, <2>3 DEF Make
<1>3. ASSUME NEW goOn, NEW flags, NEW kind, NEW next, GoOn(c, goOn, flags, kind, next)
      PROVE  calls \ {c} \subseteq calls'
  BY <1>3 DEF GoOn, Make
<1>4. \A k : Stop(k) \in [Spinner -> BOOLEAN]
  BY DEF Stop
<1>5. \A b : Returning(c, b) \subseteq 1 .. MaxPresses
  BY <1>1 DEF Returning
<1>6. {"queue", "wallet", "expenses", "metrics", "status", "staff"} = Spinner
  BY DEF Spinner, StylistLoad, ManagerLoad
<1>7. c.kind \in ManagerLoad => Loaded(c, ok) \subseteq ManagerLoad
  BY DEF Loaded
<1>8. CASE StatusLoaded(c, ok, data)
  <2>1. isAvailable' \in BOOLEAN
    BY <1>8 DEF StatusLoaded
  <2>2. QED
    BY <1>2, <1>4, <1>8, <2>1 DEF StatusLoaded, Settled, logVars
<1>9. CASE QueueLoaded(c, ok, data)
  <2>1. queue' \in Queue
    BY <1>9 DEF QueueLoaded, GoodData
  <2>2. GoOn(c, c.next = "wallet" /\ copy # NoOne, Stop("queue"), "wallet", Nothing)
    BY <1>9 DEF QueueLoaded
  <2>3. /\ \A d \in calls' \cup sent' : GoodCall(d, presses')
        /\ loading' \in [Spinner -> BOOLEAN]
    BY <1>1, <1>4, <1>6, <2>2, GoOnGood
  <2>4. calls \ {c} \subseteq calls'
    BY <1>3, <2>2
  <2>5. QED
    BY <1>9, <2>1, <2>3, <2>4 DEF QueueLoaded, Settled, logVars
<1>10. CASE WalletLoaded(c, ok, data)
  <2>1. walletData' \in Wallet
    BY <1>10 DEF WalletLoaded, GoodData
  <2>2. QED
    BY <1>2, <1>4, <1>10, <2>1 DEF WalletLoaded, Settled, logVars
<1>11. CASE Toggled(c, ok)
  <2>1. isAvailable' \in BOOLEAN
    BY <1>11 DEF Toggled
  <2>2. QED
    BY <1>2, <1>4, <1>11, <2>1 DEF Toggled, Settled, logVars
<1>12. CASE Updated(c, ok)
  <2> DEFINE goOn == ok /\ copy # NoOne
             next == IF c.arg.status = "completed" THEN "wallet" ELSE Nothing
  <2>1. GoOn(c, goOn, loading, "queue", next)
    BY <1>12 DEF Updated
  <2>2. next \in {Nothing, "wallet", "metrics", "return"} /\ goOn \in BOOLEAN
    OBVIOUS
  <2>3. goOn => copy # NoOne
    OBVIOUS
  <2> HIDE DEF goOn, next
  <2>4. /\ \A d \in calls' \cup sent' : GoodCall(d, presses')
        /\ loading' \in [Spinner -> BOOLEAN]
    BY <1>1, <1>6, <2>1, <2>2, <2>3, GoOnGood
  <2>5. calls \ {c} \subseteq calls'
    BY <1>3, <2>1
  <2>6. QED
    BY <1>12, <2>4, <2>5 DEF Updated, Settled, logVars, stylistVars
<1>13. CASE StaffLoaded(c, ok)
  <2>1. managerData' \subseteq ManagerLoad
    BY <1>7, <1>13 DEF StaffLoaded, ManagerLoad
  <2>2. QED
    BY <1>2, <1>4, <1>13, <2>1 DEF StaffLoaded, Settled, logVars, stylistVars
<1>14. CASE MetricsLoaded(c, ok)
  <2>1. managerData' \subseteq ManagerLoad
    BY <1>7, <1>14 DEF MetricsLoaded, ManagerLoad
  <2>2. succeeded' \subseteq 1 .. MaxPresses
    BY <1>5, <1>14 DEF MetricsLoaded
  <2>3. QED
    BY <1>2, <1>4, <1>14, <2>1, <2>2 DEF MetricsLoaded, Settled, stylistVars
<1>15. CASE ExpensesLoaded(c, ok)
  <2> DEFINE goOn == c.next = "metrics" /\ copy # NoOne
  <2>1. managerData' \subseteq ManagerLoad
    BY <1>7, <1>15 DEF ExpensesLoaded, ManagerLoad
  <2>2. succeeded' \subseteq 1 .. MaxPresses
    BY <1>5, <1>15 DEF ExpensesLoaded
  <2>3. GoOn(c, goOn, Stop("expenses"), "metrics", "return")
    BY <1>15 DEF ExpensesLoaded
  <2>4. /\ \A d \in calls' \cup sent' : GoodCall(d, presses')
        /\ loading' \in [Spinner -> BOOLEAN]
    BY <1>1, <1>4, <1>6, <2>3, GoOnGood
  <2>5. calls \ {c} \subseteq calls'
    BY <1>3, <2>3
  <2>6. QED
    BY <1>15, <2>1, <2>2, <2>4, <2>5 DEF ExpensesLoaded, Settled, stylistVars
<1>16. CASE Logged(c, ok)
  <2> DEFINE goOn == ok /\ copy # NoOne
  <2>1. succeeded' \subseteq 1 .. MaxPresses /\ failed' \subseteq 1 .. MaxPresses
    BY <1>5, <1>16 DEF Logged
  <2>2. GoOn(c, goOn, loading, "expenses", "metrics")
    BY <1>16 DEF Logged
  <2>3. goOn \in BOOLEAN /\ (goOn => copy # NoOne)
    OBVIOUS
  <2> HIDE DEF goOn
  <2>4. /\ \A d \in calls' \cup sent' : GoodCall(d, presses')
        /\ loading' \in [Spinner -> BOOLEAN]
    BY <1>1, <1>6, <2>2, <2>3, GoOnGood
  <2>5. calls \ {c} \subseteq calls'
    BY <1>3, <2>2
  <2>6. QED
    BY <1>16, <2>1, <2>4, <2>5 DEF Logged, Settled, stylistVars
<1>17. QED
  BY <1>8, <1>9, <1>10, <1>11, <1>12, <1>13, <1>14, <1>15, <1>16 DEF Settle

\* What an awaited call leaves when its answer arrives, or is given up.
LEMMA SettleKeepsTypes ==
    ASSUME TypeOK, CallInv, NEW c \in calls, NEW ok \in BOOLEAN, NEW data,
           GoodData(c, ok, data), Settle(c, ok, data), lost' \subseteq 1 .. MaxPresses
    PROVE  TypeOK' /\ CallInv'
<1>1. GoodCall(c, presses)
  BY DEF CallInv
<1>2. Settled(c)
  BY <1>1, SettledTypes
<1>3. /\ answers' = {a \in answers : a.call # c}
      /\ UNCHANGED <<duty, apts, expenses, presses>>
  BY DEF Settle, serverVars
<1>4. calls' \subseteq Call /\ sent' \subseteq Call
  BY <1>2 DEF Settled, GoodCall
<1>5. TypeOK'
  BY <1>2, <1>3, <1>4 DEF Settled, TypeOK, authVars
<1>6. CallInv'
  <2>1. \A a \in answers' : a.call \in calls' /\ GoodData(a.call, a.ok, a.data)
    BY <1>2, <1>3 DEF CallInv, Settled
  <2>2. QED
    BY <1>2, <2>1 DEF CallInv, Settled, GoodData, Queue, Wallet, OwnApts
<1>7. QED
  BY <1>5, <1>6

\* What a stylist is shown as the queue.
LEMMA QueueType ==
    ASSUME NEW u \in User, NEW rows \in [OwnApts(u) -> AptStatus]
    PROVE  [of |-> u, rows |-> rows] \in Queue
BY DEF Queue

\* What the server returns has the type that its load expects.
LEMMA ServedData ==
    ASSUME TypeOK, NEW c \in Call, NEW ok, ok => Allowed(c)
    PROVE  GoodData(c, ok, IF ok THEN DataOf(c) ELSE Nothing)
<1> SUFFICES ASSUME ok
             PROVE  /\ c.kind = "queue" => DataOf(c) \in Queue
                    /\ c.kind = "wallet" => DataOf(c) \in Wallet
  BY DEF GoodData
<1>1. c.as \in User
  BY DEF Call
<1>2. ASSUME c.kind = "queue" PROVE DataOf(c) \in Queue
  <2>1. [a \in OwnApts(c.as) |-> apts[a]] \in [OwnApts(c.as) -> AptStatus]
    BY DEF TypeOK, OwnApts
  <2>2. DataOf(c) = [of |-> c.as, rows |-> [a \in OwnApts(c.as) |-> apts[a]]]
    BY <1>2 DEF DataOf
  <2>3. QED
    BY <1>1, <2>1, <2>2, QueueType
<1>3. ASSUME c.kind = "wallet" PROVE DataOf(c) \in Wallet
  BY <1>3 DEF DataOf, Allowed, Wallet, OwnApts
<1>4. QED
  BY <1>2, <1>3

\* A press that makes calls.
LEMMA PressGood ==
    ASSUME TypeOK, CallInv, presses < MaxPresses, presses' = presses + 1,
           NEW new, \A c \in new : GoodCall(c, presses'), Make(new, calls),
           answers' = answers
    PROVE  /\ CallInv'
           /\ presses' \in 0 .. MaxPresses
           /\ calls' \subseteq Call /\ sent' \subseteq Call
           /\ \A a \in answers' : a.call \in Call /\ a.ok \in BOOLEAN
<1>1. presses \in Nat /\ presses' \in 0 .. MaxPresses
  BY AppAssumption DEF TypeOK
<1>2. \A c \in calls' \cup sent' : GoodCall(c, presses')
  BY <1>1, MakeGood
<1>3. calls \subseteq calls'
  BY DEF Make
<1>4. CallInv'
  BY <1>2, <1>3 DEF CallInv, GoodData, Queue, Wallet, OwnApts
<1>5. QED
  BY <1>1, <1>2, <1>4 DEF GoodCall, TypeOK

\* Calls, answers and what is shown keep their types.
LEMMA Typed == Spec => [](TypeOK /\ CallInv)
<1>1. Init => TypeOK /\ CallInv
  <2> SUFFICES ASSUME Init PROVE TypeOK /\ CallInv
    OBVIOUS
  <2>1. Nothing \in Queue /\ Nothing \in Wallet
    BY DEF Queue, Wallet
  <2>2. duty \in [Stylist -> StaffStatus] /\ apts \in [Apt -> AptStatus]
    BY DEF Init, StaffStatus, AptStatus
  <2>3. 0 \in 0 .. MaxPresses
    BY AppAssumption
  <2>4. QED
    BY <2>1, <2>2, <2>3 DEF Init, TypeOK, CallInv
<1>2. ASSUME TypeOK, CallInv, [Next]_vars
      PROVE  TypeOK' /\ CallInv'
  <2>1. \A kinds : Spin(kinds) \in [Spinner -> BOOLEAN]
    BY DEF Spin
  <2>2. CASE (\E u \in User : Login(u)) \/ Logout
    <3>1. /\ token' \in User \cup {NoOne}
          /\ UNCHANGED <<serverVars, copy, loading, stylistVars, managerData, logVars, lost,
                         presses, calls, sent, answers>>
      BY <2>2 DEF Login, Logout
    <3>2. TypeOK'
      BY <1>2, <3>1 DEF TypeOK, serverVars, stylistVars, logVars
    <3>3. CallInv'
      BY <1>2, <3>1 DEF CallInv, GoodData, Queue, Wallet, OwnApts
    <3>4. QED
      BY <3>2, <3>3
  <2>3. CASE ShowLogin
    <3>1. Nothing \in Queue /\ Nothing \in Wallet
      BY DEF Queue, Wallet
    <3>2. CallInv'
      BY <1>2, <2>3 DEF CallInv, ShowLogin, GoodData, Queue, Wallet, OwnApts
    <3>3. QED
      BY <1>2, <2>3, <3>1, <3>2 DEF TypeOK, ShowLogin, serverVars, logVars
  <2>0. CASE ShowDashboard
    <3>1. presses < MaxPresses /\ presses' = presses + 1 /\ token \in User
      BY <1>2, <2>0 DEF ShowDashboard, Room, TypeOK
    <3>2. \A c \in ThreeLoads(token) : GoodCall(c, presses')
      BY <1>2, <3>1, LoadsGood
    <3>3. /\ CallInv'
          /\ presses' \in 0 .. MaxPresses
          /\ calls' \subseteq Call /\ sent' \subseteq Call
          /\ \A a \in answers' : a.call \in Call /\ a.ok \in BOOLEAN
      BY <1>2, <2>0, <3>1, <3>2, PressGood DEF ShowDashboard
    <3>4. QED
      BY <1>2, <2>0, <2>1, <3>3 DEF TypeOK, ShowDashboard, serverVars, stylistVars, logVars
  <2>4. CASE Refresh
    <3>1. presses < MaxPresses /\ presses' = presses + 1 /\ token \in User
      BY <1>2, <2>4 DEF Refresh, Room, TypeOK
    <3>2. \A c \in ThreeLoads(token) : GoodCall(c, presses')
      BY <1>2, <3>1, LoadsGood
    <3>3. /\ CallInv'
          /\ presses' \in 0 .. MaxPresses
          /\ calls' \subseteq Call /\ sent' \subseteq Call
          /\ \A a \in answers' : a.call \in Call /\ a.ok \in BOOLEAN
      BY <1>2, <2>4, <3>1, <3>2, PressGood DEF Refresh
    <3>4. QED
      BY <1>2, <2>1, <2>4, <3>3 DEF TypeOK, Refresh, serverVars, authVars, stylistVars, logVars
  <2>5. CASE ToggleAvailability
    <3> DEFINE arg == [status |-> IF ~isAvailable THEN "available" ELSE "off"]
               call == [n |-> presses + 1, kind |-> "toggle", as |-> copy, arg |-> arg,
                        next |-> Nothing]
    <3>1. presses < MaxPresses /\ presses' = presses + 1 /\ copy \in User
      BY <2>5 DEF ToggleAvailability, Room, User
    <3>2. arg \in [status : {"available", "off"}] /\ "toggle" \in Kind
      BY DEF Kind
    <3>3. GoodCall(call, presses')
      <4> HIDE DEF arg
      <4>1. QED
        BY <1>2, <3>1, <3>2, NewCallGood
    <3>4. Make({call}, calls) /\ answers' = answers
      BY <2>5 DEF ToggleAvailability, NewCall
    <3>5. /\ CallInv'
          /\ presses' \in 0 .. MaxPresses
          /\ calls' \subseteq Call /\ sent' \subseteq Call
          /\ \A a \in answers' : a.call \in Call /\ a.ok \in BOOLEAN
      <4> HIDE DEF call
      <4>1. \A c \in {call} : GoodCall(c, presses')
        BY <3>3
      <4>2. QED
        BY <1>2, <3>1, <3>4, <4>1, PressGood
    <3>6. QED
      BY <1>2, <2>5, <3>5 DEF TypeOK, ToggleAvailability, serverVars, authVars, logVars
  <2>6. CASE UpdateAppointmentStatus
    <3>0. PICK a \in OwnApts(queue.of) : \E status \in Offered(queue.rows[a]) :
             Make({NewCall("update", [apt |-> a, status |-> status])}, calls)
      BY <2>6 DEF UpdateAppointmentStatus
    <3>1. PICK status \in Offered(queue.rows[a]) :
             Make({NewCall("update", [apt |-> a, status |-> status])}, calls)
      BY <3>0
    <3> DEFINE arg == [apt |-> a, status |-> status]
               call == [n |-> presses + 1, kind |-> "update", as |-> copy, arg |-> arg,
                        next |-> Nothing]
    <3>2. presses < MaxPresses /\ presses' = presses + 1 /\ copy \in User
      BY <2>6 DEF UpdateAppointmentStatus, Room, User
    <3>3. arg \in [apt : Apt, status : AptStatus] /\ "update" \in Kind
      BY DEF Kind, OwnApts, Offered, AptStatus
    <3>4. GoodCall(call, presses')
      <4> HIDE DEF arg
      <4>1. QED
        BY <1>2, <3>2, <3>3, NewCallGood
    <3>5. Make({call}, calls) /\ answers' = answers
      BY <2>6, <3>1 DEF UpdateAppointmentStatus, NewCall
    <3>6. /\ CallInv'
          /\ presses' \in 0 .. MaxPresses
          /\ calls' \subseteq Call /\ sent' \subseteq Call
          /\ \A b \in answers' : b.call \in Call /\ b.ok \in BOOLEAN
      <4> HIDE DEF call
      <4>1. \A c \in {call} : GoodCall(c, presses')
        BY <3>4
      <4>2. QED
        BY <1>2, <3>2, <3>5, <4>1, PressGood
    <3>7. QED
      BY <1>2, <2>6, <3>6 DEF TypeOK, UpdateAppointmentStatus, serverVars, appVars, authVars,
                             logVars, stylistVars
  <2>7. CASE LogExpense
    <3> DEFINE call == [n |-> presses + 1, kind |-> "log", as |-> copy, arg |-> Nothing,
                        next |-> Nothing]
    <3>1. presses < MaxPresses /\ presses' = presses + 1 /\ copy \in User
      BY <2>7 DEF LogExpense, Room, User
    <3>2. GoodCall(call, presses')
      <4>1. "log" \in Kind
        BY DEF Kind
      <4>2. QED
        BY <1>2, <3>1, <4>1, NewCallGood
    <3>3. Make({call}, calls) /\ answers' = answers
      BY <2>7 DEF LogExpense, NewCall
    <3>4. /\ CallInv'
          /\ presses' \in 0 .. MaxPresses
          /\ calls' \subseteq Call /\ sent' \subseteq Call
          /\ \A a \in answers' : a.call \in Call /\ a.ok \in BOOLEAN
      <4> HIDE DEF call
      <4>1. \A c \in {call} : GoodCall(c, presses')
        BY <3>2
      <4>2. QED
        BY <1>2, <3>1, <3>3, <4>1, PressGood
    <3>5. QED
      BY <1>2, <2>7, <3>4 DEF TypeOK, LogExpense, serverVars, appVars, authVars, logVars,
                             stylistVars
  <2>8. CASE \E c \in sent : Serve(c)
    <3>1. PICK c \in sent : Serve(c)
      BY <2>8
    <3>2. PICK ok \in BOOLEAN :
             /\ ok => Allowed(c)
             /\ answers' = IF c \in calls
                  THEN answers \cup {[call |-> c, ok |-> ok,
                                      data |-> IF ok THEN DataOf(c) ELSE Nothing]}
                  ELSE answers
             /\ duty' = CASE ok /\ c.kind = "toggle" -> [duty EXCEPT ![c.as] = c.arg.status]
                          [] ok /\ c.kind = "update" ->
                                [duty EXCEPT ![OwnerOf[c.arg.apt]] = DutyFor(c.arg.status)]
                          [] OTHER -> duty
             /\ expenses' = IF ok /\ c.kind = "log" THEN expenses \cup {c.n} ELSE expenses
             /\ apts' = IF ok /\ c.kind = "update"
                        THEN [apts EXCEPT ![c.arg.apt] = c.arg.status] ELSE apts
      BY <3>1 DEF Serve
    <3>3. GoodCall(c, presses) /\ c \in Call
      BY <1>2 DEF CallInv, GoodCall
    <3>4. duty' \in [Stylist -> StaffStatus]
      BY <1>2, <3>2, <3>3 DEF TypeOK, GoodCall, StaffStatus, DutyFor
    <3>5. apts' \in [Apt -> AptStatus]
      BY <1>2, <3>2, <3>3 DEF TypeOK, GoodCall
    <3>6. expenses' \subseteq 1 .. MaxPresses
      BY <1>2, <3>2, <3>3 DEF TypeOK, Call
    <3>7. GoodData(c, ok, IF ok THEN DataOf(c) ELSE Nothing)
      BY <1>2, <3>2, <3>3, ServedData
    <3>8. UNCHANGED <<appVars, presses, calls>> /\ sent' = sent \ {c}
      BY <3>1 DEF Serve
    <3>9. CallInv'
      <4> DEFINE new == [call |-> c, ok |-> ok, data |-> IF ok THEN DataOf(c) ELSE Nothing]
      <4>1. new.call = c /\ GoodData(new.call, new.ok, new.data)
        BY <3>7
      <4>2. answers' \subseteq answers \cup {new} /\ (c \notin calls => answers' = answers)
        BY <3>2
      <4> HIDE DEF new
      <4>3. \A a \in answers' : a.call \in calls /\ GoodData(a.call, a.ok, a.data)
        BY <1>2, <4>1, <4>2 DEF CallInv
      <4>4. QED
        BY <1>2, <3>8, <4>3 DEF CallInv, GoodData, Queue, Wallet, OwnApts
    <3>10. \A a \in answers' : a.call \in Call /\ a.ok \in BOOLEAN
      BY <1>2, <3>2, <3>3 DEF TypeOK
    <3>11. QED
      BY <1>2, <3>4, <3>5, <3>6, <3>8, <3>9, <3>10
      DEF TypeOK, appVars, authVars, stylistVars, logVars
  <2>9. CASE \E a \in answers : Deliver(a)
    <3>1. PICK a \in answers : Deliver(a)
      BY <2>9
    <3>2. a.call \in calls /\ a.ok \in BOOLEAN /\ GoodData(a.call, a.ok, a.data)
      BY <1>2 DEF CallInv, TypeOK
    <3>3. lost' \subseteq 1 .. MaxPresses
      BY <1>2, <3>1 DEF Deliver, TypeOK
    <3>4. QED
      BY <1>2, <3>1, <3>2, <3>3, SettleKeepsTypes DEF Deliver
  <2>10. CASE \E c \in calls : NetworkError(c)
    <3>1. PICK c \in calls : NetworkError(c)
      BY <2>10
    <3>2. lost' \subseteq 1 .. MaxPresses
      BY <1>2, <3>1 DEF NetworkError, TypeOK, Returning, Call
    <3>3. GoodData(c, FALSE, Nothing)
      BY DEF GoodData
    <3>4. QED
      BY <1>2, <3>1, <3>2, <3>3, SettleKeepsTypes DEF NetworkError
  <2>11. CASE UNCHANGED vars
    BY <1>2, <2>11 DEF vars, serverVars, appVars, authVars, stylistVars, logVars, CallInv, TypeOK,
                      GoodData, Queue, Wallet, OwnApts
  <2>12. QED
    BY <1>2, <2>0, <2>2, <2>3, <2>4, <2>5, <2>6, <2>7, <2>8, <2>9, <2>10, <2>11 DEF Next
<1>3. QED
  BY <1>1, <1>2, PTL DEF Spec

\* The types of the tables, of the providers' state and of the network.
THEOREM TypeCorrect == Spec => []TypeOK
BY Typed, PTL

-----------------------------------------------------------------------------
(***************************************************************************)
(* The spinners.                                                           *)
(***************************************************************************)

\* The end of an await stops the spinner of the call and no other, and the load
\* that goes on after it turns its own.
LEMMA SettleSpinners ==
    ASSUME TypeOK, SpinnerMeansCall, NEW c \in calls, c \in Call, NEW ok \in BOOLEAN, NEW data,
           Settle(c, ok, data)
    PROVE  SpinnerMeansCall'
<1> USE DEF StoppedBy
<1>1. Spinner = {"status", "queue", "wallet", "metrics", "expenses", "staff"}
  BY DEF Spinner, StylistLoad, ManagerLoad
<1>2. ASSUME NEW k \in Spinner, loading' = Stop(k), Make({}, calls \ {c}), StoppedBy(c) = k
      PROVE  SpinnerMeansCall'
  BY <1>2 DEF Stop, Make, SpinnerMeansCall, TypeOK
<1>3. ASSUME NEW goOn \in BOOLEAN, NEW kind \in Spinner, NEW next, NEW flags \in [Spinner -> BOOLEAN],
             GoOn(c, goOn, flags, kind, next),
             \A k \in Spinner : flags[k] => loading[k] /\ StoppedBy(c) # k
      PROVE  SpinnerMeansCall'
  <2> DEFINE load == [n |-> c.n, kind |-> kind, as |-> copy, arg |-> Nothing, next |-> next]
  <2>1. /\ loading' = [flags EXCEPT ![kind] = @ \/ goOn]
        /\ calls' = (calls \ {c}) \cup (IF goOn THEN {load} ELSE {})
    BY <1>3 DEF GoOn, Make
  <2>2. StoppedBy(load) = kind
    BY <1>1
  <2> SUFFICES ASSUME NEW k \in Spinner, loading'[k]
               PROVE  \E d \in calls' : StoppedBy(d) = k
    BY DEF SpinnerMeansCall
  <2> HIDE DEF load
  <2>3. CASE flags[k]
    <3>1. PICK d \in calls : StoppedBy(d) = k
      BY <1>3, <2>3 DEF SpinnerMeansCall
    <3>2. d # c
      BY <1>3, <2>3, <3>1
    <3>3. QED
      BY <2>1, <3>1, <3>2
  <2>4. CASE ~flags[k]
    BY <1>3, <2>1, <2>2, <2>4
  <2>5. QED
    BY <2>3, <2>4
<1>4. ASSUME NEW k \in Spinner, StoppedBy(c) = k
      PROVE  /\ Stop(k) \in [Spinner -> BOOLEAN]
             /\ \A j \in Spinner : Stop(k)[j] => loading[j] /\ StoppedBy(c) # j
  BY <1>4 DEF Stop, TypeOK
<1>5. ASSUME StoppedBy(c) \notin Spinner
      PROVE  \A k \in Spinner : loading[k] => loading[k] /\ StoppedBy(c) # k
  BY <1>5
<1>6. CASE StatusLoaded(c, ok, data)
  BY <1>1, <1>2, <1>6 DEF StatusLoaded
<1>7. CASE QueueLoaded(c, ok, data)
  <2> DEFINE goOn == c.next = "wallet" /\ copy # NoOne
  <2>1. GoOn(c, goOn, Stop("queue"), "wallet", Nothing) /\ StoppedBy(c) = "queue"
    BY <1>7 DEF QueueLoaded
  <2>2. goOn \in BOOLEAN
    OBVIOUS
  <2> HIDE DEF goOn
  <2>3. QED
    BY <1>1, <1>3, <1>4, <2>1, <2>2
<1>8. CASE WalletLoaded(c, ok, data)
  BY <1>1, <1>2, <1>8 DEF WalletLoaded
<1>9. CASE Toggled(c, ok)
  BY <1>1, <1>2, <1>9 DEF Toggled
<1>10. CASE Updated(c, ok)
  <2> DEFINE goOn == ok /\ copy # NoOne
             next == IF c.arg.status = "completed" THEN "wallet" ELSE Nothing
  <2>1. GoOn(c, goOn, loading, "queue", next) /\ StoppedBy(c) = "update"
    BY <1>10 DEF Updated
  <2>2. goOn \in BOOLEAN /\ loading \in [Spinner -> BOOLEAN]
    BY DEF TypeOK
  <2> HIDE DEF goOn, next
  <2>3. QED
    BY <1>1, <1>3, <1>5, <2>1, <2>2
<1>11. CASE StaffLoaded(c, ok)
  BY <1>1, <1>2, <1>11 DEF StaffLoaded
<1>12. CASE MetricsLoaded(c, ok)
  BY <1>1, <1>2, <1>12 DEF MetricsLoaded
<1>13. CASE ExpensesLoaded(c, ok)
  <2> DEFINE goOn == c.next = "metrics" /\ copy # NoOne
  <2>1. GoOn(c, goOn, Stop("expenses"), "metrics", "return") /\ StoppedBy(c) = "expenses"
    BY <1>13 DEF ExpensesLoaded
  <2>2. goOn \in BOOLEAN
    OBVIOUS
  <2> HIDE DEF goOn
  <2>3. QED
    BY <1>1, <1>3, <1>4, <2>1, <2>2
<1>14. CASE Logged(c, ok)
  <2> DEFINE goOn == ok /\ copy # NoOne
  <2>1. GoOn(c, goOn, loading, "expenses", "metrics") /\ StoppedBy(c) = "log"
    BY <1>14 DEF Logged
  <2>2. goOn \in BOOLEAN /\ loading \in [Spinner -> BOOLEAN]
    BY DEF TypeOK
  <2> HIDE DEF goOn
  <2>3. QED
    BY <1>1, <1>3, <1>5, <2>1, <2>2
<1>15. QED
  BY <1>6, <1>7, <1>8, <1>9, <1>10, <1>11, <1>12, <1>13, <1>14 DEF Settle

\* A spinner turns, and the switch is dead, only while a call is awaited that
\* will stop it.
THEOREM SpinnersStop == Spec => []SpinnerMeansCall
<1>1. Init => SpinnerMeansCall
  BY DEF Init, SpinnerMeansCall
<1>2. ASSUME TypeOK, SpinnerMeansCall, CallInv, [Next]_vars
      PROVE  SpinnerMeansCall'
  <2>1. ASSUME NEW u, loading' = Spin(LoadsOf(u)), Make(ThreeLoads(u), calls)
        PROVE  SpinnerMeansCall'
    <3> SUFFICES ASSUME NEW k \in Spinner, loading'[k]
                 PROVE  \E d \in calls' : StoppedBy(d) = k
      BY DEF SpinnerMeansCall
    <3>1. CASE loading[k]
      BY <1>2, <2>1, <3>1 DEF SpinnerMeansCall, Make
    <3>2. CASE k \in LoadsOf(u)
      <4>1. [NewCall(k, Nothing) EXCEPT !.as = u] \in calls'
        BY <2>1, <3>2 DEF Make, ThreeLoads
      <4>2. StoppedBy([NewCall(k, Nothing) EXCEPT !.as = u]) = k
        BY DEF StoppedBy, NewCall, Spinner, StylistLoad, ManagerLoad
      <4>3. QED
        BY <4>1, <4>2
    <3>3. QED
      BY <2>1, <3>1, <3>2 DEF Spin
  <2>2. CASE ShowDashboard
    BY <2>1, <2>2 DEF ShowDashboard
  <2>3. CASE Refresh
    BY <2>1, <2>3 DEF Refresh
  <2>4. CASE ToggleAvailability
    <3>1. PICK call : call.kind = "toggle" /\ Make({call}, calls)
      BY <2>4 DEF ToggleAvailability, NewCall
    <3>2. call \in calls' /\ calls \subseteq calls' /\ StoppedBy(call) = "status"
      BY <3>1 DEF Make, StoppedBy
    <3>3. loading' = [loading EXCEPT !["status"] = TRUE]
      BY <2>4 DEF ToggleAvailability
    <3>4. QED
      BY <1>2, <3>2, <3>3 DEF SpinnerMeansCall, TypeOK
  <2>5. CASE UpdateAppointmentStatus \/ LogExpense
    BY <1>2, <2>5 DEF UpdateAppointmentStatus, LogExpense, Make, appVars, SpinnerMeansCall
  <2>6. CASE \E a \in answers : Deliver(a)
    <3>1. PICK a \in answers : Deliver(a)
      BY <2>6
    <3>2. a.call \in calls /\ a.call \in Call /\ a.ok \in BOOLEAN
      BY <1>2 DEF CallInv, TypeOK
    <3>3. QED
      BY <1>2, <3>1, <3>2, SettleSpinners DEF Deliver
  <2>7. CASE \E c \in calls : NetworkError(c)
    <3>1. PICK c \in calls : NetworkError(c)
      BY <2>7
    <3>2. c \in Call
      BY <1>2 DEF TypeOK
    <3>3. QED
      BY <1>2, <3>1, <3>2, SettleSpinners DEF NetworkError
  <2>8. CASE (\E u \in User : Login(u)) \/ Logout \/ ShowLogin
             \/ (\E c \in sent : Serve(c)) \/ UNCHANGED vars
    BY <1>2, <2>8 DEF Login, Logout, ShowLogin, Serve, vars, appVars, SpinnerMeansCall
  <2>9. QED
    BY <1>2, <2>2, <2>3, <2>4, <2>5, <2>6, <2>7, <2>8 DEF Next
<1>3. QED
  BY <1>1, <1>2, Typed, PTL DEF Spec

-----------------------------------------------------------------------------
(***************************************************************************)
(* What the manager is told.                                               *)
(***************************************************************************)

\* The loads after an expense wait for one that is booked.
LoadsFollowExpense ==
    \A c \in calls : c.next \in {"metrics", "return"} => c.n \in expenses

\* One request for each press of the button.
OneRequest ==
    \A c, d \in calls \cup sent :
        c.kind = "log" /\ d.kind = "log" /\ c.n = d.n => c = d

\* A request on its way is not booked, nor reported as failed.
Unserved ==
    \A c \in sent : c.kind = "log" => c.n \notin expenses /\ c.n \notin failed \ lost

\* An answer on its way is that of a served request, and says what became of it.
AnswersTrue ==
    \A a \in answers : a.call.kind = "log" =>
        a.call \notin sent /\ (a.ok <=> a.call.n \in expenses)

PressesPast == expenses \cup failed \subseteq 1 .. presses

TruthInv ==
    /\ ToldTruly /\ LoadsFollowExpense /\ OneRequest
    /\ Unserved /\ AnswersTrue /\ PressesPast

\* Whom the end of an await adds to the calls, the requests and the returns.
LEMMA SettleAdds ==
    ASSUME CallInv, TruthInv, NEW c \in calls, NEW ok \in BOOLEAN, NEW data,
           Settle(c, ok, data), ok /\ c.kind = "log" => c.n \in expenses
    PROVE  /\ \A d \in calls' : \/ d \in calls
                                \/ /\ d.kind # "log"
                                   /\ d.next \in {"metrics", "return"} => d.n \in expenses
           /\ \A d \in sent' : d \in sent \/ d.kind # "log"
           /\ succeeded' \subseteq expenses
           /\ failed' \subseteq failed \cup (IF c.kind = "log" /\ ~ok THEN {c.n} ELSE {})
<1> DEFINE Adds(d) == /\ d.kind # "log"
                      /\ d.next \in {"metrics", "return"} => d.n \in expenses
<1>1. ASSUME Make({}, calls \ {c})
      PROVE  /\ \A d \in calls' : d \in calls
             /\ \A d \in sent' : d \in sent
  BY <1>1 DEF Make
<1>2. ASSUME NEW goOn, NEW flags, NEW kind, NEW next, GoOn(c, goOn, flags, kind, next),
             kind # "log", goOn /\ next \in {"metrics", "return"} => c.n \in expenses
      PROVE  /\ \A d \in calls' : d \in calls \/ Adds(d)
             /\ \A d \in sent' : d \in sent \/ d.kind # "log"
  BY <1>2 DEF GoOn, Make
<1>3. \A b : Returning(c, b) = IF b THEN {c.n} ELSE {}
  BY DEF Returning
<1>4. succeeded \subseteq expenses
  BY DEF TruthInv, ToldTruly
<1>5. c.next \in {"metrics", "return"} => c.n \in expenses
  BY DEF TruthInv, LoadsFollowExpense
<1>6. CASE StatusLoaded(c, ok, data) \/ WalletLoaded(c, ok, data) \/ Toggled(c, ok)
           \/ StaffLoaded(c, ok)
  BY <1>1, <1>4, <1>6 DEF StatusLoaded, WalletLoaded, Toggled, StaffLoaded, logVars
<1>7. CASE QueueLoaded(c, ok, data)
  <2>1. GoOn(c, c.next = "wallet" /\ copy # NoOne, Stop("queue"), "wallet", Nothing)
    BY <1>7 DEF QueueLoaded
  <2>2. /\ \A d \in calls' : d \in calls \/ Adds(d)
        /\ \A d \in sent' : d \in sent \/ d.kind # "log"
    BY <1>2, <2>1, AppAssumption
  <2>3. QED
    BY <1>4, <1>7, <2>2 DEF QueueLoaded, logVars
<1>8. CASE Updated(c, ok)
  <2> DEFINE next == IF c.arg.status = "completed" THEN "wallet" ELSE Nothing
  <2>1. GoOn(c, ok /\ copy # NoOne, loading, "queue", next)
    BY <1>8 DEF Updated
  <2>2. next \notin {"metrics", "return"}
    BY AppAssumption
  <2> HIDE DEF next
  <2>3. /\ \A d \in calls' : d \in calls \/ Adds(d)
        /\ \A d \in sent' : d \in sent \/ d.kind # "log"
    BY <1>2, <2>1, <2>2
  <2>4. QED
    BY <1>4, <1>8, <2>3 DEF Updated, logVars
<1>9. CASE MetricsLoaded(c, ok)
  BY <1>1, <1>3, <1>4, <1>5, <1>9 DEF MetricsLoaded
<1>10. CASE ExpensesLoaded(c, ok)
  <2> DEFINE goOn == c.next = "metrics" /\ copy # NoOne
  <2>1. GoOn(c, goOn, Stop("expenses"), "metrics", "return")
    BY <1>10 DEF ExpensesLoaded
  <2>2. /\ \A d \in calls' : d \in calls \/ Adds(d)
        /\ \A d \in sent' : d \in sent \/ d.kind # "log"
    BY <1>2, <1>5, <2>1
  <2>3. QED
    BY <1>3, <1>4, <1>5, <1>10, <2>2 DEF ExpensesLoaded
<1>11. CASE Logged(c, ok)
  <2>1. GoOn(c, ok /\ copy # NoOne, loading, "expenses", "metrics") /\ c.kind = "log"
    BY <1>11 DEF Logged
  <2>2. /\ \A d \in calls' : d \in calls \/ Adds(d)
        /\ \A d \in sent' : d \in sent \/ d.kind # "log"
    BY <1>2, <2>1
  <2>3. QED
    BY <1>3, <1>4, <1>11, <2>1, <2>2 DEF Logged
<1>12. QED
  BY <1>6, <1>7, <1>8, <1>9, <1>10, <1>11 DEF Settle

\* The end of an await keeps the truth, if its answer is true or lost.
LEMMA SettleTruth ==
    ASSUME CallInv, TruthInv, NEW c \in calls, NEW ok \in BOOLEAN, NEW data,
           Settle(c, ok, data), lost \subseteq lost',
           ok /\ c.kind = "log" => c.n \in expenses,
           ~ok /\ c.kind = "log" =>
               \/ c.n \in lost'
               \/ c.n \notin expenses /\ \A d \in sent : d.kind = "log" => d.n # c.n
    PROVE  TruthInv'
<1> USE DEF TruthInv
<1>1. /\ \A d \in calls' : \/ d \in calls
                           \/ /\ d.kind # "log"
                              /\ d.next \in {"metrics", "return"} => d.n \in expenses
      /\ \A d \in sent' : d \in sent \/ d.kind # "log"
      /\ succeeded' \subseteq expenses
      /\ failed' \subseteq failed \cup (IF c.kind = "log" /\ ~ok THEN {c.n} ELSE {})
  BY SettleAdds
<1>2. /\ UNCHANGED <<expenses, presses>>
      /\ answers' \subseteq answers
  BY DEF Settle, serverVars
<1>3. ToldTruly'
  BY <1>1, <1>2 DEF ToldTruly
<1>4. LoadsFollowExpense'
  BY <1>1, <1>2 DEF LoadsFollowExpense
<1>5. OneRequest'
  BY <1>1 DEF OneRequest
<1>6. Unserved'
  BY <1>1, <1>2 DEF Unserved
<1>7. AnswersTrue'
  BY <1>1, <1>2 DEF AnswersTrue
<1>8. PressesPast'
  BY <1>1, <1>2 DEF PressesPast, CallInv, GoodCall, Call
<1>9. QED
  BY <1>3, <1>4, <1>5, <1>6, <1>7, <1>8

\* So does a press: its number is new.
LEMMA PressTruth ==
    ASSUME CallInv, TruthInv, presses \in Nat, presses' = presses + 1,
           NEW new, Make(new, calls), UNCHANGED <<expenses, logVars, lost, answers>>,
           \A c \in new : c.n = presses + 1 /\ c.next = Nothing,
           (\A c \in new : c.kind # "log") \/ (\E c : new = {c})
    PROVE  TruthInv'
<1> USE DEF TruthInv
<1>1. \A c \in calls \cup sent : c.n \in 1 .. presses
  BY DEF CallInv, GoodCall, Call
<1>2. calls' = calls \cup new /\ sent' \subseteq sent \cup new
  BY DEF Make
<1>3. ToldTruly'
  BY DEF ToldTruly, logVars
<1>4. LoadsFollowExpense'
  BY <1>2, AppAssumption DEF LoadsFollowExpense
<1>5. OneRequest'
  BY <1>1, <1>2 DEF OneRequest
<1>6. Unserved'
  BY <1>2 DEF Unserved, PressesPast, logVars
<1>7. AnswersTrue'
  BY <1>1, <1>2 DEF AnswersTrue, CallInv
<1>8. PressesPast'
  BY DEF PressesPast, logVars
<1>9. QED
  BY <1>3, <1>4, <1>5, <1>6, <1>7, <1>8

\* What the manager is told of an expense is true, whatever becomes of the loads
\* that follow and of the session, unless the answer itself was lost.
THEOREM Truth == Spec => []ToldTruly
<1>1. Init => TruthInv
  BY DEF Init, TruthInv, ToldTruly, LoadsFollowExpense, OneRequest, Unserved, AnswersTrue,
         PressesPast
<1>2. ASSUME TypeOK, CallInv, TruthInv, [Next]_vars
      PROVE  TruthInv'
  <2>1. presses \in Nat
    BY <1>2 DEF TypeOK
  <2>2. ASSUME NEW u, presses' = presses + 1, Make(ThreeLoads(u), calls),
               UNCHANGED <<expenses, logVars, lost, answers>>
        PROVE  TruthInv'
    <3>1. \A c \in ThreeLoads(u) :
             c.n = presses + 1 /\ c.next = Nothing /\ c.kind # "log"
      BY DEF ThreeLoads, NewCall, LoadsOf, StylistLoad, ManagerLoad
    <3>2. QED
      BY <1>2, <2>1, <2>2, <3>1, PressTruth
  <2>3. ASSUME NEW kind, NEW arg, presses' = presses + 1, Make({NewCall(kind, arg)}, calls),
               UNCHANGED <<expenses, logVars, lost, answers>>
        PROVE  TruthInv'
    <3>1. \A c \in {NewCall(kind, arg)} : c.n = presses + 1 /\ c.next = Nothing
      BY DEF NewCall
    <3>2. \E c : {NewCall(kind, arg)} = {c}
      OBVIOUS
    <3>3. QED
      BY <1>2, <2>1, <2>3, <3>1, <3>2, PressTruth
  <2>4. CASE ShowDashboard
    BY <2>2, <2>4 DEF ShowDashboard, serverVars
  <2>5. CASE Refresh
    BY <2>2, <2>5 DEF Refresh, serverVars
  <2>6. CASE ToggleAvailability
    BY <2>3, <2>6 DEF ToggleAvailability, serverVars
  <2>7. CASE UpdateAppointmentStatus
    BY <2>3, <2>7 DEF UpdateAppointmentStatus, serverVars, appVars
  <2>8. CASE LogExpense
    BY <2>3, <2>8 DEF LogExpense, serverVars, appVars
  <2>9. CASE \E c \in sent : Serve(c)
    <3>1. PICK c \in sent : Serve(c)
      BY <2>9
    <3>2. PICK ok \in BOOLEAN :
             /\ answers' = IF c \in calls
                  THEN answers \cup {[call |-> c, ok |-> ok,
                                      data |-> IF ok THEN DataOf(c) ELSE Nothing]}
                  ELSE answers
             /\ expenses' = IF ok /\ c.kind = "log" THEN expenses \cup {c.n} ELSE expenses
      BY <3>1 DEF Serve
    <3>3. UNCHANGED <<calls, presses, succeeded, failed, lost>> /\ sent' = sent \ {c}
      BY <3>1 DEF Serve, appVars, logVars
    <3>4. c.n \in 1 .. presses
      BY <1>2 DEF CallInv, GoodCall, Call
    <3>5. c.kind = "log" =>
            /\ c.n \notin expenses /\ c.n \notin failed \ lost
            /\ \A d \in calls \cup sent : d.kind = "log" /\ d.n = c.n => d = c
      BY <1>2 DEF TruthInv, Unserved, OneRequest
    <3>6. ToldTruly' /\ LoadsFollowExpense' /\ OneRequest' /\ Unserved' /\ PressesPast'
      BY <1>2, <3>2, <3>3, <3>4, <3>5
      DEF TruthInv, ToldTruly, LoadsFollowExpense, OneRequest, Unserved, PressesPast
    <3>7. AnswersTrue'
      <4> SUFFICES ASSUME NEW a \in answers', a.call.kind = "log"
                   PROVE  a.call \notin sent' /\ (a.ok <=> a.call.n \in expenses')
        BY DEF AnswersTrue
      <4>1. CASE a \in answers
        <5>1. a.call \in calls /\ a.call \notin sent /\ (a.ok <=> a.call.n \in expenses)
          BY <1>2, <4>1 DEF CallInv, TruthInv, AnswersTrue
        <5>2. c.kind = "log" => a.call.n # c.n
          BY <3>5, <5>1
        <5>3. QED
          BY <3>2, <3>3, <5>1, <5>2
      <4>2. CASE a \notin answers
        <5>1. a.call = c /\ a.ok = ok
          BY <3>2, <4>2
        <5>2. QED
          BY <3>2, <3>3, <3>5, <5>1
      <4>3. QED
        BY <4>1, <4>2
    <3>8. QED
      BY <3>6, <3>7 DEF TruthInv
  <2>10. CASE \E a \in answers : Deliver(a)
    <3>1. PICK a \in answers : Deliver(a)
      BY <2>10
    <3>2. a.call \in calls /\ a.ok \in BOOLEAN
      BY <1>2 DEF CallInv, TypeOK
    <3>3. a.call.kind = "log" => a.call \notin sent /\ (a.ok <=> a.call.n \in expenses)
      BY <1>2 DEF TruthInv, AnswersTrue
    <3>4. a.call.kind = "log" => \A d \in sent : d.kind = "log" => d.n # a.call.n
      BY <1>2, <3>2, <3>3 DEF TruthInv, OneRequest
    <3>5. QED
      BY <1>2, <3>1, <3>2, <3>3, <3>4, SettleTruth DEF Deliver
  <2>11. CASE \E c \in calls : NetworkError(c)
    <3>1. PICK c \in calls : NetworkError(c)
      BY <2>11
    <3>2. lost \subseteq lost' /\ (c.kind = "log" => c.n \in lost')
      BY <3>1 DEF NetworkError, Returning
    <3>3. QED
      BY <1>2, <3>1, <3>2, SettleTruth DEF NetworkError
  <2>12. CASE (\E u \in User : Login(u)) \/ Logout \/ ShowLogin
    <3>1. UNCHANGED <<serverVars, logVars, lost, presses, calls, sent, answers>>
      BY <2>12 DEF Login, Logout, ShowLogin
    <3>2. QED
      BY <1>2, <3>1 DEF serverVars, logVars, TruthInv, ToldTruly, LoadsFollowExpense,
                        OneRequest, Unserved, AnswersTrue, PressesPast
  <2>13. CASE UNCHANGED vars
    BY <1>2, <2>13 DEF vars, serverVars, appVars, logVars, TruthInv, ToldTruly,
                       LoadsFollowExpense, OneRequest, Unserved, AnswersTrue, PressesPast
  <2>14. QED
    BY <1>2, <2>4, <2>5, <2>6, <2>7, <2>8, <2>9, <2>10, <2>11, <2>12, <2>13 DEF Next
<1>3. QED
  BY <1>1, <1>2, Typed, PTL DEF Spec, TruthInv

=============================================================================
