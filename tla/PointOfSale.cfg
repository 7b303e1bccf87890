CONSTANTS
    emma = emma
    david = david
    Page = {checkout, dashboard, appointments}
    FormPage = {dashboard}
    Appointments = appointments
    Dashboard = dashboard
    Checkout = checkout
    Item = {haircut}
    Staff = {emma, david}
    StaffRows <- MCStaffRows
    Undefined = Undefined
    NoPage = NoPage
    MaxRenders = 4
    MaxPresses = 3
SPECIFICATION Spec
INVARIANTS
    TypeOK
    RepeatNeedsSlip
    SoldCartGone
    ButtonNotStuck
CHECK_DEADLOCK FALSE
