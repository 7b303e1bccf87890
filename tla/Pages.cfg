CONSTANTS
    emma = emma
    david = david
    Page = {p1, p2}
    Stylist = {emma, david}
    FirstAvailable = firstAvailable
    StaffList <- MCStaffList
    Slot = {t1}
    Clashing <- SameTime
    NoSlot = noSlot
    NoRequest = noRequest
    MaxTries = 2
SPECIFICATION FairSpec
INVARIANTS
    TypeOK
    ConfirmedIsBooked
PROPERTIES
    EveryPressSettled
CHECK_DEADLOCK FALSE
