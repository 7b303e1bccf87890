CONSTANTS
    emma = emma
    Worker = {w1, w2}
    NoWorker = noWorker
    Page = {p1, p2}
    Contact = {p1, p2}
    Stylist = {emma}
    Blank = blank
    Date = {day}
    Day = day
    DayLen = 4
    Duration = 1
    Slot = {1}
    NoSlot = noSlot
    NoRequest = noRequest
    FirstAvailable = firstAvailable
    StaffList <- MCStaffList
    ContactOf <- MCContactOf
    Bookings <- MCBookings
    Changes = {}
    SeedApts <- NoApts
    SeedClients <- NoClients
    MaxTries = 2
    MaxApts = 4
    MaxClients = 1
SPECIFICATION OnlineSpec
INVARIANTS
    ConfirmedIsFiled
PROPERTIES
    PagesSpec
SYMMETRY Interchangeable
CHECK_DEADLOCK FALSE
