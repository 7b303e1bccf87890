CONSTANTS
    s1 = s1
    d1 = d1
    c1 = c1
    c2 = c2
    Worker = {w1, w2}
    NoWorker = NoWorker
    Stylist = {s1}
    Contact = {blank, c1, c2}
    Blank = blank
    Date = {d1}
    DayLen = 8
    Bookings <- OneBooking
    Changes <- Completions
    SeedApts <- MCSeedApts
    SeedClients <- MCSeedClients
    MaxApts = 1
    MaxClients = 1
SPECIFICATION Spec
SYMMETRY Symmetry
INVARIANTS
    InvoicedOnce
