CONSTANTS
    Client = {}
    NoClient = walkIn
    Product = {}
    NoProduct = service
    Stylist = {}
    NoStylist = nobody
    Profile <- MCProfile
    OpeningCash = 200
    MaxDay = 2
    Sales <- MCSales
    AutoSales = {}
    Spendings <- MCSpendings
    Counts <- MCCounts
    Deliveries = {}
    Browser = {b1, b2}
    Nothing = Nothing
    Tolerance = 1
    MaxReads = 2
    MaxCloses = 2
    MaxInvoices = 1
    MaxExpenses = 1
SPECIFICATION Spec
SYMMETRY Symmetry
INVARIANTS
    TypeOK
    ClosingExplained
    ClosedIsFinal
CHECK_DEADLOCK FALSE
